----------------------------- MODULE VIrqProofs ------------------------------
(****************************************************************************)
(* The interrupts of guests on the ports other than Arm.                    *)
(*                                                                          *)
(* First those that the hardware of RH850 and TriCore delivers to guests    *)
(* itself, for any platform, any assignment of CPUs and interrupts to VMs   *)
(* and any number of guests that store to the shared registers at the same  *)
(* time, each of which the hypervisor reads, merges and stores without a    *)
(* lock.  That a store is made long after the read is the hazard.           *)
(* StoreConfined and StoreKept say of a store that is still to be made why  *)
(* it does no harm then: what it holds for interrupts of others is still as *)
(* they have it, and pending bits are only cleared where the guest said so. *)
(*                                                                          *)
(* Then the controllers of RISC-V, for any number of vCPUs and interrupts.  *)
(* There the lines of the vCPUs are updated outside the lock and by         *)
(* messages.  PlicInv and AplicInv say, at any time, why a vCPU that may    *)
(* take an interrupt gets its line: it is up, or an update is coming, which *)
(* will not be undone by one that read before.  Each handler of the virtual *)
(* controllers has a lemma that says which vCPUs it gives something to take *)
(* and tells of it, and that the physical controller mirrors it again.      *)
(****************************************************************************)
EXTENDS MCVIrq, FiniteSetTheorems, WellFoundedInduction, TLAPS

(* The start and the steps on a platform of any shape.                      *)
DeSpec == (\E b : WellFormed(b) /\ DeInit(b)) /\ [][DeNext]_devars

Fields == {"vm", "cpu", "en", "prio", "pend", "det"}

(* The fields of a node, and the interrupts there are.                      *)
NodeTypes ==
    /\ node = [i \in board.all |-> node[i]]
    /\ \A i \in board.all : node[i] = [f \in Fields |-> node[i][f]]

(* What a handler is about to store for interrupts that its guest does not  *)
(* own is the enable bit of some of the hypervisor's, as it is; for its     *)
(* own, their VM and one of its CPUs.                                       *)
StoreConfined(c) ==
    \A u \in busy[c].upd :
        /\ u.intp \in Irqs
        /\ ~vm_has_interrupt(Vm(c), u.intp) =>
               Owner(u.intp) = HYP /\ u.field = "en" /\ u.val = node[u.intp].en
        /\ u.field = "vm" => u.val = Vm(c)
        /\ u.field = "cpu" /\ Rh850 => u.val \in CpusOf(Vm(c))

(* A store that clears a pending bit is one the guest meant to; one of the  *)
(* hypervisor sets it, and leaves the enable bit as it is.                  *)
StoreKept(c) ==
    /\ busy[c].kind = "guest" =>
           \A u \in busy[c].upd : u.field = "pend" =>
               u.val = 1 \/ (u.intp \in busy[c].cleared /\ Set(u.intp, "pend", 0) \in busy[c].upd)
    /\ busy[c].kind = "inject" =>
           /\ board.virq[Vm(c)] # {}
           /\ \A u \in busy[c].upd :
                /\ u.intp \in board.virq[Vm(c)]
                /\ u.field = "en" => u.val = node[u.intp].en
                /\ u.field = "pend" => u.val = 1
                /\ Set(u.intp, "pend", 1) \in busy[c].upd

(* The inductive invariant.                                                 *)
DeInv ==
    /\ WellFormed(board)
    /\ NodeTypes
    /\ busy = [c \in CPUS |-> busy[c]]
    /\ want = [i \in board.all |-> want[i]]
    /\ due \subseteq board.all
    /\ ipir \in [CPUS -> [CHAN -> [en : SUBSET CPUS, flg : SUBSET CPUS]]]
    /\ \A c \in CPUS : busy[c] = NoStore \/ busy[c].kind \in {"guest", "inject"}
    /\ \A c \in CPUS : busy[c] # NoStore => StoreConfined(c) /\ StoreKept(c)
    /\ DirectConfined
    /\ DirectNotLost
    /\ \A i \in Irqs : node[i].en = want[i]

(* intc_vm_assign, ir_assign_int_to_vm, ipir_init and ir_init_ipi.          *)
LEMMA InitDirect == ASSUME NEW b, WellFormed(b), DeInit(b) PROVE DeInv
<1> USE DEF DeInit
<1>1. \A i \in b.all : node[i] = vm_assign(b, CHOOSE m \in DOMAIN b.irqs : i \in b.irqs[m]) \/ node[i] = hyp_assign
  OBVIOUS
<1>2. NodeTypes
  BY <1>1 DEF NodeTypes, vm_assign, hyp_assign, Fields
<1>3. \A i \in b.all : node[i].vm = Owner(i) /\ (Owner(i) = HYP => node[i] = hyp_assign)
                          /\ (Rh850 /\ Owner(i) # HYP => node[i].cpu \in CpusOf(Owner(i)))
  <2> SUFFICES ASSUME NEW i \in b.all
               PROVE  /\ node[i].vm = Owner(i) /\ (Owner(i) = HYP => node[i] = hyp_assign)
                      /\ Rh850 /\ Owner(i) # HYP => node[i].cpu \in CpusOf(Owner(i))
    OBVIOUS
  <2>1. CASE \E m \in VMS : i \in board.irqs[m]
    <3> DEFINE o == CHOOSE m \in VMS : i \in board.irqs[m]
    <3>1. o \in VMS /\ Owner(i) = o /\ node[i] = vm_assign(b, o)
      BY <2>1 DEF Owner, VMS
    <3> HIDE DEF o
    <3>2. /\ o # HYP
          /\ b.vcpu[o][0] \in CPUS /\ b.cpus[b.vcpu[o][0]] = o
      BY <3>1 DEF WellFormed, VMS, CPUS
    <3>3. node[i].vm = o /\ (Rh850 => node[i].cpu = b.vcpu[o][0]) /\ board = b
      <4>1. board = b
        OBVIOUS
      <4> HIDE DEF DeInit
      <4> QED
        BY <3>1, <4>1 DEF vm_assign, Rh850
    <3>4. Rh850 => node[i].cpu \in CpusOf(o)
      BY <3>2, <3>3 DEF CpusOf
    <3> QED
      BY <3>1, <3>2, <3>3, <3>4
  <2>2. CASE ~\E m \in VMS : i \in board.irqs[m]
    BY <2>2 DEF Owner, VMS, hyp_assign
  <2> QED
    BY <2>1, <2>2
<1>4. DirectConfined
  BY <1>3 DEF DirectConfined, Irqs, CPUS, CHAN
<1> QED
  BY <1>2, <1>4 DEF DeInv, Irqs, CPUS, NoStore, DirectNotLost

(* The owner of an interrupt.                                               *)
LEMMA Owners ==
    ASSUME WellFormed(board)
    PROVE  /\ \A m \in VMS, i \in board.all : vm_has_interrupt(m, i) <=> Owner(i) = m
           /\ \A i : Owner(i) \in VMS \cup {HYP}
           /\ HYP \notin VMS
           /\ \A c \in CPUS : Vm(c) \in VMS
  BY DEF WellFormed, Owner, VMS, vm_has_interrupt, CPUS, Vm

(* Stores that are not made yet are right about nodes whose enable bits do  *)
(* not change.                                                              *)
LEMMA StoresStay ==
    ASSUME DeInv, board' = board, Irqs' = Irqs, \A i \in Irqs : node'[i].en = node[i].en,
           NEW c \in CPUS, busy'[c] = busy[c], busy[c] # NoStore
    PROVE  StoreConfined(c)' /\ StoreKept(c)'
<1>1. StoreConfined(c)'
  <2>1. /\ Vm(c)' = Vm(c) /\ Rh850' = Rh850 /\ CpusOf(Vm(c))' = CpusOf(Vm(c))
        /\ \A i : vm_has_interrupt(Vm(c), i)' = vm_has_interrupt(Vm(c), i)
        /\ \A i : Owner(i)' = Owner(i)
    BY DEF Vm, CpusOf, CPUS, Rh850, vm_has_interrupt, Owner, VMS
  <2>2. StoreConfined(c)
    BY DEF DeInv
  <2> QED
    BY <2>1, <2>2 DEF StoreConfined
<1>2. StoreKept(c)'
  BY DEF DeInv, StoreConfined, StoreKept, Vm
<1> QED
  BY <1>1, <1>2

(* The IPI registers of RH850 name CPUs of the caller's VM.                 *)
LEMMA IpirStep ==
    ASSUME DeInv, NEW c \in CPUS, vipir_emul_handler(c) \/ ipir_send_ipi(c) \/ ipir_handle(c)
    PROVE  DeInv'
<1>1. UNCHANGED <<board, node, busy, want, due>>
  BY DEF vipir_emul_handler, ipir_send_ipi, ipir_handle
<1>2. /\ ipir' \in [CPUS -> [CHAN -> [en : SUBSET CPUS, flg : SUBSET CPUS]]]
      /\ \A d \in CPUS : /\ ipir'[d]["guest"].en \cup ipir'[d]["guest"].flg \subseteq CpusOf(Vm(d))
                         /\ ipir'[d]["hyp"].en = CPUS
  <2>1. /\ ipir \in [CPUS -> [CHAN -> [en : SUBSET CPUS, flg : SUBSET CPUS]]]
        /\ \A d \in CPUS : /\ ipir[d]["guest"].en \cup ipir[d]["guest"].flg \subseteq CpusOf(Vm(d))
                           /\ ipir[d]["hyp"].en = CPUS
    BY DEF DeInv, DirectConfined
  <2>2. CASE ipir_send_ipi(c)
    <3>1. PICK t \in CPUS : ipir' = [ipir EXCEPT ![t]["hyp"].flg = @ \cup {c}]
      BY <2>2 DEF ipir_send_ipi
    <3> QED
      BY <2>1, <3>1 DEF CHAN
  <2>3. CASE ipir_handle(c)
    <3>1. ipir' = [ipir EXCEPT ![c]["hyp"].flg = {}]
      BY <2>3 DEF ipir_handle
    <3> QED
      BY <2>1, <3>1 DEF CHAN
  <2>4. CASE vipir_emul_handler(c)
    <3> DEFINE m == Vm(c)
    <3>1. PICK w \in Accesses[board.port] :
              LET pe == IF w.self THEN c ELSE Translate(m, w.vcpu)
                  val == Merge({}, TranslateMask(m, w.mask), m)
              IN  /\ w.reg \in {"EN", "REQ", "FCLR"} /\ w.chan # "hyp"
                  /\ ipir' = CASE w.reg = "EN" -> [ipir EXCEPT ![pe][w.chan].en = Merge(@, val, m)]
                               [] w.reg = "FCLR" -> [ipir EXCEPT ![pe][w.chan].flg = @ \ val]
                               [] w.reg = "REQ" ->
                                    [t \in CPUS |-> IF t \in val
                                                    THEN [ipir[t] EXCEPT ![w.chan].flg = @ \cup {pe}]
                                                    ELSE ipir[t]]
      BY <2>4 DEF vipir_emul_handler
    <3> DEFINE pe == IF w.self THEN c ELSE Translate(m, w.vcpu)
               val == Merge({}, TranslateMask(m, w.mask), m)
    <3>2. w.chan = "guest"
      BY <2>4, <3>1, AccessesAssumption DEF vipir_emul_handler, Rh850
    <3>3. pe \in CPUS /\ Vm(pe) = m
      BY Owners DEF Translate, DeInv, WellFormed, CPUS, Vm, VMS
    <3>4. val \subseteq CpusOf(m) /\ CpusOf(m) = {d \in CPUS : Vm(d) = m}
      BY DEF Merge, CpusOf, Vm
    <3>5. \/ ipir' = [ipir EXCEPT ![pe]["guest"].en = Merge(@, val, m)]
          \/ ipir' = [ipir EXCEPT ![pe]["guest"].flg = @ \ val]
          \/ ipir' = [t \in CPUS |-> IF t \in val THEN [ipir[t] EXCEPT !["guest"].flg = @ \cup {pe}]
                                                  ELSE ipir[t]]
      BY <3>1, <3>2
    <3> HIDE DEF pe, val, m
    <3>6. CASE ipir' = [ipir EXCEPT ![pe]["guest"].en = Merge(@, val, m)]
      BY <2>1, <3>3, <3>4, <3>6 DEF CHAN, Merge
    <3>7. CASE ipir' = [ipir EXCEPT ![pe]["guest"].flg = @ \ val]
      BY <2>1, <3>3, <3>4, <3>7 DEF CHAN
    <3>8. CASE ipir' = [t \in CPUS |-> IF t \in val THEN [ipir[t] EXCEPT !["guest"].flg = @ \cup {pe}]
                                                   ELSE ipir[t]]
      BY <2>1, <3>3, <3>4, <3>8 DEF CHAN
    <3> QED
      BY <3>5, <3>6, <3>7, <3>8
  <2> QED
    BY <2>2, <2>3, <2>4
<1>3. /\ CPUS' = CPUS /\ Irqs' = Irqs /\ Rh850' = Rh850
      /\ \A d : Vm(d)' = Vm(d)
      /\ \A m : CpusOf(m)' = CpusOf(m)
      /\ \A i : Owner(i)' = Owner(i)
  BY <1>1 DEF CPUS, Irqs, Rh850, Vm, CpusOf, Owner, VMS
<1>4. DirectConfined'
  BY <1>1, <1>2, <1>3 DEF DeInv, DirectConfined
<1>5. \A d \in CPUS : busy[d] # NoStore => StoreConfined(d)' /\ StoreKept(d)'
  BY <1>1, <1>3, StoresStay
<1> QED
  BY <1>1, <1>2, <1>3, <1>4, <1>5 DEF DeInv, NodeTypes, DirectNotLost

(* Only the pending bit of an interrupt of a guest changes.                 *)
LEMMA PendingBit ==
    ASSUME DeInv, UNCHANGED <<board, ipir>>, NEW i \in Irqs, NEW x, node' = [node EXCEPT ![i].pend = x]
    PROVE  /\ NodeTypes'
           /\ Irqs' = Irqs /\ Irqs = board.all
           /\ node'[i].pend = x
           /\ \A j \in Irqs : j # i => node'[j] = node[j]
           /\ \A j \in Irqs : node'[j].en = node[j].en
           /\ node[i].vm # HYP => DirectConfined'
<1>1. node = [j \in board.all |-> node[j]] /\ Irqs = board.all
  BY DEF DeInv, NodeTypes, Irqs
<1>2. \A j \in Irqs : node[j] = [f \in Fields |-> node[j][f]]
  BY <1>1 DEF DeInv, NodeTypes
<1>3. node'[i] = [node[i] EXCEPT !.pend = x] /\ \A j \in Irqs : j # i => node'[j] = node[j]
  BY <1>1
<1>4. node'[i] = [f \in Fields |-> IF f = "pend" THEN x ELSE node[i][f]]
  BY <1>2, <1>3 DEF Fields
<1>5. /\ node'[i].pend = x /\ node'[i].vm = node[i].vm /\ node'[i].cpu = node[i].cpu
      /\ node'[i].en = node[i].en
  BY <1>4 DEF Fields
<1>6. node' = [j \in board.all |-> node'[j]] /\ Irqs' = Irqs
  BY <1>1 DEF Irqs
<1>7. NodeTypes'
  BY <1>1, <1>2, <1>3, <1>4, <1>6 DEF NodeTypes, Fields
<1>8. ASSUME node[i].vm # HYP PROVE DirectConfined'
  <2>1. /\ CPUS' = CPUS /\ Rh850' = Rh850
        /\ \A d : Vm(d)' = Vm(d)
        /\ \A m : CpusOf(m)' = CpusOf(m)
        /\ \A j : Owner(j)' = Owner(j)
    BY DEF CPUS, Rh850, Vm, CpusOf, Owner, VMS
  <2>2. \A j \in Irqs : /\ node'[j].vm = Owner(j)
                        /\ Owner(j) = HYP => node'[j] = hyp_assign
                        /\ Rh850 /\ Owner(j) # HYP => node'[j].cpu \in CpusOf(Owner(j))
    BY <1>3, <1>5, <1>8 DEF DeInv, DirectConfined
  <2> QED
    BY <1>6, <2>1, <2>2 DEF DeInv, DirectConfined
<1> QED
  BY <1>1, <1>3, <1>5, <1>6, <1>7, <1>8

(* A device raises an interrupt.                                            *)
LEMMA RaiseStep == ASSUME DeInv, DeviceRaise PROVE DeInv'
<1>1. PICK i \in Irqs : node[i].vm # HYP /\ node' = [node EXCEPT ![i].pend = 1] /\ due' = due \cup {i}
  BY DEF DeviceRaise
<1>2. UNCHANGED <<board, ipir, busy, want>>
  BY DEF DeviceRaise
<1>3. CPUS' = CPUS
  BY <1>2 DEF CPUS
<1>4. /\ NodeTypes' /\ DirectConfined' /\ Irqs' = Irqs /\ Irqs = board.all
      /\ node'[i].pend = 1 /\ \A j \in Irqs : j # i => node'[j] = node[j]
      /\ \A j \in Irqs : node'[j].en = node[j].en
  BY <1>1, <1>2, PendingBit
<1>5. \A d \in CPUS : busy[d] # NoStore => StoreConfined(d)' /\ StoreKept(d)'
  BY <1>2, <1>4, StoresStay
<1>6. DirectNotLost' /\ due' \subseteq board.all
  BY <1>1, <1>4 DEF DeInv, DirectNotLost
<1> QED
  BY <1>2, <1>3, <1>4, <1>5, <1>6 DEF DeInv

(* A guest takes an interrupt of its own.                                   *)
LEMMA TakeStep == ASSUME DeInv, NEW c \in CPUS, GuestTakes(c) PROVE DeInv'
<1>1. PICK i \in Irqs : /\ node[i].vm = Vm(c) /\ node' = [node EXCEPT ![i].pend = 0]
                         /\ due' = due \ {i}
  BY DEF GuestTakes
<1>2. UNCHANGED <<board, ipir, busy, want>>
  BY DEF GuestTakes
<1>3. CPUS' = CPUS /\ node[i].vm # HYP
  BY <1>1, <1>2, Owners DEF CPUS, DeInv
<1>4. /\ NodeTypes' /\ DirectConfined' /\ Irqs' = Irqs /\ Irqs = board.all
      /\ \A j \in Irqs : j # i => node'[j] = node[j]
      /\ \A j \in Irqs : node'[j].en = node[j].en
  BY <1>1, <1>2, <1>3, PendingBit
<1>5. \A d \in CPUS : busy[d] # NoStore => StoreConfined(d)' /\ StoreKept(d)'
  BY <1>2, <1>4, StoresStay
<1>6. DirectNotLost' /\ due' \subseteq board.all
  BY <1>1, <1>4 DEF DeInv, DirectNotLost
<1> QED
  BY <1>2, <1>3, <1>4, <1>5, <1>6 DEF DeInv

(* What an access handler has read and is about to store.                   *)
LEMMA EmulatedStores ==
    ASSUME DeInv, NEW c \in CPUS, NEW w \in Accesses[board.port],
           w.reg \notin {"EN", "REQ", "FCLR"}, w.reg = "SRC" => vm_has_interrupt(Vm(c), w.intp),
           w.reg = "IMR" => \E j \in board.irqs[Vm(c)] : j \div IMR_BITS = w.reg_idx,
           NEW u \in Emulated(c, w)
    PROVE  /\ u.intp \in Irqs
           /\ ~vm_has_interrupt(Vm(c), u.intp) =>
               Owner(u.intp) = HYP /\ u.field = "en" /\ u.val = node[u.intp].en
           /\ u.field = "vm" => u.val = Vm(c)
           /\ u.field = "cpu" /\ Rh850 => u.val \in CpusOf(Vm(c))
           /\ u.field = "pend" =>
                  u.val = 1 \/ (u.intp \in Cleared(w) /\ Set(u.intp, "pend", 0) \in Emulated(c, w))
<1> DEFINE m == Vm(c)
<1>1. /\ m \in VMS /\ Irqs = board.all
      /\ \A i \in Irqs : vm_has_interrupt(m, i) <=> Owner(i) = m
      /\ \A i : vm_has_interrupt(m, i) => i \in Irqs
      /\ \A i \in Irqs : node[i].vm = Owner(i)
  BY Owners DEF DeInv, NodeTypes, Irqs, WellFormed, vm_has_interrupt, VMS, DirectConfined
<1>2. CASE Rh850
  <2>1. /\ w.reg \in {"EIC", "IMR", "EIBD", "EEIC"}
        /\ w.reg = "EIC" => 1 \in w.bytes /\ w.pend \in {0, 1}
    BY <1>2, AccessesAssumption DEF Rh850
  <2>2. CASE w.reg = "EIC"
    <3>1. u \in emulate_intc_eic_access(m, w)
      BY <2>2 DEF Emulated
    <3>2. /\ vm_has_interrupt(m, w.intp)
          /\ u.intp = w.intp /\ u.field \in {"en", "prio", "pend"}
          /\ u.field = "pend" => u = Set(w.intp, "pend", w.pend) /\ u.val = w.pend
      BY <2>1, <2>2, <3>1 DEF emulate_intc_eic_access, Set
    <3>3. u.field = "pend" /\ u.val # 1 =>
              u.intp \in Cleared(w) /\ Set(u.intp, "pend", 0) \in Emulated(c, w)
      BY <2>1, <2>2, <3>2 DEF Cleared
    <3> QED
      BY <1>1, <3>2, <3>3
  <2>3. CASE w.reg = "IMR"
    <3>1. u \in emulate_intc_imr_access(m, w)
      BY <2>3 DEF Emulated
    <3>2. /\ u.intp \in Irqs /\ u.field = "en" /\ u.intp \div IMR_BITS = w.reg_idx
          /\ ~vm_has_interrupt(m, u.intp) => u.val = node[u.intp].en
      BY <3>1 DEF emulate_intc_imr_access, Set
    <3>3. PICK j \in board.irqs[m] : j \div IMR_BITS = w.reg_idx
      BY <2>3
    <3>4. \A n \in VMS : u.intp \in board.irqs[n] => n = m
      BY <1>1, <1>2, <3>2, <3>3 DEF DeInv, WellFormed, VMS, Rh850
    <3>5. ~vm_has_interrupt(m, u.intp) => Owner(u.intp) = HYP
      BY <3>4 DEF Owner, vm_has_interrupt
    <3> QED
      BY <3>2, <3>5
  <2>4. CASE w.reg = "EIBD"
    <3>1. u \in emulate_intc_eibd_access(m, w)
      BY <2>4 DEF Emulated
    <3>2. /\ vm_has_interrupt(m, w.intp) /\ u.intp = w.intp
          /\ \/ u.field = "cpu" /\ u.val = Translate(m, w.vcpu)
             \/ u.field = "vm" /\ u.val = node[w.intp].vm
      BY <3>1 DEF emulate_intc_eibd_access, Set
    <3>3. Translate(m, w.vcpu) \in CpusOf(m)
      BY <1>1 DEF Translate, DeInv, WellFormed, CpusOf, CPUS, VMS
    <3> QED
      BY <1>1, <3>2, <3>3
  <2>5. CASE w.reg = "EEIC"
    <3>1. u \in emulate_intc_eeic_access(m, w)
      BY <2>5 DEF Emulated
    <3>2. vm_has_interrupt(m, w.intp) /\ u.intp = w.intp /\ u.field = "det"
      BY <3>1 DEF emulate_intc_eeic_access, Set
    <3> QED
      BY <1>1, <3>2
  <2> QED
    BY <2>1, <2>2, <2>3, <2>4, <2>5
<1>3. CASE ~Rh850
  <2>1. w.reg = "SRC" /\ w.setr \in BOOLEAN /\ w.clrr \in BOOLEAN
    BY <1>3, AccessesAssumption DEF Rh850, DeInv, WellFormed
  <2>2. u \in vir_emul_src_access(c, w)
    BY <2>1 DEF Emulated
  <2>3. /\ vm_has_interrupt(m, w.intp) /\ u.intp = w.intp
        /\ \/ u.field \in {"en", "prio", "cpu"}
           \/ u.field = "vm" /\ u.val = node[w.intp].vm
           \/ u.field = "pend" /\ u.val = 1
           \/ u.field = "pend" /\ u = Set(w.intp, "pend", 0) /\ ~w.setr /\ w.clrr
    BY <2>1, <2>2 DEF vir_emul_src_access, Set
  <2>4. ~w.setr /\ w.clrr => w.intp \in Cleared(w)
    BY <2>1 DEF Cleared
  <2> QED
    BY <1>1, <1>3, <2>3, <2>4
<1> QED
  BY <1>2, <1>3

(* The first half of a guest's access: the register is read.                *)
LEMMA AccessStep == ASSUME DeInv, NEW c \in CPUS, GuestAccess(c) PROVE DeInv'
<1>1. PICK w \in Accesses[board.port] :
          /\ w.reg \notin {"EN", "REQ", "FCLR"}
          /\ w.reg = "SRC" => vm_has_interrupt(Vm(c), w.intp)
          /\ w.reg = "IMR" => \E j \in board.irqs[Vm(c)] : j \div IMR_BITS = w.reg_idx
          /\ busy' = [busy EXCEPT ![c] = [kind |-> "guest", upd |-> Emulated(c, w), cleared |-> Cleared(w)]]
  BY DEF GuestAccess
<1>2. UNCHANGED <<board, node, ipir, want, due>>
  BY DEF GuestAccess
<1>3. /\ CPUS' = CPUS /\ Irqs' = Irqs /\ Rh850' = Rh850
      /\ \A d : Vm(d)' = Vm(d)
      /\ \A m : CpusOf(m)' = CpusOf(m)
      /\ \A m, i : vm_has_interrupt(m, i)' = vm_has_interrupt(m, i)
      /\ \A i : Owner(i)' = Owner(i)
  BY <1>2 DEF CPUS, Irqs, Rh850, Vm, CpusOf, Owner, VMS, vm_has_interrupt
<1>4. /\ busy' = [d \in CPUS |-> busy'[d]] /\ \A d \in CPUS : d # c => busy'[d] = busy[d]
      /\ busy'[c].kind = "guest" /\ busy'[c].upd = Emulated(c, w) /\ busy'[c].cleared = Cleared(w)
  BY <1>1 DEF DeInv
<1>5. \A d \in CPUS : d # c /\ busy[d] # NoStore => StoreConfined(d)' /\ StoreKept(d)'
  BY <1>2, <1>3, <1>4, StoresStay
<1>6. StoreConfined(c)' /\ StoreKept(c)'
  BY <1>1, <1>2, <1>3, <1>4, EmulatedStores DEF StoreConfined, StoreKept
<1>7. DirectConfined'
  BY <1>2, <1>3 DEF DeInv, DirectConfined
<1> QED
  BY <1>2, <1>3, <1>4, <1>5, <1>6, <1>7 DEF DeInv, NodeTypes, DirectNotLost

(* The first half of an injection.                                          *)
LEMMA InjectStep == ASSUME DeInv, NEW c \in CPUS, DirectInject(c) PROVE DeInv'
<1>1. PICK i \in board.virq[Vm(c)] :
          LET old == {Set(i, f, node[i][f]) : f \in {"en", "prio"} \cup IF Rh850 THEN {} ELSE {"cpu"}}
          IN  busy' = [busy EXCEPT ![c] = [kind |-> "inject", upd |-> old \cup {Set(i, "pend", 1)},
                                           cleared |-> {}]]
  BY DEF DirectInject
<1>2. UNCHANGED <<board, node, ipir, want, due>>
  BY DEF DirectInject
<1>3. /\ CPUS' = CPUS /\ Irqs' = Irqs /\ Rh850' = Rh850
      /\ \A d : Vm(d)' = Vm(d)
      /\ \A m : CpusOf(m)' = CpusOf(m)
      /\ \A m, j : vm_has_interrupt(m, j)' = vm_has_interrupt(m, j)
      /\ \A j : Owner(j)' = Owner(j)
  BY <1>2 DEF CPUS, Irqs, Rh850, Vm, CpusOf, Owner, VMS, vm_has_interrupt
<1> DEFINE U == {Set(i, f, node[i][f]) : f \in {"en", "prio"} \cup IF Rh850 THEN {} ELSE {"cpu"}}
                   \cup {Set(i, "pend", 1)}
<1>4. /\ busy' = [d \in CPUS |-> busy'[d]] /\ \A d \in CPUS : d # c => busy'[d] = busy[d]
      /\ busy'[c].kind = "inject" /\ busy'[c].upd = U
  BY <1>1 DEF DeInv
<1>5. \A d \in CPUS : d # c /\ busy[d] # NoStore => StoreConfined(d)' /\ StoreKept(d)'
  BY <1>2, <1>3, <1>4, StoresStay
<1>6. \A u \in U : /\ u.intp = i
                    /\ \/ u.field = "en" /\ u.val = node[i].en
                       \/ u.field = "prio"
                       \/ u.field = "cpu" /\ ~Rh850
                       \/ u.field = "pend" /\ u.val = 1
  BY DEF Set
<1>7. i \in Irqs /\ vm_has_interrupt(Vm(c), i)
  BY Owners DEF DeInv, NodeTypes, Irqs, WellFormed, vm_has_interrupt, VMS
<1>8. Set(i, "pend", 1) \in U
  OBVIOUS
<1> HIDE DEF U
<1>9. StoreConfined(c)' /\ StoreKept(c)'
  BY <1>2, <1>3, <1>4, <1>6, <1>7, <1>8 DEF StoreConfined, StoreKept
<1>10. DirectConfined'
  BY <1>2, <1>3 DEF DeInv, DirectConfined
<1> QED
  BY <1>2, <1>3, <1>4, <1>5, <1>9, <1>10 DEF DeInv, NodeTypes, DirectNotLost

(* The second half of both: what was read and merged is stored.             *)
LEMMA StoreStep == ASSUME DeInv, NEW c \in CPUS, StoreRegister(c) PROVE DeInv'
<1> DEFINE upd == busy[c].upd
           m == Vm(c)
<1>1. /\ node' = [i \in Irqs |-> [f \in DOMAIN node[i] |-> Field(upd, i, f, node[i][f])]]
      /\ want' = [i \in Irqs |-> IF busy[c].kind = "guest" /\ vm_has_interrupt(m, i)
                                 THEN Field(upd, i, "en", want[i]) ELSE want[i]]
      /\ due' = IF busy[c].kind = "inject" THEN due \cup {i \in Irqs : \E u \in upd : u.intp = i}
                ELSE due \ {i \in busy[c].cleared : Set(i, "pend", 0) \in upd}
      /\ busy' = [busy EXCEPT ![c] = NoStore]
      /\ UNCHANGED <<board, ipir>>
  BY DEF StoreRegister
<1>2. /\ StoreConfined(c) /\ StoreKept(c) /\ busy[c].kind \in {"guest", "inject"}
  BY DEF DeInv, StoreRegister
<1>3. /\ m \in VMS /\ Irqs = board.all /\ HYP \notin VMS
      /\ \A i \in Irqs : vm_has_interrupt(m, i) <=> Owner(i) = m
      /\ \A i \in Irqs : node[i].vm = Owner(i)
      /\ \A i \in Irqs : node[i] = [f \in Fields |-> node[i][f]]
  BY Owners DEF DeInv, NodeTypes, Irqs, DirectConfined
<1>4. /\ CPUS' = CPUS /\ Irqs' = Irqs /\ Rh850' = Rh850
      /\ \A d : Vm(d)' = Vm(d)
      /\ \A n : CpusOf(n)' = CpusOf(n)
      /\ \A n, i : vm_has_interrupt(n, i)' = vm_has_interrupt(n, i)
      /\ \A i : Owner(i)' = Owner(i)
  BY <1>1 DEF CPUS, Irqs, Rh850, Vm, CpusOf, Owner, VMS, vm_has_interrupt
<1>5. ASSUME NEW i \in Irqs
      PROVE  /\ node'[i] = [f \in Fields |-> Field(upd, i, f, node[i][f])]
             /\ node'[i].vm = Field(upd, i, "vm", node[i].vm)
             /\ node'[i].cpu = Field(upd, i, "cpu", node[i].cpu)
             /\ node'[i].en = Field(upd, i, "en", node[i].en)
             /\ node'[i].pend = Field(upd, i, "pend", node[i].pend)
  BY <1>1, <1>3 DEF Fields
<1> HIDE DEF upd, m
<1>12. ASSUME NEW i \in Irqs
       PROVE  /\ \/ node'[i].vm = node[i].vm
                 \/ \E u \in upd : u.intp = i /\ u.field = "vm" /\ node'[i].vm = u.val
              /\ \/ node'[i].cpu = node[i].cpu
                 \/ \E u \in upd : u.intp = i /\ u.field = "cpu" /\ node'[i].cpu = u.val
              /\ \/ node'[i].en = node[i].en
                 \/ \E u \in upd : u.intp = i /\ u.field = "en" /\ node'[i].en = u.val
              /\ \/ /\ node'[i].pend = node[i].pend
                    /\ ~\E u \in upd : u.intp = i /\ u.field = "pend"
                 \/ \E u \in upd : u.intp = i /\ u.field = "pend" /\ node'[i].pend = u.val
  <2>1. \/ node'[i].vm = node[i].vm
        \/ \E u \in upd : u.intp = i /\ u.field = "vm" /\ node'[i].vm = u.val
    BY <1>5 DEF Field
  <2>2. \/ node'[i].cpu = node[i].cpu
        \/ \E u \in upd : u.intp = i /\ u.field = "cpu" /\ node'[i].cpu = u.val
    BY <1>5 DEF Field
  <2>3. \/ node'[i].en = node[i].en
        \/ \E u \in upd : u.intp = i /\ u.field = "en" /\ node'[i].en = u.val
    BY <1>5 DEF Field
  <2>4. \/ /\ node'[i].pend = node[i].pend
           /\ ~\E u \in upd : u.intp = i /\ u.field = "pend"
        \/ \E u \in upd : u.intp = i /\ u.field = "pend" /\ node'[i].pend = u.val
    BY <1>5 DEF Field
  <2> QED
    BY <2>1, <2>2, <2>3, <2>4
<1>6. ASSUME NEW i \in Irqs, ~vm_has_interrupt(m, i) PROVE node'[i] = node[i]
  <2>1. \A f \in Fields : Field(upd, i, f, node[i][f]) = node[i][f]
    BY <1>2, <1>6 DEF StoreConfined, Field, Fields, upd, m
  <2>2. /\ node'[i] = [f \in Fields |-> node'[i][f]]
        /\ node[i] = [f \in Fields |-> node[i][f]]
    BY <1>3, <1>5
  <2>3. \A f \in Fields : node'[i][f] = node[i][f]
    BY <1>5, <2>1
  <2> QED
    BY <2>2, <2>3
<1>7. NodeTypes'
  <2>1. \A i \in Irqs : node'[i] = [f \in Fields |-> node'[i][f]]
    BY <1>5
  <2> QED
    BY <1>1, <1>3, <2>1 DEF NodeTypes
<1>8. DirectConfined'
  <2>1. ASSUME NEW i \in Irqs
        PROVE  /\ node'[i].vm = Owner(i)
               /\ Owner(i) = HYP => node'[i] = hyp_assign
               /\ Rh850 /\ Owner(i) # HYP => node'[i].cpu \in CpusOf(Owner(i))
    <3>1. CASE ~vm_has_interrupt(m, i)
      BY <1>6, <3>1 DEF DeInv, DirectConfined
    <3>2. CASE vm_has_interrupt(m, i)
      <4>1. Owner(i) = m /\ Owner(i) # HYP /\ node[i].vm = m
        BY <1>3, <3>2
      <4>2. node'[i].vm = m
        BY <1>2, <1>12, <4>1 DEF StoreConfined, upd, m
      <4>3. Rh850 => node[i].cpu \in CpusOf(m)
        BY <4>1 DEF DeInv, DirectConfined
      <4>4. Rh850 => node'[i].cpu \in CpusOf(m)
        BY <1>2, <1>12, <4>3 DEF StoreConfined, upd, m
      <4> QED
        BY <4>1, <4>2, <4>4
    <3> QED
      BY <3>1, <3>2
  <2> QED
    BY <1>1, <1>4, <2>1 DEF DeInv, DirectConfined
<1>9. DirectNotLost' /\ due' \subseteq Irqs
  <2>1. due' \subseteq Irqs
    BY <1>1, <1>3 DEF DeInv
  <2>2. ASSUME NEW i \in due' PROVE node'[i].pend = 1
    <3>1. i \in Irqs
      BY <2>1
    <3>2. CASE busy[c].kind = "inject"
      <4>1. (i \in due /\ node[i].pend = 1) \/ Set(i, "pend", 1) \in upd
        BY <1>1, <1>2, <2>2, <3>2 DEF DeInv, DirectNotLost, StoreKept, upd
      <4>2. \A u \in upd : u.field = "pend" => u.val = 1
        BY <1>2, <3>2 DEF StoreKept, upd
      <4>3. (Set(i, "pend", 1)).intp = i /\ (Set(i, "pend", 1)).field = "pend"
        BY DEF Set
      <4> QED
        BY <1>12, <3>1, <4>1, <4>2, <4>3
    <3>3. CASE busy[c].kind = "guest"
      <4>1. i \in due /\ node[i].pend = 1 /\ ~(i \in busy[c].cleared /\ Set(i, "pend", 0) \in upd)
        BY <1>1, <2>2, <3>3 DEF DeInv, DirectNotLost
      <4>2. \A u \in upd : u.intp = i /\ u.field = "pend" => u.val = 1
        BY <1>2, <3>3, <4>1 DEF StoreKept, upd
      <4> QED
        BY <1>12, <3>1, <4>1, <4>2
    <3> QED
      BY <1>2, <3>2, <3>3
  <2> QED
    BY <2>1, <2>2 DEF DirectNotLost
<1>10. \A i \in Irqs : node'[i].en = want'[i]
  <2> SUFFICES ASSUME NEW i \in Irqs PROVE node'[i].en = want'[i]
    OBVIOUS
  <2>1. node[i].en = want[i]
    BY DEF DeInv
  <2>2. CASE ~vm_has_interrupt(m, i)
    BY <1>1, <1>6, <2>1, <2>2 DEF m
  <2>3. CASE vm_has_interrupt(m, i) /\ busy[c].kind = "guest"
    BY <1>1, <1>5, <2>1, <2>3 DEF m, upd
  <2>4. CASE busy[c].kind = "inject"
    <3>1. node'[i].en = node[i].en
      BY <1>2, <1>12, <2>4 DEF StoreKept, upd
    <3> QED
      BY <1>1, <2>1, <2>4, <3>1
  <2> QED
    BY <1>2, <2>2, <2>3, <2>4
<1>11. ASSUME NEW d \in CPUS, busy'[d] # NoStore PROVE StoreConfined(d)' /\ StoreKept(d)'
  <2>1. d # c /\ busy'[d] = busy[d] /\ busy[d] # NoStore
    BY <1>1, <1>11 DEF DeInv
  <2>2. StoreConfined(d) /\ StoreKept(d)
    BY <2>1 DEF DeInv
  <2>3. ASSUME NEW u \in busy[d].upd, ~vm_has_interrupt(Vm(d), u.intp)
        PROVE  Owner(u.intp) = HYP /\ u.field = "en" /\ u.val = node'[u.intp].en
    <3>1. u.intp \in Irqs /\ Owner(u.intp) = HYP /\ u.field = "en" /\ u.val = node[u.intp].en
      BY <2>2, <2>3 DEF StoreConfined
    <3>2. ~vm_has_interrupt(m, u.intp)
      BY <1>3, <3>1
    <3> QED
      BY <1>6, <3>1, <3>2
  <2>4. ASSUME busy[d].kind = "inject", NEW u \in busy[d].upd, u.field = "en"
        PROVE  u.val = node'[u.intp].en
    <3>1. u.intp \in Irqs /\ u.intp \in board.virq[Vm(d)] /\ u.val = node[u.intp].en
      BY <2>2, <2>4 DEF StoreConfined, StoreKept
    <3>2. Vm(d) # m
      BY <2>1, <3>1, Owners DEF DeInv, WellFormed, Vm, CPUS, VMS, m
    <3>3. vm_has_interrupt(Vm(d), u.intp)
      BY <3>1, Owners DEF DeInv, WellFormed, vm_has_interrupt, VMS
    <3>4. ~vm_has_interrupt(m, u.intp)
      BY <1>3, <3>1, <3>2, <3>3, Owners DEF DeInv
    <3> QED
      BY <1>6, <3>1, <3>4
  <2>5. StoreConfined(d)'
    BY <1>1, <1>4, <2>1, <2>2, <2>3 DEF StoreConfined
  <2> QED
    BY <1>1, <1>4, <2>1, <2>2, <2>4, <2>5 DEF StoreKept
<1> QED
  BY <1>1, <1>3, <1>4, <1>7, <1>8, <1>9, <1>10, <1>11 DEF DeInv

(* Every step keeps the invariant.                                          *)
LEMMA DirectStep == DeInv /\ [DeNext]_devars => DeInv'
<1>1. ASSUME DeInv, UNCHANGED devars PROVE DeInv'
  <2>1. /\ UNCHANGED <<board, node, ipir, busy, want, due>>
        /\ CPUS' = CPUS /\ Irqs' = Irqs /\ Rh850' = Rh850
        /\ \A d : Vm(d)' = Vm(d)
        /\ \A m : CpusOf(m)' = CpusOf(m)
        /\ \A i : Owner(i)' = Owner(i)
    BY <1>1 DEF devars, CPUS, Irqs, Rh850, Vm, CpusOf, Owner, VMS
  <2>2. \A d \in CPUS : busy[d] # NoStore => StoreConfined(d)' /\ StoreKept(d)'
    BY <1>1, <2>1, StoresStay
  <2> QED
    BY <1>1, <2>1, <2>2 DEF DeInv, NodeTypes, DirectConfined, DirectNotLost
<1> QED
  BY <1>1, IpirStep, RaiseStep, TakeStep, AccessStep, InjectStep, StoreStep DEF DeNext

(* So every reachable state satisfies it.                                   *)
LEMMA DirectInvariant == DeSpec => []DeInv
<1>1. (\E b : WellFormed(b) /\ DeInit(b)) => DeInv
  BY InitDirect
<1> QED
  BY <1>1, DirectStep, PTL DEF DeSpec

(* Whatever guests store, every interrupt stays with the VM it was assigned *)
(* to or as the hypervisor set it up, goes to a CPU of that VM on RH850, and *)
(* IPIs stay among the CPUs of a VM (emulate_intc_eibd_access,              *)
(* vir_emul_src_access, vipir_emul_handler).                                *)
THEOREM DirectStaysConfined == DeSpec => []DirectConfined
<1>1. DeInv => DirectConfined
  BY DEF DeInv
<1> QED
  BY <1>1, DirectInvariant, PTL

(* When no store is on the way, an interrupt is enabled or masked as its    *)
(* guest stored it last: no merged register of another guest, read before   *)
(* and stored after (emulate_intc_imr_access, vintc_inject), undid it.      *)
THEOREM EnablesAreKept == DeSpec => []EnableKept
<1>1. DeInv => EnableKept
  BY DEF DeInv, EnableKept
<1> QED
  BY <1>1, DirectInvariant, PTL

(* An interrupt raised or injected stays pending until its guest takes it   *)
(* or clears it, although handlers store what they read before it came      *)
(* (emulate_intc_eic_access, vir_emul_src_access).                          *)
THEOREM NoneIsLost == DeSpec => []DirectNotLost
<1>1. DeInv => DirectNotLost
  BY DEF DeInv
<1> QED
  BY <1>1, DirectInvariant, PTL

----------------------------------------------------------------------------
(* The vCPUs are numbered, and each has a CPU of its own.                   *)
OneCpuEach(cpu) ==
    /\ DOMAIN cpu \subseteq Nat /\ 0 \in DOMAIN cpu
    /\ cpu \in [DOMAIN cpu -> Nat]
    /\ \A v, w \in DOMAIN cpu : cpu[v] = cpu[w] => v = w

(* Some pending interrupt is enabled for v and above its threshold.         *)
PlicShows(q, v) == \E i \in (q.pend \ q.act) \cap q.enbl[v] : q.prio[i] > q.threshold[v]

(* Of the interrupts of a set, one has the highest priority, and among those*)
(* of that priority the lowest number.                                      *)
First(S, f, i) == i \in S /\ \A j \in S : f[i] > f[j] \/ (f[i] = f[j] /\ i <= j)

(* A set of numbers has a least one.                                        *)
LEMMA LeastNumber ==
    ASSUME NEW T, T \subseteq Nat, T # {}
    PROVE  \E n \in T : \A m \in T : n <= m
<1>1. PICK n \in T : \A m \in T : ~(<<m, n>> \in OpToRel(<, Nat))
  BY NatLessThanWellFounded, WFMin
<1>2. ASSUME NEW m \in T PROVE n <= m
  <2>1. n \in Nat /\ m \in Nat
    OBVIOUS
  <2>2. ~(<<m, n>> \in {ss \in Nat \X Nat : ss[1] < ss[2]})
    BY <1>1 DEF OpToRel
  <2>3. ~(m < n)
    BY <2>1, <2>2
  <2> QED
    BY <2>1, <2>3
<1> QED
  BY <1>2

(* Among finitely many interrupts one is first, of whatever priorities they *)
(* are.                                                                     *)
LEMMA FirstExists ==
    ASSUME NEW N \in Nat, NEW S, S \subseteq 1 .. N, S # {}, NEW f, \A i \in S : f[i] \in Int
    PROVE  \E i \in S : First(S, f, i)
<1> DEFINE Upto(n) == {i \in S : i <= n}
           Bad == {n \in 0 .. N : Upto(n) # {} /\ ~\E i \in Upto(n) : First(Upto(n), f, i)}
<1>0. \A i \in S : i \in Nat /\ 1 <= i /\ i <= N
  OBVIOUS
<1>1. SUFFICES ASSUME Bad # {} PROVE FALSE
  <2>1. Upto(N) = S
    BY <1>0
  <2>2. N \in 0 .. N
    OBVIOUS
  <2> HIDE DEF Upto
  <2> QED
    BY <2>1, <2>2
<1>2. PICK n \in Bad : \A m \in Bad : n <= m
  <2>1. Bad \subseteq Nat
    OBVIOUS
  <2> HIDE DEF Bad
  <2> QED
    BY <1>1, <2>1, LeastNumber
<1>3. n \in 1 .. N /\ n - 1 \in 0 .. N /\ n - 1 \notin Bad
  <2>1. n \in 0 .. N /\ Upto(n) # {}
    BY <1>2
  <2> PICK i \in S : i <= n
    BY <2>1
  <2>2. n # 0
    BY <1>0, <2>1
  <2>3. n - 1 \in 0 .. N /\ ~(n <= n - 1)
    BY <2>1, <2>2
  <2> HIDE DEF Bad
  <2> QED
    BY <1>2, <2>1, <2>2, <2>3
<1>7. \A i \in S : i <= n <=> i = n \/ i <= n - 1
  BY <1>0, <1>3
<1>8. \A i \in S : i <= n - 1 => i < n
  BY <1>0, <1>3
<1>4. CASE n \notin S
  <2>1. Upto(n) = Upto(n - 1)
    BY <1>7, <1>4
  <2> QED
    BY <1>2, <1>3, <2>1
<1>5. CASE n \in S /\ Upto(n - 1) = {}
  <2>1. Upto(n) = {n}
    BY <1>7, <1>3, <1>5
  <2>2. First({n}, f, n)
    BY DEF First
  <2> QED
    BY <1>2, <2>1, <2>2
<1>6. CASE n \in S /\ Upto(n - 1) # {}
  <2>1. PICK m \in Upto(n - 1) : First(Upto(n - 1), f, m)
    BY <1>3, <1>6
  <2>2. Upto(n) = Upto(n - 1) \cup {n} /\ \A i \in Upto(n - 1) : i < n
    BY <1>7, <1>8, <1>3, <1>6
  <2> HIDE DEF Upto
  <2>3. \A i \in Upto(n) : f[i] \in Int /\ i \in Nat
    BY DEF Upto
  <2>4. First(Upto(n), f, IF f[n] > f[m] THEN n ELSE m)
    BY <2>1, <2>2, <2>3 DEF First
  <2> QED
    BY <1>2, <2>1, <2>2, <2>4
<1> QED
  BY <1>4, <1>5, <1>6

(* vplic_next_pending finds an interrupt exactly if there is one to show,   *)
(* and it is one that v may take.                                           *)
LEMMA NextPending ==
    ASSUME NEW cpu, NEW q \in Plics(cpu), NEW v \in DOMAIN cpu
    PROVE  /\ vplic_next_pending(q, v) \in PlicIntp \cup {0}
           /\ vplic_next_pending(q, v) # 0 <=> PlicShows(q, v)
           /\ vplic_next_pending(q, v) # 0 => 
                  vplic_next_pending(q, v) \in (q.pend \ q.act) \cap q.enbl[v]
<1> DEFINE S == {i \in q.pend \ q.act : i \in q.enbl[v] /\ q.prio[i] > 0}
           top == CHOOSE i \in S : \A j \in S : \/ q.prio[i] > q.prio[j]
                                                \/ q.prio[i] = q.prio[j] /\ i <= j
<1>1. /\ q.pend \subseteq PlicIntp /\ q.enbl[v] \subseteq PlicIntp
      /\ q.prio \in [PlicIntp -> Nat] /\ q.threshold[v] \in Nat
  BY DEF Plics
<1>2. \A i \in PlicIntp : i \in Nat /\ i # 0
  BY VPlicAssumption DEF PlicIntp
<1>3. ASSUME S # {} PROVE First(S, q.prio, top)
  <2>1. PLIC_MAX_INTERRUPTS - 1 \in Nat
    BY <1>1, <1>3, VPlicAssumption DEF PlicIntp
  <2>2. S \subseteq 1 .. PLIC_MAX_INTERRUPTS - 1 /\ \A i \in S : q.prio[i] \in Int
    <3>1. \A i \in S : i \in PlicIntp /\ q.prio[i] \in Nat
      BY <1>1
    <3> HIDE DEF S
    <3> QED
      BY <3>1 DEF PlicIntp
  <2> HIDE DEF S
  <2>3. \E i \in S : First(S, q.prio, i)
    BY <1>3, <2>1, <2>2, FirstExists
  <2> QED
    BY <2>3 DEF First
<1>4. vplic_next_pending(q, v) =
          IF S = {} THEN 0 ELSE IF q.prio[top] > q.threshold[v] THEN top ELSE 0
  BY DEF vplic_next_pending
<1>5. PlicShows(q, v) <=> \E i \in S : q.prio[i] > q.threshold[v]
  BY <1>1 DEF PlicShows
<1>6. S \subseteq (q.pend \ q.act) \cap q.enbl[v] /\ S \subseteq PlicIntp /\ \A i \in S : q.prio[i] \in Nat
  BY <1>1
<1> HIDE DEF S, top
<1> QED
  BY <1>1, <1>2, <1>3, <1>4, <1>5, <1>6 DEF First

(* What an update of lines leaves alone.                                    *)
PlicSame(q, r) ==
    /\ r.cpu = q.cpu /\ r.hw = q.hw /\ r.phys = q.phys /\ r.pend = q.pend /\ r.act = q.act
    /\ r.enbl = q.enbl /\ r.prio = q.prio /\ r.threshold = q.threshold

(* CPU c updated the lines of the vCPUs V: its own it set to what there is  *)
(* to show, the others it sent a message.                                   *)
LineTold(q, r, c, V) ==
    \A u \in DOMAIN q.cpu :
        /\ u \in V /\ u # c => r.inbox[u] > 0
        /\ ~(u \in V /\ u # c) => r.inbox[u] = q.inbox[u]
        /\ ~(u \in V /\ u = c) => (u \in r.line <=> u \in q.line)
        /\ u \in V /\ u = c => (u \in r.line <=> PlicShows(q, u))

(* vplic_update_hart_line and the loops around it change nothing else.      *)
LEMMA ContextsUpdated ==
    ASSUME NEW cpu, OneCpuEach(cpu), NEW q \in Plics(cpu), NEW c \in DOMAIN cpu,
           NEW V \in SUBSET DOMAIN cpu
    PROVE  LET r == UpdateContexts(q, c, V)
           IN  r \in Plics(cpu) /\ PlicSame(q, r) /\ LineTold(q, r, c, V)
<1> DEFINE own == {v \in V : q.cpu[v] = q.cpu[c]}
           line == (q.line \ own) \cup {v \in own : vplic_next_pending(q, v) # 0}
           inbox == [v \in DOMAIN q.cpu |-> IF v \in V \ own THEN q.inbox[v] + 1 ELSE q.inbox[v]]
           r == UpdateContexts(q, c, V)
<1>1. q.cpu = cpu /\ q.inbox \in [DOMAIN cpu -> Nat] /\ q.line \subseteq DOMAIN cpu
  BY DEF Plics
<1>2. \A v \in V : v \in own <=> v = c
  BY <1>1 DEF OneCpuEach
<1>3. line \subseteq DOMAIN cpu /\ inbox \in [DOMAIN cpu -> Nat]
  BY <1>1
<1>4. r = [q EXCEPT !.line = line, !.inbox = inbox]
  BY DEF UpdateContexts
<1>5. \A u \in DOMAIN cpu : /\ u \in line <=> IF u \in own THEN vplic_next_pending(q, u) # 0 ELSE u \in q.line
                            /\ inbox[u] = IF u \in V \ own THEN q.inbox[u] + 1 ELSE q.inbox[u]
  BY <1>1
<1> HIDE DEF line, inbox, own
<1>6. r \in Plics(cpu) /\ r.line = line /\ r.inbox = inbox /\ PlicSame(q, r)
  BY <1>3, <1>4 DEF Plics, PlicSame
<1>7. \A u \in DOMAIN cpu : vplic_next_pending(q, u) # 0 <=> PlicShows(q, u)
  BY NextPending
<1>8. LineTold(q, r, c, V)
  <2> HIDE DEF r
  <2> SUFFICES ASSUME NEW u \in DOMAIN cpu
               PROVE  /\ u \in V /\ u # c => r.inbox[u] > 0
                      /\ ~(u \in V /\ u # c) => r.inbox[u] = q.inbox[u]
                      /\ ~(u \in V /\ u = c) => (u \in r.line <=> u \in q.line)
                      /\ u \in V /\ u = c => (u \in r.line <=> PlicShows(q, u))
    BY <1>1 DEF LineTold
  <2>1. q.inbox[u] \in Nat
    BY <1>1
  <2>2. u \in own <=> u = c /\ u \in V
    BY <1>2 DEF own
  <2> QED
    BY <1>5, <1>6, <1>7, <2>1, <2>2
<1> QED
  BY <1>6, <1>8

(* Nothing more is shown to u, whose line and messages are the same.        *)
PlicKept(q, r, u) ==
    /\ r.inbox[u] = q.inbox[u] /\ (u \in r.line <=> u \in q.line)
    /\ PlicShows(r, u) => PlicShows(q, u)

(* What u may take in r it was told of by c, or could take in q already,    *)
(* with the same line and messages.                                         *)
PlicTold(q, r, c) ==
    \A u \in DOMAIN q.cpu :
        r.inbox[u] > 0 \/ (u = c /\ (PlicShows(r, u) => u \in r.line)) \/ PlicKept(q, r, u)

(* What is shown depends on the bits and the priorities only.               *)
LEMMA SameShows ==
    ASSUME NEW q, NEW r, PlicSame(q, r), NEW u
    PROVE  PlicShows(r, u) <=> PlicShows(q, u)
  BY DEF PlicSame, PlicShows

(* It is enough to update the lines of the vCPUs that may take more.        *)
LEMMA PlicTells ==
    ASSUME NEW cpu, OneCpuEach(cpu), NEW q \in Plics(cpu), NEW p \in Plics(cpu),
           NEW c \in DOMAIN cpu, NEW V \in SUBSET DOMAIN cpu,
           p.line = q.line, p.inbox = q.inbox,
           \A u \in DOMAIN cpu \ V : PlicShows(p, u) => PlicShows(q, u)
    PROVE  PlicTold(q, UpdateContexts(p, c, V), c)
<1> DEFINE r == UpdateContexts(p, c, V)
<1> SUFFICES PlicTold(q, r, c)
  OBVIOUS
<1>1. PlicSame(p, r) /\ LineTold(p, r, c, V) /\ p.cpu = cpu /\ q.cpu = cpu
  BY ContextsUpdated DEF Plics
<1> HIDE DEF r
<1>2. \A u \in DOMAIN cpu : PlicShows(r, u) <=> PlicShows(p, u)
  BY <1>1, SameShows
<1> QED
  BY <1>1, <1>2 DEF LineTold, PlicTold, PlicKept

(* A store of the guest that leaves q as r.                                 *)
PlicStored(q, r, c) ==
    /\ r \in Plics(q.cpu) /\ PlicMirrors(r) /\ OneEnables(r)
    /\ r.hw = q.hw /\ r.pend = q.pend /\ r.act = q.act
    /\ r.phys.pend = q.phys.pend
    /\ \A v \in DOMAIN q.cpu : \A i \in q.act : i \in r.enbl[v] <=> i \in q.enbl[v]

(* vplic_set_enbl tells the vCPU of the interrupt, except of one of a       *)
(* device, which is not pending then.                                       *)
LEMMA PlicEnbl ==
    ASSUME NEW cpu, OneCpuEach(cpu), NEW q \in Plics(cpu), PlicMirrors(q), OneEnables(q),
           NEW c \in DOMAIN cpu, NEW h \in DOMAIN cpu, NEW i \in PlicIntp, NEW set \in BOOLEAN,
           i \notin q.act, i \in q.hw => i \notin q.pend,
           set => \A v \in DOMAIN cpu \ {h} : i \notin q.enbl[v]
    PROVE  LET r == vplic_set_enbl(q, c, h, i, set) IN PlicStored(q, r, c) /\ PlicTold(q, r, c)
<1> DEFINE new == IF set THEN q.enbl[h] \cup {i} ELSE q.enbl[h] \ {i}
           p == [q EXCEPT !.enbl[h] = new]
           phys == plic_set_enbl(q.phys, cpu[h], i, set)
           r == vplic_set_enbl(q, c, h, i, set)
           Phys == {cpu[v] : v \in DOMAIN cpu}
           Physical == [enbl : [Phys -> SUBSET PlicIntp], prio : [PlicIntp -> Nat],
                        threshold : [Phys -> Nat], pend : SUBSET PlicIntp, serv : SUBSET PlicIntp]
<1> SUFFICES PlicStored(q, r, c) /\ PlicTold(q, r, c)
  OBVIOUS
<1>0. /\ q.cpu = cpu /\ q.enbl \in [DOMAIN cpu -> SUBSET PlicIntp] /\ q.hw \subseteq PlicIntp
      /\ q.phys \in Physical /\ \A v, w \in DOMAIN cpu : cpu[v] = cpu[w] => v = w
  BY DEF Plics, OneCpuEach
<1>1. CASE i \in q.enbl[h] <=> set
  <2>1. r = q
    BY <1>1 DEF vplic_set_enbl
  <2> QED
    BY <1>0, <2>1 DEF PlicStored, PlicTold, PlicKept
<1>2. CASE ~(i \in q.enbl[h] <=> set)
  <2>1. p \in Plics(cpu) /\ p.enbl = [q.enbl EXCEPT ![h] = new] /\ new \subseteq PlicIntp
    BY <1>0 DEF Plics
  <2>2. /\ p.line = q.line /\ p.inbox = q.inbox /\ p.hw = q.hw /\ p.pend = q.pend /\ p.act = q.act
        /\ p.prio = q.prio /\ p.threshold = q.threshold /\ p.phys = q.phys /\ p.cpu = cpu
    BY <1>0 DEF Plics
  <2>3. r = IF i \in q.hw THEN [p EXCEPT !.phys = plic_set_enbl(p.phys, q.cpu[h], i, set)]
            ELSE vplic_update_hart_line(p, c, h)
    BY <1>0, <1>2 DEF vplic_set_enbl
  <2>4. \A v \in DOMAIN cpu : \A j \in PlicIntp :
            j \in p.enbl[v] <=> IF v = h /\ j = i THEN set ELSE j \in q.enbl[v]
    BY <1>0, <2>1
  <2> HIDE DEF p, new
  <2>5. OneEnables(p)
    BY <1>0, <2>1, <2>2, <2>4 DEF OneEnables
  <2>6. \A v \in DOMAIN cpu : \A j \in q.act : j \in p.enbl[v] <=> j \in q.enbl[v]
    BY <1>0, <2>1, <2>4
  <2>7. CASE i \in q.hw
    <3>1. phys \in Physical /\ phys.prio = q.phys.prio /\ phys.threshold = q.phys.threshold
          /\ phys.pend = q.phys.pend
          /\ phys.enbl = [q.phys.enbl EXCEPT ![cpu[h]] = IF set THEN q.phys.enbl[cpu[h]] \cup {i}
                                                         ELSE q.phys.enbl[cpu[h]] \ {i}]
      <4> DEFINE e == [q.phys.enbl EXCEPT ![cpu[h]] = IF set THEN q.phys.enbl[cpu[h]] \cup {i}
                                                      ELSE q.phys.enbl[cpu[h]] \ {i}]
      <4>1. e \in [Phys -> SUBSET PlicIntp]
        BY <1>0
      <4>2. phys = [q.phys EXCEPT !.enbl = e]
        BY DEF plic_set_enbl
      <4> HIDE DEF e, phys
      <4>3. phys \in Physical /\ phys.enbl = e
        BY <1>0, <4>1, <4>2
      <4>4. /\ phys.prio = q.phys.prio /\ phys.threshold = q.phys.threshold
            /\ phys.pend = q.phys.pend
        BY <1>0, <4>2
      <4> QED
        BY <4>3, <4>4 DEF e
    <3>2. r = [p EXCEPT !.phys = phys]
      BY <1>0, <2>2, <2>3, <2>7
    <3> HIDE DEF phys
    <3>3. r \in Plics(cpu) /\ r.phys = phys /\ r.enbl = p.enbl /\ r.line = q.line
          /\ r.inbox = q.inbox /\ r.hw = q.hw /\ r.pend = q.pend /\ r.act = q.act
          /\ r.prio = q.prio /\ r.threshold = q.threshold /\ r.cpu = cpu
      <4>1. r \in Plics(cpu)
        BY <2>1, <2>2, <3>1, <3>2, ZenonT(40) DEF Plics
      <4>2. /\ r.phys = phys /\ r.enbl = p.enbl /\ r.line = p.line /\ r.inbox = p.inbox
            /\ r.hw = p.hw /\ r.pend = p.pend /\ r.act = p.act /\ r.prio = p.prio
            /\ r.threshold = p.threshold /\ r.cpu = cpu
        BY <2>2, <3>2 DEF Plics
      <4> HIDE DEF r
      <4> QED
        BY <2>1, <2>2, <4>1, <4>2
    <3> HIDE DEF r
    <3>4. ASSUME NEW v \in DOMAIN cpu PROVE phys.enbl[cpu[v]] = p.enbl[v] \cap q.hw
      <4>1. q.phys.enbl[cpu[v]] = q.enbl[v] \cap q.hw /\ q.phys.enbl[cpu[h]] = q.enbl[h] \cap q.hw
        BY <1>0 DEF PlicMirrors
      <4>2. cpu[v] \in Phys /\ cpu[h] \in Phys /\ q.phys.enbl \in [Phys -> SUBSET PlicIntp]
        BY <1>0
      <4>3. CASE v = h
        BY <2>1, <2>7, <3>1, <4>1, <4>2, <4>3, <1>0 DEF new
      <4>4. CASE v # h
        BY <2>1, <3>1, <4>1, <4>2, <4>4, <1>0
      <4> QED
        BY <4>3, <4>4
    <3>5. PlicMirrors(r)
      BY <1>0, <3>1, <3>3, <3>4 DEF PlicMirrors
    <3>6. \A u \in DOMAIN cpu : PlicShows(r, u) => PlicShows(q, u)
      BY <1>0, <2>1, <2>4, <2>7, <3>3 DEF PlicShows, Plics
    <3>7. OneEnables(r)
      BY <2>2, <2>5, <3>3 DEF OneEnables
    <3> QED
      BY <1>0, <2>6, <3>1, <3>3, <3>5, <3>6, <3>7 DEF PlicStored, PlicTold, PlicKept
  <2>8. CASE i \notin q.hw
    <3>1. r = UpdateContexts(p, c, {h})
      BY <2>3, <2>8 DEF vplic_update_hart_line
    <3>2. r \in Plics(cpu) /\ PlicSame(p, r)
      BY <2>1, <3>1, ContextsUpdated
    <3>3. \A u \in DOMAIN cpu \ {h} : PlicShows(p, u) => PlicShows(q, u)
      BY <1>0, <2>1, <2>2, <2>4 DEF PlicShows, Plics
    <3>4. PlicTold(q, r, c)
      BY <2>1, <2>2, <3>1, <3>3, PlicTells
    <3> HIDE DEF r
    <3>5. \A v \in DOMAIN cpu : p.enbl[v] \cap q.hw = q.enbl[v] \cap q.hw
      BY <1>0, <2>1, <2>4, <2>8
    <3>6. PlicMirrors(r)
      BY <1>0, <2>2, <3>2, <3>5 DEF PlicMirrors, PlicSame
    <3>7. OneEnables(r)
      BY <2>2, <2>5, <3>2 DEF OneEnables, PlicSame
    <3> QED
      BY <1>0, <2>2, <2>6, <3>2, <3>4, <3>6, <3>7 DEF PlicStored, PlicSame
  <2> QED
    BY <2>7, <2>8
<1> QED
  BY <1>1, <1>2

(* vplic_set_prio does so for all vCPUs that have the interrupt enabled.    *)
LEMMA PlicPrio ==
    ASSUME NEW cpu, OneCpuEach(cpu), NEW q \in Plics(cpu), PlicMirrors(q), OneEnables(q),
           NEW c \in DOMAIN cpu, NEW i \in PlicIntp, NEW prio \in Nat,
           i \in q.hw => i \notin q.pend
    PROVE  LET r == vplic_set_prio(q, c, i, prio) IN PlicStored(q, r, c) /\ PlicTold(q, r, c)
<1> DEFINE p == [q EXCEPT !.prio[i] = prio]
           phys == plic_set_prio(q.phys, i, prio)
           r == vplic_set_prio(q, c, i, prio)
           V == {v \in DOMAIN cpu : i \in q.enbl[v]}
           Phys == {cpu[v] : v \in DOMAIN cpu}
           Physical == [enbl : [Phys -> SUBSET PlicIntp], prio : [PlicIntp -> Nat],
                        threshold : [Phys -> Nat], pend : SUBSET PlicIntp, serv : SUBSET PlicIntp]
<1> SUFFICES PlicStored(q, r, c) /\ PlicTold(q, r, c)
  OBVIOUS
<1>0. /\ q.cpu = cpu /\ q.enbl \in [DOMAIN cpu -> SUBSET PlicIntp] /\ q.hw \subseteq PlicIntp
      /\ q.phys \in Physical /\ q.prio \in [PlicIntp -> Nat]
  BY DEF Plics
<1>1. CASE q.prio[i] = prio
  <2>1. r = q
    BY <1>1 DEF vplic_set_prio
  <2> QED
    BY <1>0, <2>1 DEF PlicStored, PlicTold, PlicKept
<1>2. CASE q.prio[i] # prio
  <2>1. p \in Plics(cpu) /\ p.prio = [q.prio EXCEPT ![i] = prio]
    BY <1>0 DEF Plics
  <2>2. /\ p.line = q.line /\ p.inbox = q.inbox /\ p.hw = q.hw /\ p.pend = q.pend /\ p.act = q.act
        /\ p.enbl = q.enbl /\ p.threshold = q.threshold /\ p.phys = q.phys /\ p.cpu = cpu
    BY <1>0 DEF Plics
  <2>3. r = IF i \in q.hw THEN [p EXCEPT !.phys = plic_set_prio(p.phys, i, prio)]
            ELSE UpdateContexts(p, c, V)
    BY <1>0, <1>2 DEF vplic_set_prio
  <2> HIDE DEF p
  <2>4. \A u \in DOMAIN cpu : i \notin q.pend \cap q.enbl[u] => (PlicShows(p, u) => PlicShows(q, u))
    BY <1>0, <2>1, <2>2 DEF PlicShows, Plics
  <2>5. OneEnables(p)
    BY <1>0, <2>2 DEF OneEnables
  <2>6. CASE i \in q.hw
    <3>1. phys \in Physical /\ phys.enbl = q.phys.enbl /\ phys.threshold = q.phys.threshold
          /\ phys.pend = q.phys.pend /\ phys.prio = [q.phys.prio EXCEPT ![i] = prio]
      BY <1>0 DEF plic_set_prio
    <3>2. r = [p EXCEPT !.phys = phys]
      BY <2>2, <2>3, <2>6
    <3> HIDE DEF phys
    <3>3. r \in Plics(cpu) /\ r.phys = phys /\ r.enbl = q.enbl /\ r.line = q.line
          /\ r.inbox = q.inbox /\ r.hw = q.hw /\ r.pend = q.pend /\ r.act = q.act
          /\ r.prio = p.prio /\ r.threshold = q.threshold /\ r.cpu = cpu
      <4>1. r \in Plics(cpu)
        BY <2>1, <2>2, <3>1, <3>2, ZenonT(40) DEF Plics
      <4>2. /\ r.phys = phys /\ r.enbl = p.enbl /\ r.line = p.line /\ r.inbox = p.inbox
            /\ r.hw = p.hw /\ r.pend = p.pend /\ r.act = p.act /\ r.prio = p.prio
            /\ r.threshold = p.threshold /\ r.cpu = cpu
        BY <2>2, <3>2 DEF Plics
      <4> HIDE DEF r
      <4> QED
        BY <2>1, <2>2, <4>1, <4>2
    <3> HIDE DEF r
    <3>4. PlicMirrors(r)
      BY <1>0, <2>1, <2>6, <3>1, <3>3 DEF PlicMirrors
    <3>5. \A u \in DOMAIN cpu : PlicShows(r, u) <=> PlicShows(p, u)
      BY <2>2, <3>3 DEF PlicShows
    <3> QED
      BY <1>0, <2>2, <2>4, <2>5, <2>6, <3>1, <3>3, <3>4, <3>5
      DEF PlicStored, PlicTold, PlicKept, OneEnables
  <2>7. CASE i \notin q.hw
    <3>1. r = UpdateContexts(p, c, V) /\ V \in SUBSET DOMAIN cpu
      BY <2>3, <2>7
    <3>2. \A u \in DOMAIN cpu \ V : i \notin q.pend \cap q.enbl[u]
      OBVIOUS
    <3> HIDE DEF V
    <3>3. r \in Plics(cpu) /\ PlicSame(p, r)
      BY <2>1, <3>1, ContextsUpdated
    <3>4. PlicTold(q, r, c)
      BY <2>1, <2>2, <2>4, <3>1, <3>2, PlicTells
    <3> HIDE DEF r
    <3>5. PlicMirrors(r)
      BY <1>0, <2>1, <2>2, <2>7, <3>3 DEF PlicMirrors, PlicSame
    <3> QED
      BY <1>0, <2>2, <2>5, <3>3, <3>4, <3>5 DEF PlicStored, PlicSame, OneEnables
  <2> QED
    BY <2>6, <2>7
<1> QED
  BY <1>1, <1>2

(* A threshold is stored, and its context updated after that.               *)
LEMMA PlicThreshold ==
    ASSUME NEW cpu, OneCpuEach(cpu), NEW q \in Plics(cpu), PlicMirrors(q), OneEnables(q),
           NEW c \in DOMAIN cpu, NEW h \in DOMAIN cpu, NEW t \in Nat
    PROVE  LET r == vplic_set_threshold(q, h, t)
           IN  PlicStored(q, r, c) /\ \A u \in DOMAIN cpu \ {h} : PlicKept(q, r, u)
<1> DEFINE r == vplic_set_threshold(q, h, t)
           phys == plic_set_threshold(q.phys, cpu[h], t)
           thr == [q.threshold EXCEPT ![h] = t]
           Phys == {cpu[v] : v \in DOMAIN cpu}
           Physical == [enbl : [Phys -> SUBSET PlicIntp], prio : [PlicIntp -> Nat],
                        threshold : [Phys -> Nat], pend : SUBSET PlicIntp, serv : SUBSET PlicIntp]
<1> SUFFICES PlicStored(q, r, c) /\ \A u \in DOMAIN cpu \ {h} : PlicKept(q, r, u)
  OBVIOUS
<1>0. /\ q.cpu = cpu /\ q.phys \in Physical /\ q.threshold \in [DOMAIN cpu -> Nat]
      /\ \A v, w \in DOMAIN cpu : cpu[v] = cpu[w] => v = w
  BY DEF Plics, OneCpuEach
<1>1. phys \in Physical /\ phys.enbl = q.phys.enbl /\ phys.prio = q.phys.prio
      /\ phys.pend = q.phys.pend /\ phys.threshold = [q.phys.threshold EXCEPT ![cpu[h]] = t]
  BY <1>0 DEF plic_set_threshold
<1>9. thr \in [DOMAIN cpu -> Nat]
  BY <1>0
<1>2. r = [q EXCEPT !.threshold = thr, !.phys = phys]
  BY <1>0 DEF vplic_set_threshold
<1> HIDE DEF phys, thr
<1>3. r \in Plics(cpu) /\ r.phys = phys /\ r.threshold = thr
  <2>1. phys.threshold \in [Phys -> Nat]
    BY <1>0, <1>1
  <2>2. phys \in Physical
    BY <1>1
  <2>3. r \in Plics(cpu)
    BY <1>2, <1>9, <2>2 DEF Plics
  <2>4. r.phys = phys /\ r.threshold = thr
    BY <1>2 DEF Plics
  <2> QED
    BY <2>3, <2>4
<1>4. /\ r.line = q.line /\ r.inbox = q.inbox /\ r.hw = q.hw /\ r.pend = q.pend /\ r.act = q.act
      /\ r.enbl = q.enbl /\ r.prio = q.prio /\ r.cpu = cpu
  BY <1>0, <1>2 DEF Plics
<1> HIDE DEF r
<1>5. \A v \in DOMAIN cpu : cpu[v] \in Phys
  OBVIOUS
<1>6. \A v \in DOMAIN cpu : phys.threshold[cpu[v]] = r.threshold[v]
  BY <1>0, <1>1, <1>3, <1>5 DEF PlicMirrors, thr
<1>7. PlicMirrors(r)
  BY <1>0, <1>1, <1>3, <1>4, <1>6 DEF PlicMirrors
<1>8. \A u \in DOMAIN cpu \ {h} : PlicKept(q, r, u)
  BY <1>0, <1>3, <1>4 DEF PlicKept, PlicShows, thr
<1> QED
  BY <1>0, <1>1, <1>3, <1>4, <1>7, <1>8 DEF PlicStored, OneEnables

(* An injection, of an interrupt of a device on a CPU where it is enabled.  *)
LEMMA PlicInjected ==
    ASSUME NEW cpu, OneCpuEach(cpu), NEW q \in Plics(cpu), PlicMirrors(q), OneEnables(q),
           NEW c \in DOMAIN cpu, NEW i \in PlicIntp, i \in q.hw => i \in q.enbl[c]
    PROVE  LET r == vplic_inject(q, c, i)
           IN  /\ r \in Plics(cpu) /\ PlicMirrors(r) /\ OneEnables(r)
               /\ r.hw = q.hw /\ r.phys = q.phys /\ r.act = q.act /\ r.enbl = q.enbl
               /\ r.pend = q.pend \cup {i} /\ PlicTold(q, r, c)
<1> DEFINE p == [q EXCEPT !.pend = @ \cup {i}]
           r == vplic_inject(q, c, i)
           V == IF i \in q.hw THEN {c}
                ELSE {v \in DOMAIN cpu : i \in q.enbl[v] /\ q.prio[i] > q.threshold[v]}
<1> SUFFICES /\ r \in Plics(cpu) /\ PlicMirrors(r) /\ OneEnables(r)
             /\ r.hw = q.hw /\ r.phys = q.phys /\ r.act = q.act /\ r.enbl = q.enbl
             /\ r.pend = q.pend \cup {i} /\ PlicTold(q, r, c)
  OBVIOUS
<1>0. q.cpu = cpu /\ q.pend \subseteq PlicIntp
  BY DEF Plics
<1>1. CASE i \in q.pend
  <2>1. r = q
    BY <1>1 DEF vplic_inject
  <2> QED
    BY <1>0, <1>1, <2>1 DEF PlicTold, PlicKept
<1>2. CASE i \notin q.pend
  <2>1. p \in Plics(cpu) /\ p.pend = q.pend \cup {i}
    BY <1>0 DEF Plics
  <2>2. /\ p.line = q.line /\ p.inbox = q.inbox /\ p.hw = q.hw /\ p.act = q.act /\ p.prio = q.prio
        /\ p.enbl = q.enbl /\ p.threshold = q.threshold /\ p.phys = q.phys /\ p.cpu = cpu
    BY <1>0 DEF Plics
  <2>3. r = UpdateContexts(p, c, V) /\ V \in SUBSET DOMAIN cpu
    BY <1>0, <1>2 DEF vplic_inject, vplic_update_hart_line
  <2> HIDE DEF p
  <2>4. \A u \in DOMAIN cpu \ V : PlicShows(p, u) => PlicShows(q, u)
    BY <1>0, <2>1, <2>2 DEF PlicShows, OneEnables
  <2> HIDE DEF V
  <2>5. r \in Plics(cpu) /\ PlicSame(p, r)
    BY <2>1, <2>3, ContextsUpdated
  <2>6. PlicTold(q, r, c)
    BY <2>1, <2>2, <2>3, <2>4, PlicTells
  <2> HIDE DEF r
  <2>7. PlicMirrors(r) /\ OneEnables(r)
    BY <1>0, <2>2, <2>5 DEF PlicMirrors, OneEnables, PlicSame
  <2> QED
    BY <2>1, <2>2, <2>5, <2>6, <2>7 DEF PlicSame
<1> QED
  BY <1>1, <1>2

----------------------------------------------------------------------------
(* The PLIC of a VM at work.                                                *)

(* What a CPU can still have to do.                                         *)
PlicSteps(v) ==
    \/ todo[v] = <<>>
    \/ \E h \in VCPU : todo[v] = <<Line(h)>>
    \/ \E t \in PlicIntp \cup {0} : todo[v] = <<Store(t)>>
    \/ \E i \in PlicIntp : todo[v] = <<Complete(i), Line(v)>>

(* An update of u's line is on its way.                                     *)
Coming(u) ==
    \/ irqc.inbox[u] > 0
    \/ \E v \in VCPU : todo[v] = <<Line(u)>>
    \/ \E i \in PlicIntp : todo[u] = <<Complete(i), Line(u)>>

(* If not, what u may take is on its line, and stays so with the store that *)
(* its CPU has still to make.                                               *)
Signalled(u) ==
    \/ Coming(u)
    \/ PlicShows(irqc, u) => \/ \E t \in PlicIntp : todo[u] = <<Store(t)>>
                             \/ u \in irqc.line /\ todo[u] # <<Store(0)>>

(* An interrupt that v claimed is active and enabled for v until it is      *)
(* completed, which is once.                                                *)
InService(v) ==
    /\ held[v] \subseteq irqc.act \cap irqc.enbl[v]
    /\ \A i \in PlicIntp : todo[v] = <<Complete(i), Line(v)>> =>
           i \in irqc.act \cap irqc.enbl[v] /\ i \notin held[v]

(* The inductive invariant of a PLIC. A claim of nothing makes the number 0 *)
(* active, which harms no interrupt.                                        *)
PlicInv ==
    /\ OneCpuEach(irqc.cpu) /\ Stores["plic"] \subseteq PlicStores(VCPU)
    /\ irqc \in Plics(irqc.cpu) /\ PlicMirrors(irqc) /\ OneEnables(irqc)
    /\ irqc.phys.pend \subseteq irqc.hw
    /\ todo = [v \in VCPU |-> todo[v]] /\ held = [v \in VCPU |-> held[v]]
    /\ \A v \in VCPU : PlicSteps(v)
    /\ \A v \in VCPU : InService(v)
    /\ \A v \in VCPU : Signalled(v)
    /\ owed \subseteq irqc.phys.pend \cup irqc.pend

(* The entries of a handler's rest are told apart.                          *)
LEMMA Entries ==
    /\ \A x, y : <<Line(x)>> = <<Line(y)>> => x = y
    /\ \A x, y : <<Store(x)>> = <<Store(y)>> => x = y
    /\ \A x, y : <<Line(x)>> # <<Store(y)>>
    /\ \A x : <<Line(x)>> # <<>> /\ <<Store(x)>> # <<>>
    /\ \A x, y, z : /\ <<Complete(x), Line(y)>> # <<Line(z)>>
                    /\ <<Complete(x), Line(y)>> # <<Store(z)>>
                    /\ <<Complete(x), Line(y)>> # <<>>
    /\ \A x, y, z : <<Complete(x), Line(y)>> = <<Complete(z), Line(y)>> => x = z
<1>1. \A x, y : <<x>> = <<y>> => x = y
  OBVIOUS
<1>2. \A x, y, z : <<x, y>> # <<z>> /\ <<x, y>> # <<>> /\ <<x>> # <<>>
  OBVIOUS
<1>3. \A x, y, z : <<x, y>> = <<z, y>> => x = z
  OBVIOUS
<1>4. \A x, y : /\ Line(x) = Line(y) => x = y
                /\ Store(x) = Store(y) => x = y
                /\ Complete(x) = Complete(y) => x = y
                /\ Line(x) # Store(y)
  BY DEF Line, Store, Complete
<1> QED
  BY <1>1, <1>2, <1>3, <1>4

(* What the handler does next.                                              *)
LEMMA Heads ==
    /\ \A x : Head(<<Line(x)>>).do = "line" /\ Head(<<Line(x)>>).arg = x /\ Tail(<<Line(x)>>) = <<>>
    /\ \A x : Head(<<Store(x)>>).do = "store" /\ Head(<<Store(x)>>).arg = x /\ Tail(<<Store(x)>>) = <<>>
    /\ \A x, y : /\ Head(<<Complete(x), Line(y)>>).do = "complete"
                 /\ Head(<<Complete(x), Line(y)>>).arg = x
                 /\ Tail(<<Complete(x), Line(y)>>) = <<Line(y)>>
<1>1. \A x, y : Head(<<x>>) = x /\ Tail(<<x>>) = <<>> /\ Head(<<x, y>>) = x /\ Tail(<<x, y>>) = <<y>>
  OBVIOUS
<1>2. \A x : /\ Line(x).do = "line" /\ Line(x).arg = x
             /\ Store(x).do = "store" /\ Store(x).arg = x
             /\ Complete(x).do = "complete" /\ Complete(x).arg = x
  BY DEF Line, Store, Complete
<1> QED
  BY <1>1, <1>2

(* A handler that is done in one step.                                      *)
LEMMA HandlerSignals ==
    ASSUME PlicInv, NEW c \in VCPU, todo[c] = <<>>, todo' = todo, irqc'.cpu = irqc.cpu,
           PlicTold(irqc, irqc', c)
    PROVE  \A u \in VCPU : Signalled(u)'
<1> SUFFICES ASSUME NEW u \in VCPU PROVE Signalled(u)'
  OBVIOUS
<1>1. Signalled(u) /\ (VCPU = DOMAIN irqc.cpu)
  BY DEF PlicInv, VCPU
<1>2. CASE irqc'.inbox[u] > 0
  BY <1>2 DEF Signalled, Coming
<1>3. CASE u = c /\ (PlicShows(irqc', u) => u \in irqc'.line)
  <2>1. todo[u] # <<Store(0)>>
    BY <1>3, Entries
  <2> QED
    BY <1>3, <2>1 DEF Signalled
<1>4. CASE PlicKept(irqc, irqc', u)
  <2>1. CASE Coming(u)
    BY <1>4, <2>1 DEF Signalled, Coming, PlicKept, VCPU
  <2>2. CASE ~Coming(u)
    BY <1>1, <1>4, <2>2 DEF Signalled, PlicKept
  <2> QED
    BY <2>1, <2>2
<1> QED
  BY <1>1, <1>2, <1>3, <1>4 DEF PlicTold

(* One after which the line of h is still to be updated.                    *)
LEMMA HandlerGoesOn ==
    ASSUME PlicInv, NEW c \in VCPU, NEW h \in VCPU, irqc'.cpu = irqc.cpu,
           \/ todo[c] = <<>>
           \/ h = c /\ \E i \in PlicIntp : todo[c] = <<Complete(i), Line(c)>>,
           \/ todo' = [todo EXCEPT ![c] = <<Line(h)>>]
           \/ h = c /\ \E i \in PlicIntp : todo' = [todo EXCEPT ![c] = <<Complete(i), Line(c)>>],
           \A u \in VCPU \ {h} : PlicKept(irqc, irqc', u)
    PROVE  \A u \in VCPU : Signalled(u)'
<1> SUFFICES ASSUME NEW u \in VCPU PROVE Signalled(u)'
  OBVIOUS
<1>1. Signalled(u) /\ VCPU' = VCPU /\ DOMAIN todo = VCPU
  BY DEF PlicInv, VCPU
<1>2. \A v \in VCPU \ {c} : todo'[v] = todo[v]
  BY <1>1
<1>3. todo'[c] = <<Line(h)>> \/ (h = c /\ \E i \in PlicIntp : todo'[c] = <<Complete(i), Line(c)>>)
  BY <1>1
<1>4. CASE u = h
  BY <1>1, <1>3, <1>4 DEF Signalled, Coming
<1>5. CASE u # h
  <2>1. PlicKept(irqc, irqc', u)
    BY <1>5
  <2>6. todo[c] # <<Line(u)>> /\ ~(\E i \in PlicIntp : u = c /\ todo[u] = <<Complete(i), Line(u)>>)
    <3>1. CASE todo[c] = <<>>
      BY <3>1, Entries
    <3>2. CASE h = c /\ \E i \in PlicIntp : todo[c] = <<Complete(i), Line(c)>>
      <4>1. u # c
        BY <1>5, <3>2
      <4>2. PICK i \in PlicIntp : todo[c] = <<Complete(i), Line(c)>>
        BY <3>2
      <4>3. <<Complete(i), Line(c)>> # <<Line(u)>>
        BY Entries
      <4> QED
        BY <4>1, <4>2, <4>3
    <3> QED
      BY <3>1, <3>2
  <2>2. \/ irqc'.inbox[u] > 0
        \/ \E v \in VCPU \ {c} : todo[v] = <<Line(u)>>
        \/ u # c /\ \E i \in PlicIntp : todo[u] = <<Complete(i), Line(u)>>
        \/ ~Coming(u)
    BY <2>1, <2>6 DEF Coming, PlicKept
  <2>3. CASE Coming(u)
    BY <1>1, <1>2, <2>2, <2>3 DEF Signalled, Coming
  <2>4. CASE ~Coming(u) /\ u # c
    BY <1>1, <1>2, <2>1, <2>4 DEF Signalled, PlicKept
  <2>5. CASE ~Coming(u) /\ u = c
    <3>1. ~(\E t \in PlicIntp : todo[u] = <<Store(t)>>) /\ todo'[u] # <<Store(0)>>
      BY <1>3, <1>5, <2>5, Entries
    <3> QED
      BY <1>1, <2>1, <2>5, <3>1 DEF Signalled, PlicKept
  <2> QED
    BY <2>3, <2>4, <2>5
<1> QED
  BY <1>4, <1>5

(* The invariant, from its parts.                                           *)
LEMMA PlicAgain ==
    ASSUME PlicInv, irqc' \in Plics(irqc.cpu), PlicMirrors(irqc'), OneEnables(irqc'),
           irqc'.phys.pend \subseteq irqc'.hw,
           todo' = [v \in VCPU |-> todo'[v]], held' = [v \in VCPU |-> held'[v]],
           \A v \in VCPU : PlicSteps(v)', \A v \in VCPU : InService(v)',
           \A v \in VCPU : Signalled(v)', owed' \subseteq irqc'.phys.pend \cup irqc'.pend
    PROVE  PlicInv'
<1>1. irqc'.cpu = irqc.cpu
  BY DEF Plics
<1> QED
  BY <1>1 DEF PlicInv, VCPU

(* Claims are kept by a step after which what is active is still so and     *)
(* enabled for the same vCPUs.                                              *)
LEMMA StillInService ==
    ASSUME PlicInv, irqc'.cpu = irqc.cpu, irqc.act \subseteq irqc'.act,
           \A v \in VCPU : \A i \in irqc.act : i \in irqc'.enbl[v] <=> i \in irqc.enbl[v],
           NEW v \in VCPU, held'[v] \subseteq held[v],
           \/ todo'[v] = todo[v] \/ todo'[v] = <<>>
           \/ \E x : todo'[v] = <<Line(x)>> \/ todo'[v] = <<Store(x)>>
    PROVE  InService(v)'
<1>1. InService(v)
  BY DEF PlicInv
<1>2. \A i \in PlicIntp : todo'[v] = <<Complete(i), Line(v)>> => todo[v] = <<Complete(i), Line(v)>>
  BY Entries
<1> QED
  BY <1>1, <1>2 DEF InService

(* A store under the lock keeps it, if the lines are told.                  *)
LEMMA StoreKeeps ==
    ASSUME PlicInv, NEW c \in VCPU, PlicStored(irqc, irqc', c), held' = held, owed' = owed,
           \/ todo' = todo
           \/ \E h \in VCPU : todo' = [todo EXCEPT ![c] = <<Line(h)>>],
           \A v \in VCPU : Signalled(v)'
    PROVE  PlicInv'
<1>1. irqc' \in Plics(irqc.cpu) /\ PlicMirrors(irqc') /\ OneEnables(irqc') /\ irqc'.cpu = irqc.cpu
      /\ irqc'.phys.pend \subseteq irqc'.hw /\ owed' \subseteq irqc'.phys.pend \cup irqc'.pend
  BY DEF PlicInv, PlicStored, Plics
<1>2. todo' = [v \in VCPU |-> todo'[v]] /\ held' = [v \in VCPU |-> held'[v]]
  BY DEF PlicInv
<1>3. ASSUME NEW v \in VCPU PROVE todo'[v] = todo[v] \/ \E h \in VCPU : todo'[v] = <<Line(h)>>
  BY DEF PlicInv
<1>4. ASSUME NEW v \in VCPU PROVE PlicSteps(v)'
  <2>1. PlicSteps(v) /\ VCPU' = VCPU
    BY <1>1 DEF PlicInv, VCPU
  <2> QED
    BY <1>3, <2>1 DEF PlicSteps
<1>5. ASSUME NEW v \in VCPU PROVE InService(v)'
  <2>1. \A u \in VCPU : \A i \in irqc.act : i \in irqc'.enbl[u] <=> i \in irqc.enbl[u]
    BY DEF PlicStored, VCPU
  <2>2. irqc.act \subseteq irqc'.act
    BY DEF PlicStored
  <2> QED
    BY <1>1, <1>3, <2>1, <2>2, StillInService
<1> QED
  BY <1>1, <1>2, <1>4, <1>5, PlicAgain

(* A store to a priority, an enable register or a threshold                 *)
(* (vplic_global_emul_handler, vplic_hart_emul_handler).                    *)
LEMMA PlicGuestStore ==
    ASSUME PlicInv, Plic, NEW v \in VCPU, GuestStore(v)
    PROVE  PlicInv'
<1> PICK w \in Stores["plic"] :
        /\ Disciplined(w)
        /\ IF w.reg = "threshold" THEN
               /\ irqc' = vplic_set_threshold(irqc, w.hart, w.lo)
               /\ Enter(v, <<Line(w.hart)>>)
               /\ UNCHANGED owed
           ELSE /\ irqc' = EmulateGlobal(irqc, v, w)
                /\ UNCHANGED <<todo, owed>>
  BY DEF GuestStore, Plic
<1>1. /\ OneCpuEach(irqc.cpu) /\ irqc \in Plics(irqc.cpu) /\ PlicMirrors(irqc) /\ OneEnables(irqc)
      /\ VCPU = DOMAIN irqc.cpu /\ w \in PlicStores(VCPU) /\ held' = held /\ owed' = owed /\ todo[v] = <<>>
  BY DEF PlicInv, GuestStore, VCPU
<1>2. CASE w.reg = "threshold"
  <2>1. w.hart \in VCPU /\ w.lo \in Nat
    BY <1>1, <1>2 DEF PlicStores
  <2>2. PlicStored(irqc, irqc', v) /\ \A u \in VCPU \ {w.hart} : PlicKept(irqc, irqc', u)
    BY <1>1, <1>2, <2>1, PlicThreshold
  <2>3. irqc'.cpu = irqc.cpu /\ todo' = [todo EXCEPT ![v] = <<Line(w.hart)>>]
    BY <1>2, <2>2 DEF PlicStored, Plics, Enter
  <2>4. \A u \in VCPU : Signalled(u)'
    BY <1>1, <2>1, <2>2, <2>3, HandlerGoesOn
  <2> QED
    BY <1>1, <2>1, <2>2, <2>3, <2>4, StoreKeeps
<1>3. ASSUME PlicStored(irqc, irqc', v), PlicTold(irqc, irqc', v), todo' = todo
      PROVE  PlicInv'
  <2>1. irqc'.cpu = irqc.cpu
    BY <1>3 DEF PlicStored, Plics
  <2>2. \A u \in VCPU : Signalled(u)'
    BY <1>1, <1>3, <2>1, HandlerSignals
  <2> QED
    BY <1>1, <1>3, <2>2, StoreKeeps
<1>4. CASE w.reg = "enbl"
  <2>1. w.hart \in VCPU /\ w.intp \in PlicIntp /\ w.en \in BOOLEAN
    BY <1>1, <1>4 DEF PlicStores
  <2>2. irqc' = vplic_set_enbl(irqc, v, w.hart, w.intp, w.en) /\ todo' = todo
    BY <1>4 DEF EmulateGlobal
  <2>3. /\ w.intp \notin irqc.act /\ (w.intp \in irqc.hw => w.intp \notin irqc.pend)
        /\ w.en => \A u \in VCPU \ {w.hart} : w.intp \notin irqc.enbl[u]
    BY <1>4 DEF Disciplined
  <2> QED
    BY <1>1, <1>3, <2>1, <2>2, <2>3, PlicEnbl
<1>5. CASE w.reg = "prio"
  <2>1. w.intp \in PlicIntp /\ w.lo \in Nat
    BY <1>1, <1>5 DEF PlicStores
  <2>2. irqc' = vplic_set_prio(irqc, v, w.intp, w.lo) /\ todo' = todo
    BY <1>5 DEF EmulateGlobal
  <2>3. w.intp \in irqc.hw => w.intp \notin irqc.pend
    BY <1>5 DEF Disciplined
  <2> QED
    BY <1>1, <1>3, <2>1, <2>2, <2>3, PlicPrio
<1> QED
  BY <1>1, <1>2, <1>4, <1>5 DEF PlicStores

(* vplic_claim; the line is updated in a later step.                        *)
LEMMA PlicGuestClaim ==
    ASSUME PlicInv, Plic, NEW v \in VCPU, GuestClaim(v)
    PROVE  PlicInv'
<1> DEFINE i == vplic_next_pending(irqc, v)
<1>1. /\ OneCpuEach(irqc.cpu) /\ irqc \in Plics(irqc.cpu) /\ VCPU = DOMAIN irqc.cpu
      /\ PlicMirrors(irqc) /\ OneEnables(irqc) /\ irqc.phys.pend \subseteq irqc.hw
      /\ owed \subseteq irqc.phys.pend \cup irqc.pend
  BY DEF PlicInv, VCPU
<1>2. i \in PlicIntp \cup {0} /\ (i # 0 => i \in (irqc.pend \ irqc.act) \cap irqc.enbl[v])
  BY <1>1, NextPending
<1>3. /\ todo[v] = <<>> /\ todo' = [todo EXCEPT ![v] = <<Line(v)>>]
      /\ irqc' = vplic_claim(irqc, v) /\ owed' = owed \ {i}
      /\ held' = [held EXCEPT ![v] = held[v] \cup ({i} \ {0})]
  BY DEF GuestClaim, Enter
<1>4. irqc' = [irqc EXCEPT !.pend = @ \ {i}, !.act = @ \cup {i}]
  BY <1>3 DEF vplic_claim
<1> HIDE DEF i
<1>5. irqc' \in Plics(irqc.cpu) /\ irqc'.pend = irqc.pend \ {i} /\ irqc'.act = irqc.act \cup {i}
  BY <1>1, <1>2, <1>4 DEF Plics
<1>6. /\ irqc'.line = irqc.line /\ irqc'.inbox = irqc.inbox /\ irqc'.hw = irqc.hw /\ irqc'.cpu = irqc.cpu
      /\ irqc'.enbl = irqc.enbl /\ irqc'.prio = irqc.prio /\ irqc'.threshold = irqc.threshold
      /\ irqc'.phys = irqc.phys
  BY <1>1, <1>4 DEF Plics
<1>7. \A u \in VCPU : PlicKept(irqc, irqc', u)
  BY <1>5, <1>6 DEF PlicKept, PlicShows
<1>8. \A u \in VCPU : Signalled(u)'
  BY <1>3, <1>6, <1>7, HandlerGoesOn
<1>9. \A u \in VCPU : todo'[u] = IF u = v THEN <<Line(v)>> ELSE todo[u]
  BY <1>3 DEF PlicInv
<1>10. \A u \in VCPU : held'[u] = IF u = v THEN held[v] \cup ({i} \ {0}) ELSE held[u]
  BY <1>3 DEF PlicInv
<1>11. ASSUME NEW u \in VCPU PROVE InService(u)'
  <2>1. CASE u # v
    <3>1. /\ irqc.act \subseteq irqc'.act /\ held'[u] \subseteq held[u] /\ todo'[u] = todo[u]
          /\ \A x \in VCPU : \A j \in irqc.act : j \in irqc'.enbl[x] <=> j \in irqc.enbl[x]
      BY <1>5, <1>6, <1>9, <1>10, <2>1
    <3> QED
      BY <1>6, <3>1, StillInService
  <2>2. CASE u = v
    <3>1. held[v] \subseteq irqc.act \cap irqc.enbl[v]
      BY DEF PlicInv, InService
    <3>2. held'[v] \subseteq irqc'.act \cap irqc'.enbl[v]
      BY <1>2, <1>5, <1>6, <1>10, <3>1
    <3>3. \A j \in PlicIntp : todo'[v] # <<Complete(j), Line(v)>>
      BY <1>9, Entries
    <3> QED
      BY <2>2, <3>2, <3>3 DEF InService
  <2> QED
    BY <2>1, <2>2
<1>12. ASSUME NEW u \in VCPU PROVE PlicSteps(u)'
  <2>1. PlicSteps(u) /\ VCPU' = VCPU
    BY <1>6 DEF PlicInv, VCPU
  <2> QED
    BY <1>9, <2>1 DEF PlicSteps
<1>13. PlicMirrors(irqc') /\ OneEnables(irqc')
  BY <1>1, <1>6 DEF PlicMirrors, OneEnables
<1>14. irqc'.phys.pend \subseteq irqc'.hw /\ owed' \subseteq irqc'.phys.pend \cup irqc'.pend
  BY <1>1, <1>3, <1>5, <1>6
<1>15. todo' = [u \in VCPU |-> todo'[u]] /\ held' = [u \in VCPU |-> held'[u]]
  BY <1>3 DEF PlicInv
<1> QED
  BY <1>5, <1>8, <1>11, <1>12, <1>13, <1>14, <1>15, PlicAgain

(* vplic_complete, up to its lock: the physical completion.                 *)
LEMMA PlicGuestComplete ==
    ASSUME PlicInv, Plic, NEW v \in VCPU, GuestComplete(v)
    PROVE  PlicInv'
<1> PICK i \in held[v] :
        /\ held' = [held EXCEPT ![v] = @ \ {i}]
        /\ irqc' = vplic_complete_hw(irqc, v, i)
        /\ Enter(v, <<Complete(i), Line(v)>>)
  BY DEF GuestComplete
<1> DEFINE phys == plic_complete(irqc.phys, irqc.cpu[v], i)
<1>1. /\ OneCpuEach(irqc.cpu) /\ irqc \in Plics(irqc.cpu) /\ VCPU = DOMAIN irqc.cpu
      /\ PlicMirrors(irqc) /\ OneEnables(irqc) /\ irqc.phys.pend \subseteq irqc.hw
      /\ owed \subseteq irqc.phys.pend \cup irqc.pend /\ owed' = owed /\ todo[v] = <<>>
  BY DEF PlicInv, VCPU, GuestComplete
<1>2. i \in irqc.act \cap irqc.enbl[v] /\ i \in PlicIntp
  <2>1. i \in irqc.act \cap irqc.enbl[v]
    BY DEF PlicInv, InService
  <2> QED
    BY <1>1, <2>1 DEF Plics
<1>3. todo' = [todo EXCEPT ![v] = <<Complete(i), Line(v)>>]
  BY DEF Enter
<1>4. irqc' = irqc \/ irqc' = [irqc EXCEPT !.phys = phys]
  BY DEF vplic_complete_hw
<1>5. [irqc EXCEPT !.phys = phys] \in Plics(irqc.cpu) /\ phys.pend = irqc.phys.pend
      /\ phys.enbl = irqc.phys.enbl /\ phys.prio = irqc.phys.prio /\ phys.threshold = irqc.phys.threshold
  BY <1>1 DEF Plics, plic_complete
<1> HIDE DEF phys
<1>6. /\ irqc' \in Plics(irqc.cpu) /\ irqc'.phys.pend = irqc.phys.pend
      /\ irqc'.phys.enbl = irqc.phys.enbl /\ irqc'.phys.prio = irqc.phys.prio
      /\ irqc'.phys.threshold = irqc.phys.threshold
      /\ irqc'.line = irqc.line /\ irqc'.inbox = irqc.inbox /\ irqc'.hw = irqc.hw /\ irqc'.cpu = irqc.cpu
      /\ irqc'.enbl = irqc.enbl /\ irqc'.prio = irqc.prio /\ irqc'.threshold = irqc.threshold
      /\ irqc'.pend = irqc.pend /\ irqc'.act = irqc.act
  BY <1>1, <1>4, <1>5 DEF Plics
<1>7. \A u \in VCPU : PlicKept(irqc, irqc', u)
  BY <1>6 DEF PlicKept, PlicShows
<1>8. \A u \in VCPU : Signalled(u)'
  BY <1>1, <1>2, <1>3, <1>6, <1>7, HandlerGoesOn
<1>9. \A u \in VCPU : todo'[u] = IF u = v THEN <<Complete(i), Line(v)>> ELSE todo[u]
  BY <1>3 DEF PlicInv
<1>10. \A u \in VCPU : held'[u] = IF u = v THEN held[v] \ {i} ELSE held[u]
  BY DEF PlicInv
<1>11. ASSUME NEW u \in VCPU PROVE InService(u)'
  <2>1. CASE u # v
    <3>1. /\ irqc.act \subseteq irqc'.act /\ held'[u] \subseteq held[u] /\ todo'[u] = todo[u]
          /\ \A x \in VCPU : \A j \in irqc.act : j \in irqc'.enbl[x] <=> j \in irqc.enbl[x]
      BY <1>6, <1>9, <1>10, <2>1
    <3> QED
      BY <1>6, <3>1, StillInService
  <2>2. CASE u = v
    <3>1. held[v] \subseteq irqc.act \cap irqc.enbl[v]
      BY DEF PlicInv, InService
    <3>2. \A j \in PlicIntp : todo'[v] = <<Complete(j), Line(v)>> => j = i
      BY <1>9, Entries
    <3> QED
      BY <2>2, <1>2, <1>6, <1>10, <3>1, <3>2 DEF InService
  <2> QED
    BY <2>1, <2>2
<1>12. ASSUME NEW u \in VCPU PROVE PlicSteps(u)'
  <2>1. PlicSteps(u) /\ VCPU' = VCPU
    BY <1>6 DEF PlicInv, VCPU
  <2> QED
    BY <1>2, <1>9, <2>1 DEF PlicSteps
<1>13. PlicMirrors(irqc') /\ OneEnables(irqc')
  BY <1>1, <1>6 DEF PlicMirrors, OneEnables
<1>14. irqc'.phys.pend \subseteq irqc'.hw /\ owed' \subseteq irqc'.phys.pend \cup irqc'.pend
  BY <1>1, <1>6
<1>15. todo' = [u \in VCPU |-> todo'[u]] /\ held' = [u \in VCPU |-> held'[u]]
  BY <1>3 DEF PlicInv
<1> QED
  BY <1>6, <1>8, <1>11, <1>12, <1>13, <1>14, <1>15, PlicAgain

(* The steps of the hypervisor: the guest's claims are untouched.           *)
LEMMA HypervisorKeeps ==
    ASSUME PlicInv, NEW c \in VCPU,
           irqc' \in Plics(irqc.cpu), PlicMirrors(irqc'), irqc'.hw = irqc.hw,
           irqc'.enbl = irqc.enbl, irqc.act \subseteq irqc'.act,
           irqc'.phys.pend \subseteq irqc.hw, held' = held,
           owed' \subseteq irqc'.phys.pend \cup irqc'.pend,
           \/ todo' = todo
           \/ \E x : /\ todo' = [todo EXCEPT ![c] = x]
                     /\ \/ x = <<>>
                        \/ \E h \in VCPU : x = <<Line(h)>>
                        \/ \E t \in PlicIntp \cup {0} : x = <<Store(t)>>,
           \A u \in VCPU : Signalled(u)'
    PROVE  PlicInv'
<1>1. irqc'.cpu = irqc.cpu
  BY DEF Plics
<1>2. OneEnables(irqc')
  BY <1>1 DEF PlicInv, OneEnables
<1>3. todo' = [v \in VCPU |-> todo'[v]] /\ held' = [v \in VCPU |-> held'[v]]
  BY DEF PlicInv
<1>4. ASSUME NEW v \in VCPU
      PROVE  \/ todo'[v] = todo[v] \/ todo'[v] = <<>>
             \/ \E h \in VCPU : todo'[v] = <<Line(h)>>
             \/ \E t \in PlicIntp \cup {0} : todo'[v] = <<Store(t)>>
  <2>1. CASE todo' = todo
    BY <2>1
  <2>2. CASE \E x : /\ todo' = [todo EXCEPT ![c] = x]
                    /\ \/ x = <<>>
                       \/ \E h \in VCPU : x = <<Line(h)>>
                       \/ \E t \in PlicIntp \cup {0} : x = <<Store(t)>>
    <3> PICK x : /\ todo' = [todo EXCEPT ![c] = x]
                 /\ \/ x = <<>>
                    \/ \E h \in VCPU : x = <<Line(h)>>
                    \/ \E t \in PlicIntp \cup {0} : x = <<Store(t)>>
      BY <2>2
    <3>1. todo'[v] = todo[v] \/ todo'[v] = x
      BY DEF PlicInv
    <3> QED
      BY <3>1
  <2> QED
    BY <2>1, <2>2
<1>5. ASSUME NEW v \in VCPU PROVE PlicSteps(v)'
  <2>1. PlicSteps(v) /\ VCPU' = VCPU
    BY <1>1 DEF PlicInv, VCPU
  <2> QED
    BY <1>4, <2>1 DEF PlicSteps
<1>6. ASSUME NEW v \in VCPU PROVE InService(v)'
  <2>1. held'[v] \subseteq held[v] /\ \A u \in VCPU : \A i \in irqc.act : i \in irqc'.enbl[u] <=> i \in irqc.enbl[u]
    OBVIOUS
  <2> QED
    BY <1>1, <1>4, <2>1, StillInService
<1>7. irqc'.phys.pend \subseteq irqc'.hw
  OBVIOUS
<1> QED
  BY <1>2, <1>3, <1>5, <1>6, <1>7, PlicAgain

(* vplic_update_hart_line: what is pending is read, or a message sent to    *)
(* the CPU of another vCPU.                                                 *)
LEMMA PlicUpdateLine ==
    ASSUME PlicInv, Plic, NEW v \in VCPU, UpdateLine(v)
    PROVE  PlicInv'
<1>1. /\ OneCpuEach(irqc.cpu) /\ irqc \in Plics(irqc.cpu) /\ VCPU = DOMAIN irqc.cpu
      /\ PlicMirrors(irqc) /\ irqc.phys.pend \subseteq irqc.hw
      /\ owed \subseteq irqc.phys.pend \cup irqc.pend /\ owed' = owed /\ held' = held
      /\ DOMAIN todo = VCPU
  BY DEF PlicInv, VCPU, UpdateLine
<1>2. PICK h \in VCPU : todo[v] = <<Line(h)>>
  <2>1. todo[v] # <<>> /\ Head(todo[v]).do = "line" /\ PlicSteps(v)
    BY DEF UpdateLine, PlicInv
  <2> QED
    BY <2>1, Heads DEF PlicSteps
<1>3. Head(todo[v]).arg = h /\ Tail(todo[v]) = <<>>
  BY <1>2, Heads
<1>4. CASE h = v
  <2> DEFINE t == vplic_next_pending(irqc, v)
  <2>1. irqc' = irqc /\ todo' = [todo EXCEPT ![v] = <<Store(t)>> \o <<>>]
    BY <1>3, <1>4 DEF UpdateLine, Scan, Enter
  <2>2. t \in PlicIntp \cup {0} /\ (t # 0 <=> PlicShows(irqc, v))
    BY <1>1, NextPending
  <2> HIDE DEF t
  <2>3. <<Store(t)>> \o <<>> = <<Store(t)>>
    OBVIOUS
  <2>4. \A u \in VCPU : todo'[u] = IF u = v THEN <<Store(t)>> ELSE todo[u]
    BY <1>1, <2>1, <2>3
  <2>5. ASSUME NEW u \in VCPU PROVE Signalled(u)'
    <3>1. CASE u = v
      <4>1. CASE t = 0
        BY <2>1, <2>2, <3>1, <4>1 DEF Signalled
      <4>2. CASE t # 0
        BY <2>1, <2>2, <2>4, <3>1, <4>2 DEF Signalled
      <4> QED
        BY <4>1, <4>2
    <3>2. CASE u # v
      <4>1. todo[v] # <<Line(u)>> /\ todo'[u] = todo[u] /\ VCPU' = VCPU
        BY <1>2, <1>4, <2>1, <2>4, <3>2, Entries DEF VCPU
      <4>2. Coming(u) => Coming(u)'
        BY <2>1, <2>4, <4>1 DEF Coming
      <4>3. Signalled(u)
        BY DEF PlicInv
      <4> QED
        BY <2>1, <4>1, <4>2, <4>3 DEF Signalled
    <3> QED
      BY <3>1, <3>2
  <2>6. todo' = [todo EXCEPT ![v] = <<Store(t)>>]
    BY <2>1, <2>3
  <2> QED
    BY <1>1, <2>1, <2>2, <2>5, <2>6, HypervisorKeeps
<1>5. CASE h # v
  <2>1. irqc' = UpdateContexts(irqc, v, {h}) /\ todo' = [todo EXCEPT ![v] = <<>>]
    BY <1>3, <1>5 DEF UpdateLine, Enter, vplic_update_hart_line
  <2>2. irqc' \in Plics(irqc.cpu) /\ PlicSame(irqc, irqc') /\ LineTold(irqc, irqc', v, {h})
    BY <1>1, <2>1, ContextsUpdated
  <2>3. \A u \in VCPU : todo'[u] = IF u = v THEN <<>> ELSE todo[u]
    BY <1>1, <2>1
  <2>4. VCPU' = VCPU
    BY <2>2 DEF VCPU, PlicSame
  <2>5. ASSUME NEW u \in VCPU PROVE Signalled(u)'
    <3>1. CASE u = h
      BY <1>1, <1>5, <2>2, <3>1 DEF Signalled, Coming, LineTold
    <3>2. CASE u # h
      <4>1. irqc'.inbox[u] = irqc.inbox[u] /\ (u \in irqc'.line <=> u \in irqc.line)
        BY <1>1, <2>2, <3>2 DEF LineTold
      <4>2. todo[v] # <<Line(u)>> /\ \A i \in PlicIntp : todo[v] # <<Complete(i), Line(v)>>
        BY <1>2, <3>2, Entries
      <4>3. Coming(u) => Coming(u)'
        BY <2>3, <2>4, <4>1, <4>2 DEF Coming
      <4>4. Signalled(u) /\ (PlicShows(irqc', u) <=> PlicShows(irqc, u))
        BY <2>2, SameShows DEF PlicInv
      <4>5. ~(\E t \in PlicIntp : todo[v] = <<Store(t)>>) /\ <<>> # <<Store(0)>>
        BY <1>2, Entries
      <4> QED
        BY <2>3, <4>1, <4>3, <4>4, <4>5 DEF Signalled
    <3> QED
      BY <3>1, <3>2
  <2>6. PlicMirrors(irqc')
    BY <1>1, <2>2 DEF PlicMirrors, PlicSame
  <2>7. /\ irqc'.hw = irqc.hw /\ irqc'.enbl = irqc.enbl /\ irqc'.act = irqc.act
        /\ irqc'.phys = irqc.phys /\ irqc'.pend = irqc.pend
    BY <2>2 DEF PlicSame
  <2> QED
    BY <1>1, <2>1, <2>2, <2>5, <2>6, <2>7, HypervisorKeeps
<1> QED
  BY <1>4, <1>5

(* The line is set to what was read, which may be out of date: if something *)
(* came in between, an update is coming.                                    *)
LEMMA PlicStoreLine ==
    ASSUME PlicInv, Plic, NEW v \in VCPU, StoreLine(v)
    PROVE  PlicInv'
<1>1. /\ irqc \in Plics(irqc.cpu) /\ VCPU = DOMAIN irqc.cpu
      /\ PlicMirrors(irqc) /\ irqc.phys.pend \subseteq irqc.hw
      /\ owed \subseteq irqc.phys.pend \cup irqc.pend /\ owed' = owed /\ held' = held
      /\ DOMAIN todo = VCPU
  BY DEF PlicInv, VCPU, StoreLine
<1>2. PICK t \in PlicIntp \cup {0} : todo[v] = <<Store(t)>>
  <2>1. todo[v] # <<>> /\ Head(todo[v]).do = "store" /\ PlicSteps(v)
    BY DEF StoreLine, PlicInv
  <2> QED
    BY <2>1, Heads DEF PlicSteps
<1>3. irqc' = SetPlicLine(irqc, v, t) /\ todo' = [todo EXCEPT ![v] = <<>>]
  BY <1>2, Heads DEF StoreLine, Enter
<1>4. irqc' \in Plics(irqc.cpu) /\ irqc'.line = IF t # 0 THEN irqc.line \cup {v} ELSE irqc.line \ {v}
  BY <1>1, <1>3 DEF SetPlicLine, Plics
<1>5. PlicSame(irqc, irqc') /\ irqc'.inbox = irqc.inbox
  BY <1>1, <1>3 DEF SetPlicLine, Plics, PlicSame
<1>6. \A u \in VCPU : todo'[u] = IF u = v THEN <<>> ELSE todo[u]
  BY <1>1, <1>3
<1>7. VCPU' = VCPU
  BY <1>5 DEF VCPU, PlicSame
<1>8. ASSUME NEW u \in VCPU PROVE Signalled(u)'
  <2>1. \A x : todo[v] # <<Line(x)>> /\ \A i \in PlicIntp : todo[v] # <<Complete(i), Line(x)>>
    BY <1>2, Entries
  <2>2. Coming(u) => Coming(u)'
    BY <1>5, <1>6, <1>7, <2>1 DEF Coming
  <2>3. Signalled(u) /\ (PlicShows(irqc', u) <=> PlicShows(irqc, u))
    BY <1>5, SameShows DEF PlicInv
  <2>4. CASE u = v
    <3>1. \A x \in PlicIntp : todo[u] = <<Store(x)>> => x = t
      BY <1>2, <2>4, Entries
    <3>2. <<>> # <<Store(0)>>
      BY Entries
    <3>3. t = 0 => t \notin PlicIntp
      BY VPlicAssumption DEF PlicIntp
    <3> QED
      BY <1>2, <1>4, <1>6, <2>2, <2>3, <2>4, <3>1, <3>2, <3>3 DEF Signalled
  <2>5. CASE u # v
    BY <1>4, <1>6, <2>2, <2>3, <2>5 DEF Signalled
  <2> QED
    BY <2>4, <2>5
<1>9. PlicMirrors(irqc')
  BY <1>1, <1>5 DEF PlicMirrors, PlicSame
<1>10. /\ irqc'.hw = irqc.hw /\ irqc'.enbl = irqc.enbl /\ irqc'.act = irqc.act
       /\ irqc'.phys = irqc.phys /\ irqc'.pend = irqc.pend
  BY <1>5 DEF PlicSame
<1> QED
  BY <1>1, <1>3, <1>4, <1>8, <1>9, <1>10, HypervisorKeeps

(* vplic_complete, under its lock.                                          *)
LEMMA PlicCompleteLocked ==
    ASSUME PlicInv, Plic, NEW v \in VCPU, CompleteLocked(v)
    PROVE  PlicInv'
<1>1. /\ irqc \in Plics(irqc.cpu) /\ VCPU = DOMAIN irqc.cpu /\ OneEnables(irqc)
      /\ PlicMirrors(irqc) /\ irqc.phys.pend \subseteq irqc.hw
      /\ owed \subseteq irqc.phys.pend \cup irqc.pend /\ owed' = owed /\ held' = held
      /\ DOMAIN todo = VCPU
  BY DEF PlicInv, VCPU, CompleteLocked
<1>2. PICK i \in PlicIntp : todo[v] = <<Complete(i), Line(v)>>
  <2>1. todo[v] # <<>> /\ Head(todo[v]).do = "complete" /\ PlicSteps(v)
    BY DEF CompleteLocked, PlicInv
  <2> QED
    BY <2>1, Heads DEF PlicSteps
<1>3. irqc' = vplic_complete(irqc, i) /\ todo' = [todo EXCEPT ![v] = <<Line(v)>>]
  BY <1>2, Heads DEF CompleteLocked, Enter
<1>4. irqc' \in Plics(irqc.cpu) /\ irqc'.act = irqc.act \ {i}
  BY <1>1, <1>3 DEF vplic_complete, Plics
<1>5. /\ irqc'.line = irqc.line /\ irqc'.inbox = irqc.inbox /\ irqc'.hw = irqc.hw /\ irqc'.cpu = irqc.cpu
      /\ irqc'.enbl = irqc.enbl /\ irqc'.prio = irqc.prio /\ irqc'.threshold = irqc.threshold
      /\ irqc'.phys = irqc.phys /\ irqc'.pend = irqc.pend
  BY <1>1, <1>3 DEF vplic_complete, Plics
<1>6. i \in irqc.act \cap irqc.enbl[v] /\ i \notin held[v]
  BY <1>2 DEF PlicInv, InService
<1>7. \A u \in VCPU \ {v} : i \notin irqc.enbl[u]
  BY <1>1, <1>6 DEF OneEnables
<1>8. \A u \in VCPU \ {v} : PlicKept(irqc, irqc', u)
  BY <1>4, <1>5, <1>7 DEF PlicKept, PlicShows
<1>9. \A u \in VCPU : Signalled(u)'
  BY <1>2, <1>3, <1>5, <1>8, HandlerGoesOn
<1>10. \A u \in VCPU : todo'[u] = IF u = v THEN <<Line(v)>> ELSE todo[u]
  BY <1>1, <1>3
<1>11. ASSUME NEW u \in VCPU PROVE PlicSteps(u)'
  <2>1. PlicSteps(u) /\ VCPU' = VCPU
    BY <1>5 DEF PlicInv, VCPU
  <2> QED
    BY <1>10, <2>1 DEF PlicSteps
<1>12. ASSUME NEW u \in VCPU PROVE InService(u)'
  <2>1. InService(u)
    BY DEF PlicInv
  <2>2. CASE u = v
    <3>1. \A j \in PlicIntp : todo'[v] # <<Complete(j), Line(v)>>
      BY <1>10, Entries
    <3> QED
      BY <1>1, <1>4, <1>5, <1>6, <2>1, <2>2, <3>1 DEF InService
  <2>3. CASE u # v
    BY <1>1, <1>4, <1>5, <1>7, <1>10, <2>1, <2>3 DEF InService
  <2> QED
    BY <2>2, <2>3
<1>13. PlicMirrors(irqc') /\ OneEnables(irqc')
  BY <1>1, <1>5 DEF PlicMirrors, OneEnables
<1>14. irqc'.phys.pend \subseteq irqc'.hw /\ owed' \subseteq irqc'.phys.pend \cup irqc'.pend
  BY <1>1, <1>5
<1>15. todo' = [u \in VCPU |-> todo'[u]] /\ held' = [u \in VCPU |-> held'[u]]
  BY <1>1, <1>3 DEF PlicInv
<1> QED
  BY <1>4, <1>9, <1>11, <1>12, <1>13, <1>14, <1>15, PlicAgain

(* vplic_ipi_handler: the update that was coming by message is now one of   *)
(* the handler.                                                             *)
LEMMA PlicIpi ==
    ASSUME PlicInv, Plic, NEW v \in VCPU, ipi_handler(v)
    PROVE  PlicInv'
<1>1. /\ irqc \in Plics(irqc.cpu) /\ VCPU = DOMAIN irqc.cpu
      /\ PlicMirrors(irqc) /\ irqc.phys.pend \subseteq irqc.hw
      /\ owed \subseteq irqc.phys.pend \cup irqc.pend /\ owed' = owed /\ held' = held
  BY DEF PlicInv, VCPU, ipi_handler
<1>2. /\ todo[v] = <<>> /\ irqc.inbox[v] > 0 /\ todo' = [todo EXCEPT ![v] = <<Line(v)>>]
      /\ irqc' = [irqc EXCEPT !.inbox[v] = @ - 1]
  BY DEF ipi_handler, Enter
<1>3. irqc.inbox \in [DOMAIN irqc.cpu -> Nat]
  BY <1>1 DEF Plics
<1>4. [irqc.inbox EXCEPT ![v] = @ - 1] \in [DOMAIN irqc.cpu -> Nat]
  BY <1>1, <1>2, <1>3
<1>5. irqc' \in Plics(irqc.cpu) /\ irqc'.inbox = [irqc.inbox EXCEPT ![v] = @ - 1]
  BY <1>1, <1>2, <1>4 DEF Plics
<1>6. PlicSame(irqc, irqc') /\ irqc'.line = irqc.line
  BY <1>1, <1>2 DEF Plics, PlicSame
<1>7. \A u \in VCPU \ {v} : PlicKept(irqc, irqc', u)
  BY <1>1, <1>3, <1>5, <1>6, SameShows DEF PlicKept
<1>8. /\ irqc'.hw = irqc.hw /\ irqc'.enbl = irqc.enbl /\ irqc'.act = irqc.act /\ irqc'.cpu = irqc.cpu
      /\ irqc'.phys = irqc.phys /\ irqc'.pend = irqc.pend
  BY <1>6 DEF PlicSame
<1>9. \A u \in VCPU : Signalled(u)'
  BY <1>2, <1>7, <1>8, HandlerGoesOn
<1>10. PlicMirrors(irqc')
  BY <1>1, <1>6 DEF PlicMirrors, PlicSame
<1> QED
  BY <1>1, <1>2, <1>5, <1>8, <1>9, <1>10, HypervisorKeeps

(* plic_handle: the interrupt of a device is claimed physically and         *)
(* injected.                                                                *)
LEMMA PlicHandle ==
    ASSUME PlicInv, Plic, NEW v \in VCPU, irqc_handle(v)
    PROVE  PlicInv'
<1>1. /\ OneCpuEach(irqc.cpu) /\ irqc \in Plics(irqc.cpu) /\ VCPU = DOMAIN irqc.cpu
      /\ PlicMirrors(irqc) /\ OneEnables(irqc) /\ irqc.phys.pend \subseteq irqc.hw
      /\ owed \subseteq irqc.phys.pend \cup irqc.pend /\ owed' = owed /\ held' = held
      /\ todo[v] = <<>> /\ todo' = todo
  BY DEF PlicInv, VCPU, irqc_handle
<1>2. PICK i \in plic_presents(irqc, irqc.cpu[v]) : irqc' = plic_handle(irqc, v, i)
  BY DEF irqc_handle
<1>3. i \in irqc.phys.pend /\ i \in irqc.phys.enbl[irqc.cpu[v]]
  BY <1>2 DEF plic_presents
<1>4. i \in PlicIntp /\ i \in irqc.enbl[v] /\ i \in irqc.hw
  <2>1. irqc.phys.pend \subseteq PlicIntp
    BY <1>1 DEF Plics
  <2> QED
    BY <1>1, <1>3, <2>1 DEF PlicMirrors
<1> DEFINE phys == [irqc.phys EXCEPT !.pend = @ \ {i}, !.serv = @ \cup {i}]
           q == [irqc EXCEPT !.phys = phys]
<1>5. q = [irqc EXCEPT !.phys.pend = @ \ {i}, !.phys.serv = @ \cup {i}]
  BY <1>1 DEF Plics
<1>6. q \in Plics(irqc.cpu) /\ q.phys = phys /\ phys.pend = irqc.phys.pend \ {i}
      /\ phys.enbl = irqc.phys.enbl /\ phys.prio = irqc.phys.prio /\ phys.threshold = irqc.phys.threshold
  BY <1>1, <1>4 DEF Plics
<1>7. /\ q.line = irqc.line /\ q.inbox = irqc.inbox /\ q.hw = irqc.hw /\ q.cpu = irqc.cpu
      /\ q.enbl = irqc.enbl /\ q.prio = irqc.prio /\ q.threshold = irqc.threshold
      /\ q.pend = irqc.pend /\ q.act = irqc.act
  BY <1>1 DEF Plics
<1>8. irqc' = vplic_inject(q, v, i)
  BY <1>2, <1>5 DEF plic_handle
<1> HIDE DEF q, phys
<1>9. PlicMirrors(q) /\ OneEnables(q)
  BY <1>1, <1>6, <1>7 DEF PlicMirrors, OneEnables
<1>10. i \in q.hw => i \in q.enbl[v]
  BY <1>4, <1>7
<1>11. /\ irqc' \in Plics(irqc.cpu) /\ PlicMirrors(irqc') /\ OneEnables(irqc')
       /\ irqc'.hw = q.hw /\ irqc'.phys = q.phys /\ irqc'.act = q.act /\ irqc'.enbl = q.enbl
       /\ irqc'.pend = q.pend \cup {i} /\ PlicTold(q, irqc', v)
  BY <1>1, <1>4, <1>6, <1>8, <1>9, <1>10, PlicInjected
<1>12. \A u \in VCPU : PlicShows(q, u) <=> PlicShows(irqc, u)
  BY <1>7 DEF PlicShows
<1>13. PlicTold(irqc, irqc', v) /\ irqc'.cpu = irqc.cpu
  BY <1>1, <1>7, <1>11, <1>12 DEF PlicTold, PlicKept, Plics
<1>14. \A u \in VCPU : Signalled(u)'
  BY <1>1, <1>13, HandlerSignals
<1>15. /\ irqc'.hw = irqc.hw /\ irqc'.enbl = irqc.enbl /\ irqc.act \subseteq irqc'.act
       /\ irqc'.phys.pend \subseteq irqc.hw /\ owed' \subseteq irqc'.phys.pend \cup irqc'.pend
  BY <1>1, <1>6, <1>7, <1>11
<1> QED
  BY <1>1, <1>11, <1>14, <1>15, HypervisorKeeps

(* vplic_inject, of an interrupt of the hypervisor.                         *)
LEMMA PlicInject ==
    ASSUME PlicInv, Plic, NEW v \in VCPU, virqc_inject(v)
    PROVE  PlicInv'
<1>1. /\ OneCpuEach(irqc.cpu) /\ irqc \in Plics(irqc.cpu) /\ VCPU = DOMAIN irqc.cpu
      /\ PlicMirrors(irqc) /\ OneEnables(irqc) /\ irqc.phys.pend \subseteq irqc.hw
      /\ owed \subseteq irqc.phys.pend \cup irqc.pend /\ held' = held
      /\ todo[v] = <<>> /\ todo' = todo
  BY DEF PlicInv, VCPU, virqc_inject
<1>2. PICK i \in PlicIntp \ irqc.hw :
          irqc' = vplic_inject(irqc, v, i) /\ owed' \subseteq owed \cup {i}
  BY DEF virqc_inject, Sources
<1>3. /\ irqc' \in Plics(irqc.cpu) /\ PlicMirrors(irqc') /\ OneEnables(irqc')
      /\ irqc'.hw = irqc.hw /\ irqc'.phys = irqc.phys /\ irqc'.act = irqc.act /\ irqc'.enbl = irqc.enbl
      /\ irqc'.pend = irqc.pend \cup {i} /\ PlicTold(irqc, irqc', v)
  BY <1>1, <1>2, PlicInjected
<1>4. irqc'.cpu = irqc.cpu
  BY <1>3 DEF Plics
<1>5. \A u \in VCPU : Signalled(u)'
  BY <1>1, <1>3, <1>4, HandlerSignals
<1>6. irqc'.phys.pend \subseteq irqc.hw /\ owed' \subseteq irqc'.phys.pend \cup irqc'.pend
  BY <1>1, <1>2, <1>3
<1> QED
  BY <1>1, <1>3, <1>5, <1>6, HypervisorKeeps

(* A device raises an interrupt, which is not yet pending virtually.        *)
LEMMA PlicRaise ==
    ASSUME PlicInv, Plic, Raise
    PROVE  PlicInv'
<1>1. /\ irqc \in Plics(irqc.cpu) /\ VCPU = DOMAIN irqc.cpu /\ 0 \in VCPU
      /\ PlicMirrors(irqc) /\ irqc.phys.pend \subseteq irqc.hw /\ irqc.hw \subseteq PlicIntp
      /\ owed \subseteq irqc.phys.pend \cup irqc.pend /\ held' = held /\ todo' = todo
  BY DEF PlicInv, VCPU, Raise, OneCpuEach, Plics
<1>2. PICK i \in irqc.hw : irqc' = [irqc EXCEPT !.phys.pend = @ \cup {i}] /\ owed' = owed \cup {i}
  BY DEF Raise
<1> DEFINE phys == [irqc.phys EXCEPT !.pend = @ \cup {i}]
<1> DEFINE Cpu == {irqc.cpu[v] : v \in VCPU}
           Phys == [enbl : [Cpu -> SUBSET PlicIntp], prio : [PlicIntp -> Nat],
                    threshold : [Cpu -> Nat], pend : SUBSET PlicIntp, serv : SUBSET PlicIntp]
<1>10. irqc.phys \in Phys
  BY <1>1 DEF Plics
<1>11. phys \in Phys /\ phys.pend = irqc.phys.pend \cup {i}
  BY <1>1, <1>10
<1>8. [irqc EXCEPT !.phys = phys] \in Plics(irqc.cpu) /\ phys.pend = irqc.phys.pend \cup {i}
  <2> HIDE DEF phys
  <2> QED
    BY <1>1, <1>11 DEF Plics
<1>9. irqc' = [irqc EXCEPT !.phys = phys]
  BY <1>1, <1>2 DEF Plics
<1>3. irqc' \in Plics(irqc.cpu) /\ irqc'.phys.pend = irqc.phys.pend \cup {i}
  BY <1>1, <1>8, <1>9 DEF Plics
<1>4. /\ irqc'.line = irqc.line /\ irqc'.inbox = irqc.inbox /\ irqc'.hw = irqc.hw /\ irqc'.cpu = irqc.cpu
      /\ irqc'.enbl = irqc.enbl /\ irqc'.prio = irqc.prio /\ irqc'.threshold = irqc.threshold
      /\ irqc'.pend = irqc.pend /\ irqc'.act = irqc.act
      /\ irqc'.phys.enbl = irqc.phys.enbl /\ irqc'.phys.prio = irqc.phys.prio
      /\ irqc'.phys.threshold = irqc.phys.threshold
  BY <1>1, <1>2 DEF Plics
<1>5. PlicMirrors(irqc')
  BY <1>1, <1>4 DEF PlicMirrors
<1>6. ASSUME NEW u \in VCPU PROVE Signalled(u)'
  <2>1. Signalled(u) /\ VCPU' = VCPU
    BY <1>4 DEF PlicInv, VCPU
  <2>2. Coming(u) => Coming(u)'
    BY <1>1, <1>4, <2>1 DEF Coming
  <2>3. PlicShows(irqc', u) => PlicShows(irqc, u)
    BY <1>4 DEF PlicShows
  <2> QED
    BY <1>1, <1>4, <2>1, <2>2, <2>3 DEF Signalled
<1>7. irqc'.phys.pend \subseteq irqc.hw /\ owed' \subseteq irqc'.phys.pend \cup irqc'.pend
  BY <1>1, <1>2, <1>3, <1>4
<1> QED
  BY <1>1, <1>3, <1>4, <1>5, <1>6, <1>7, HypervisorKeeps

(* Every step of a platform with a PLIC keeps the invariant.                *)
LEMMA PlicStep ==
    ASSUME PlicInv, Plic, RvNext
    PROVE  PlicInv' /\ Plic'
<1>1. port' = port
  BY DEF RvNext, GuestHandler, Handlers, GuestStore, GuestClaim, GuestComplete, GuestMsi, UpdateLine,
         StoreLine, CompleteLocked, ipi_handler, irqc_handle, virqc_inject, Raise, AplicSend
<1>2. ~(\E v \in VCPU : GuestMsi(v)) /\ ~AplicSend
  BY DEF Plic, GuestMsi, AplicSend
<1>3. Plic'
  BY <1>1 DEF Plic
<1> QED
  BY <1>2, <1>3, PlicGuestStore, PlicGuestClaim, PlicGuestComplete, PlicUpdateLine, PlicStoreLine,
     PlicCompleteLocked, PlicIpi, PlicHandle, PlicInject, PlicRaise DEF RvNext, GuestHandler, Handlers

(* It holds at the start.                                                   *)
LEMMA PlicStart ==
    ASSUME NEW c, RvWellFormed(c), c.port = "plic", RvInit(c)
    PROVE  PlicInv
<1>1. /\ irqc = c.irqc /\ VCPU = DOMAIN c.irqc.cpu
      /\ todo = [v \in VCPU |-> <<>>] /\ held = [v \in VCPU |-> {}] /\ owed = {}
  BY DEF RvInit, VCPU
<1>2. /\ OneCpuEach(irqc.cpu) /\ Stores["plic"] \subseteq PlicStores(VCPU)
      /\ irqc \in Plics(irqc.cpu) /\ PlicMirrors(irqc) /\ OneEnables(irqc)
      /\ irqc.phys.pend = {} /\ irqc.pend = {}
  BY <1>1 DEF RvWellFormed, OneCpuEach, PlicAtRest
<1>3. \A v \in VCPU : todo[v] = <<>> /\ held[v] = {}
  BY <1>1
<1>4. \A v \in VCPU : PlicSteps(v) /\ InService(v)
  BY <1>3, Entries DEF PlicSteps, InService
<1>5. \A v \in VCPU : Signalled(v)
  BY <1>2 DEF Signalled, PlicShows
<1> QED
  BY <1>1, <1>2, <1>4, <1>5 DEF PlicInv

(* It says what the properties say of a PLIC.                               *)
LEMMA PlicIsSafe ==
    ASSUME PlicInv, Plic
    PROVE  RiscvMirrors /\ RiscvNotLost /\ RiscvSignalled
<1>1. RiscvMirrors /\ RiscvNotLost
  BY DEF PlicInv, Plic, RiscvMirrors, RiscvNotLost
<1>2. ASSUME Quiet, NEW i \in PlicIntp, Takers(i) # {} PROVE Takers(i) \cap irqc.line # {}
  <2>1. PICK v \in Takers(i) : TRUE
    BY <1>2
  <2>2. v \in VCPU /\ PlicShows(irqc, v)
    BY DEF Takers, PlicShows
  <2>3. /\ irqc.inbox[v] = 0 /\ \A u \in VCPU : todo[u] = <<>>
    BY <1>2, <2>2 DEF Quiet
  <2>7. ~(irqc.inbox[v] > 0)
    BY <2>3
  <2>8. \A u \in VCPU : todo[u] # <<Line(v)>> /\ \A j \in PlicIntp : todo[u] # <<Complete(j), Line(v)>>
    BY <2>3, Entries
  <2>4. ~Coming(v)
    BY <2>2, <2>7, <2>8 DEF Coming
  <2>5. Signalled(v)
    BY <2>2 DEF PlicInv
  <2>6. ~\E t \in PlicIntp : todo[v] = <<Store(t)>>
    BY <2>2, <2>3, Entries
  <2> QED
    BY <2>2, <2>4, <2>5, <2>6 DEF Signalled
<1> QED
  BY <1>1, <1>2 DEF RiscvSignalled, Plic

(* Some pending and enabled interrupt is delivered to v.                    *)
AplicShows(a, v) ==
    /\ v \in a.idelivery /\ a.domain_ie
    /\ \E i \in a.ip \cap a.ie : /\ a.target[i].hart = v /\ a.target[i].lo < APLIC_MIN_PRIO
                                 /\ a.ithreshold[v] = 0 \/ a.target[i].lo < a.ithreshold[v]

(* What vaplic_update_topi can return.                                      *)
Updates == [topi : Nat, up : BOOLEAN]

(* vaplic_update_topi finds an interrupt exactly if there is one to show,   *)
(* and the line is up then.                                                 *)
LEMMA Topi ==
    ASSUME NEW cpu, NEW a \in Aplics(cpu), NEW v \in DOMAIN cpu
    PROVE  LET t == vaplic_update_topi(a, v)
           IN  t \in Updates /\ (t.topi # 0 <=> AplicShows(a, v)) /\ (t.topi # 0 => t.up)
<1> DEFINE S == Candidates(a, v)
           f == [i \in Intp |-> 0 - a.target[i].lo]
           t == vaplic_update_topi(a, v)
           on == v \in a.idelivery /\ a.domain_ie
           top == /\ S # {} /\ on
                  /\ a.ithreshold[v] = 0 \/ a.target[Best(a, S)].lo < a.ithreshold[v]
<1> SUFFICES t \in Updates /\ (t.topi # 0 <=> AplicShows(a, v)) /\ (t.topi # 0 => t.up)
  OBVIOUS
<1>1. /\ a.ip \subseteq Intp /\ a.ithreshold[v] \in Nat
      /\ \A i \in Intp : a.target[i].lo \in Nat
      /\ \A i \in Intp : i \in Nat /\ i # 0
  BY VAplicAssumption DEF Aplics, Intp
<1>2. S \subseteq Intp /\ \A i \in S : f[i] \in Int
  BY <1>1 DEF Candidates
<1>3. ASSUME S # {}
      PROVE  Best(a, S) \in S /\ \A j \in S : a.target[Best(a, S)].lo <= a.target[j].lo
  <2>1. APLIC_MAX_INTERRUPTS - 1 \in Nat
    BY <1>2, <1>3, VAplicAssumption DEF Intp
  <2>2. \E i \in S : First(S, f, i)
    <3> HIDE DEF S, f
    <3> QED
      BY <1>2, <1>3, <2>1, FirstExists DEF Intp
  <2>3. PICK i \in S : First(S, f, i)
    BY <2>2
  <2>4. \A j \in S : \/ a.target[i].lo < a.target[j].lo
                     \/ a.target[i].lo = a.target[j].lo /\ i <= j
    <3>1. SUFFICES ASSUME NEW j \in S PROVE \/ a.target[i].lo < a.target[j].lo
                                            \/ a.target[i].lo = a.target[j].lo /\ i <= j
      OBVIOUS
    <3>2. f[i] = 0 - a.target[i].lo /\ f[j] = 0 - a.target[j].lo
      BY <1>2
    <3>3. a.target[i].lo \in Nat /\ a.target[j].lo \in Nat
      BY <1>1, <1>2
    <3>4. f[i] > f[j] \/ (f[i] = f[j] /\ i <= j)
      BY <2>3 DEF First
    <3> HIDE DEF S, f
    <3> QED
      BY <3>2, <3>3, <3>4
  <2> HIDE DEF S
  <2>5. /\ Best(a, S) \in S
        /\ \A j \in S : \/ a.target[Best(a, S)].lo < a.target[j].lo
                        \/ a.target[Best(a, S)].lo = a.target[j].lo /\ Best(a, S) <= j
    BY <2>4 DEF Best
  <2> QED
    BY <1>1, <1>2, <2>5
<1>4. t = [topi |-> IF top THEN Best(a, S) ELSE 0, up |-> top \/ (v \in a.iforce /\ on)]
  BY DEF vaplic_update_topi
<1>5. AplicShows(a, v) <=> on /\ \E i \in S : a.ithreshold[v] = 0 \/ a.target[i].lo < a.ithreshold[v]
  BY DEF AplicShows, Candidates
<1>6. top <=> AplicShows(a, v)
  <2>1. \A i \in S : i \in Intp /\ a.target[i].lo \in Nat
    BY <1>1, <1>2
  <2> HIDE DEF S
  <2>2. CASE S = {}
    BY <1>5, <2>2
  <2>3. CASE S # {}
    BY <1>1, <1>3, <1>5, <2>1, <2>3
  <2> QED
    BY <2>2, <2>3
<1>7. top => Best(a, S) \in Nat /\ Best(a, S) # 0
  BY <1>1, <1>2, <1>3
<1> HIDE DEF S, on
<1>8. t.topi = (IF top THEN Best(a, S) ELSE 0) /\ t.up = (top \/ (v \in a.iforce /\ on))
  BY <1>4
<1> HIDE DEF top
<1>9. t \in Updates
  BY <1>4, <1>7 DEF Updates
<1> QED
  BY <1>6, <1>7, <1>8, <1>9

(* What an update of lines leaves alone.                                    *)
AplicSame(a, r) ==
    /\ r.aia = a.aia /\ r.cpu = a.cpu /\ r.hw = a.hw /\ r.domain_ie = a.domain_ie
    /\ r.srccfg = a.srccfg /\ r.active = a.active /\ r.ie = a.ie /\ r.target = a.target
    /\ r.idelivery = a.idelivery /\ r.ithreshold = a.ithreshold /\ r.phys = a.phys

(* CPU c updated the lines of the harts H: its own it set, the others it    *)
(* sent a message.                                                          *)
IdcTold(a, r, c, H) ==
    \A u \in DOMAIN a.cpu :
        /\ u \in H /\ u # c => r.inbox[u] > 0
        /\ ~(u \in H /\ u # c) => r.inbox[u] = a.inbox[u]
        /\ ~(u \in H /\ u = c) => (u \in r.line <=> u \in a.line) /\ r.topi[u] = a.topi[u]
        /\ u \in H /\ u = c => (AplicShows(a, u) => u \in r.line /\ r.topi[u] # 0)

(* The line and topi of v are set, and nothing else.                        *)
LEMMA LineSet ==
    ASSUME NEW cpu, NEW a \in Aplics(cpu), NEW v \in DOMAIN cpu, NEW t \in Updates
    PROVE  /\ SetLine(a, v, t) \in Aplics(cpu) /\ AplicSame(a, SetLine(a, v, t))
           /\ SetLine(a, v, t).ip = a.ip /\ SetLine(a, v, t).msi = a.msi
           /\ SetLine(a, v, t).inbox = a.inbox
           /\ \A u \in DOMAIN cpu :
                  /\ SetLine(a, v, t).topi[u] = IF u = v THEN t.topi ELSE a.topi[u]
                  /\ u \in SetLine(a, v, t).line <=> IF u = v THEN t.up ELSE u \in a.line
<1> DEFINE topi == [a.topi EXCEPT ![v] = t.topi]
           line == IF t.up THEN a.line \cup {v} ELSE a.line \ {v}
           r == SetLine(a, v, t)
<1>1. topi \in [DOMAIN cpu -> Nat] /\ line \in SUBSET DOMAIN cpu
  BY DEF Aplics, Updates
<1>2. r = [a EXCEPT !.topi = topi, !.line = line]
  BY DEF SetLine, Aplics
<1> HIDE DEF topi, line
<1>3. r \in Aplics(cpu)
  BY <1>1, <1>2, ZenonT(40) DEF Aplics
<1>4. AplicSame(a, r) /\ r.ip = a.ip /\ r.msi = a.msi /\ r.inbox = a.inbox /\ r.topi = topi /\ r.line = line
  BY <1>2 DEF Aplics, AplicSame
<1>5. \A u \in DOMAIN cpu : /\ topi[u] = IF u = v THEN t.topi ELSE a.topi[u]
                            /\ u \in line <=> IF u = v THEN t.up ELSE u \in a.line
  BY DEF topi, line, Aplics, Updates
<1> QED
  BY <1>3, <1>4, <1>5

(* vaplic_update_hart_line, for any number of updates of each hart.         *)
LEMMA HartLine ==
    ASSUME NEW cpu, OneCpuEach(cpu), NEW a \in Aplics(cpu), NEW c \in DOMAIN cpu,
           NEW times \in [DOMAIN cpu -> Nat]
    PROVE  LET r == vaplic_update_hart_line(a, c, times)
           IN  /\ r \in Aplics(cpu) /\ AplicSame(a, r) /\ r.ip = a.ip /\ r.msi = a.msi
               /\ IdcTold(a, r, c, {u \in DOMAIN cpu : times[u] > 0})
<1> DEFINE r == vaplic_update_hart_line(a, c, times)
           o == OwnLine(a, c, times)
           H == {u \in DOMAIN cpu : times[u] > 0}
           t == vaplic_update_topi(a, c)
           inbox == [v \in DOMAIN cpu |-> IF v = c THEN o.inbox[v] ELSE o.inbox[v] + times[v]]
<1> SUFFICES r \in Aplics(cpu) /\ AplicSame(a, r) /\ r.ip = a.ip /\ r.msi = a.msi /\ IdcTold(a, r, c, H)
  OBVIOUS
<1>1. a.cpu = cpu /\ a.inbox \in [DOMAIN cpu -> Nat] /\ a.topi \in [DOMAIN cpu -> Nat]
      /\ a.line \subseteq DOMAIN cpu /\ \A v, w \in DOMAIN cpu : cpu[v] = cpu[w] => v = w
  BY DEF Aplics, OneCpuEach
<1>2. o = IF c \in H THEN SetLine(a, c, t) ELSE a
  BY <1>1 DEF OwnLine, Vcpus
<1>3. t \in Updates /\ (t.topi # 0 <=> AplicShows(a, c)) /\ (t.topi # 0 => t.up)
  BY Topi
<1> HIDE DEF t
<1> DEFINE s == SetLine(a, c, t)
<1>14. /\ s \in Aplics(cpu) /\ AplicSame(a, s) /\ s.ip = a.ip /\ s.msi = a.msi /\ s.inbox = a.inbox
       /\ \A u \in DOMAIN cpu : /\ s.topi[u] = IF u = c THEN t.topi ELSE a.topi[u]
                                /\ u \in s.line <=> IF u = c THEN t.up ELSE u \in a.line
  <2>1. t \in Updates
    BY <1>3
  <2> QED
    BY <2>1, LineSet
<1>15. o = IF c \in H THEN s ELSE a
  BY <1>2
<1> HIDE DEF s
<1>4. o \in Aplics(cpu) /\ AplicSame(a, o) /\ o.ip = a.ip /\ o.msi = a.msi /\ o.inbox = a.inbox
  BY <1>14, <1>15 DEF AplicSame
<1>5. \A u \in DOMAIN cpu :
          IF u = c /\ c \in H THEN AplicShows(a, u) => u \in o.line /\ o.topi[u] # 0
          ELSE (u \in o.line <=> u \in a.line) /\ o.topi[u] = a.topi[u]
  <2>1. CASE c \in H
    <3>1. o = s
      BY <1>15, <2>1
    <3>2. t.topi # 0 => t.up
      BY <1>3
    <3> QED
      BY <1>3, <1>14, <2>1, <3>1, <3>2
  <2>2. CASE c \notin H
    BY <1>2, <2>2
  <2> QED
    BY <2>1, <2>2
<1>6. r = [o EXCEPT !.inbox = [v \in Vcpus(a) |-> IF a.cpu[v] = a.cpu[c] THEN @[v] ELSE @[v] + times[v]]]
  BY DEF vaplic_update_hart_line
<1> HIDE DEF o, r
<1>7. inbox \in [DOMAIN cpu -> Nat]
  BY <1>1, <1>4
<1>8. r = [o EXCEPT !.inbox = inbox]
  <2>1. inbox = [v \in Vcpus(a) |-> IF a.cpu[v] = a.cpu[c] THEN o.inbox[v] ELSE o.inbox[v] + times[v]]
    BY <1>1 DEF Vcpus
  <2> HIDE DEF inbox
  <2> QED
    BY <1>4, <1>6, <2>1 DEF Aplics
<1>9. \A u \in DOMAIN cpu : /\ u \in H /\ u # c => inbox[u] > 0
                            /\ ~(u \in H /\ u # c) => inbox[u] = a.inbox[u]
  <2> SUFFICES ASSUME NEW u \in DOMAIN cpu
               PROVE  /\ u \in H /\ u # c => inbox[u] > 0
                      /\ ~(u \in H /\ u # c) => inbox[u] = a.inbox[u]
    OBVIOUS
  <2>1. inbox[u] = IF u = c THEN a.inbox[u] ELSE a.inbox[u] + times[u]
    BY <1>4
  <2>2. a.inbox[u] \in Nat /\ times[u] \in Nat /\ (u \in H <=> times[u] > 0)
    BY <1>1
  <2> HIDE DEF H, inbox
  <2> QED
    BY <2>1, <2>2
<1> HIDE DEF inbox, H
<1>10. r \in Aplics(cpu) /\ r.inbox = inbox /\ r.line = o.line /\ r.topi = o.topi
       /\ r.ip = o.ip /\ r.msi = o.msi
  BY <1>4, <1>7, <1>8 DEF Aplics
<1>11. AplicSame(o, r)
  BY <1>4, <1>8 DEF Aplics, AplicSame
<1>12. AplicSame(a, r)
  BY <1>4, <1>11 DEF AplicSame
<1>13. IdcTold(a, r, c, H)
  BY <1>1, <1>5, <1>9, <1>10 DEF IdcTold
<1> QED
  BY <1>4, <1>10, <1>12, <1>13

(* What is pending in the controller, or was sent to the guest's file.      *)
Holds(a) == a.ip \cup IF a.aia THEN {m.intp : m \in a.msi} ELSE {}

(* vaplic_forward_by_msi: what is pending and enabled becomes an MSI; an    *)
(* interrupt that leaves is in a file of the guest.                         *)
LEMMA MsiForward ==
    ASSUME NEW cpu, OneCpuEach(cpu), NEW a \in Aplics(cpu), NEW S \in SUBSET Intp
    PROVE  LET r == vaplic_forward_by_msi(a, S)
           IN  /\ r \in Aplics(cpu) /\ AplicSame(a, r) /\ r.ip = a.ip \ (S \cap a.ip \cap a.ie)
               /\ a.aia => Holds(a) \subseteq Holds(r)
<1> DEFINE out == S \cap a.ip \cap a.ie
           M(i) == [cpu |-> a.cpu[a.target[i].hart], guest |-> VS_FILE_IDX,
                    eiid |-> a.target[i].lo, intp |-> i]
           msi == a.msi \cup {M(i) : i \in out}
           r == vaplic_forward_by_msi(a, S)
<1> SUFFICES /\ r \in Aplics(cpu) /\ AplicSame(a, r) /\ r.ip = a.ip \ out
             /\ a.aia => Holds(a) \subseteq Holds(r)
  OBVIOUS
<1>1. /\ a.cpu = cpu /\ a.ip \subseteq Intp /\ a.msi \subseteq Msis
      /\ \A i \in Intp : a.target[i].hart \in DOMAIN cpu /\ a.target[i].lo \in Nat
  BY DEF Aplics
<1>2. ASSUME NEW i \in out PROVE M(i) \in Msis /\ M(i).intp = i
  <2>1. i \in Intp /\ cpu[a.target[i].hart] \in Nat /\ a.target[i].lo \in Nat
    BY <1>1 DEF OneCpuEach
  <2> QED
    BY <1>1, <2>1 DEF Msis, VS_FILE_IDX
<1>3. msi \subseteq Msis /\ \A i \in out : \E m \in msi : m.intp = i
  <2>1. \A i \in out : M(i) \in msi
    OBVIOUS
  <2>2. \A i \in out : M(i) \in Msis /\ M(i).intp = i
    BY <1>2
  <2> HIDE DEF M, out
  <2> QED
    BY <1>1, <2>1, <2>2
<1>4. a.msi \subseteq msi
  OBVIOUS
<1>5. r = [a EXCEPT !.ip = a.ip \ out, !.msi = msi]
  BY <1>1 DEF vaplic_forward_by_msi, Aplics
<1> HIDE DEF M, msi
<1>6. a.ip \ out \subseteq Intp
  BY <1>1
<1> HIDE DEF out
<1>7. r \in Aplics(cpu)
  BY <1>3, <1>5, <1>6, ZenonT(40) DEF Aplics
<1>8. AplicSame(a, r) /\ r.ip = a.ip \ out /\ r.msi = msi
  BY <1>5 DEF Aplics, AplicSame
<1>9. a.aia => Holds(a) \subseteq Holds(r)
  <2>1. r.aia = a.aia
    BY <1>8 DEF AplicSame
  <2> HIDE DEF r
  <2> SUFFICES ASSUME a.aia, NEW i \in Holds(a) PROVE i \in r.ip \/ \E m \in r.msi : m.intp = i
    BY <2>1 DEF Holds
  <2>2. i \in a.ip \/ \E m \in a.msi : m.intp = i
    BY DEF Holds
  <2> QED
    BY <1>3, <1>4, <1>8, <2>2
<1> QED
  BY <1>7, <1>8, <1>9

(* A controller a after the harts H were updated for the interrupts S.      *)
Updated(a, r, c, H, S) ==
    /\ r \in Aplics(a.cpu) /\ AplicSame(a, r) /\ Holds(a) \subseteq Holds(r)
    /\ ~a.aia => r.ip = a.ip /\ IdcTold(a, r, c, H)
    /\ a.aia => r.ip = IF a.domain_ie THEN a.ip \ (S \cap a.ie) ELSE a.ip

(* vaplic_update_hart does one or the other, for one hart or for all.       *)
LEMMA HartUpdated ==
    ASSUME NEW cpu, OneCpuEach(cpu), NEW a \in Aplics(cpu), NEW c \in DOMAIN cpu,
           NEW v \in DOMAIN cpu \cup {UPDATE_ALL_HARTS}, NEW irq \in Intp \cup {INVALID_IRQID}
    PROVE  Updated(a, vaplic_update_hart(a, c, v, irq), c,
                   IF v = UPDATE_ALL_HARTS THEN DOMAIN cpu ELSE {v},
                   IF irq = INVALID_IRQID THEN Intp ELSE {irq})
<1> DEFINE r == vaplic_update_hart(a, c, v, irq)
           H == IF v = UPDATE_ALL_HARTS THEN DOMAIN cpu ELSE {v}
           S == IF irq = INVALID_IRQID THEN Intp ELSE {irq}
<1>0. a.cpu = cpu /\ a.ip \subseteq Intp /\ S \in SUBSET Intp
  BY DEF Aplics
<1>1. CASE a.aia /\ a.domain_ie
  <2>1. r = vaplic_forward_by_msi(a, S)
    BY <1>1 DEF vaplic_update_hart
  <2> HIDE DEF r, S
  <2>2. /\ r \in Aplics(cpu) /\ AplicSame(a, r) /\ r.ip = a.ip \ (S \cap a.ip \cap a.ie)
        /\ a.aia => Holds(a) \subseteq Holds(r)
    BY <1>0, <2>1, MsiForward
  <2>3. a.ip \ (S \cap a.ip \cap a.ie) = a.ip \ (S \cap a.ie)
    OBVIOUS
  <2>4. Updated(a, r, c, H, S)
    BY <1>0, <1>1, <2>2, <2>3 DEF Updated
  <2> QED
    BY <2>4 DEF r, S
<1>2. CASE a.aia /\ ~a.domain_ie
  <2>1. r = a
    BY <1>2 DEF vaplic_update_hart
  <2>2. Updated(a, a, c, H, S)
    BY <1>0, <1>2 DEF Updated, AplicSame
  <2> QED
    BY <2>1, <2>2
<1>3. CASE ~a.aia
  <2> DEFINE times == IF v = UPDATE_ALL_HARTS THEN [u \in DOMAIN cpu |-> 1]
                      ELSE [u \in DOMAIN cpu |-> IF u = v THEN 1 ELSE 0]
  <2>1. v # UPDATE_ALL_HARTS => v \in DOMAIN cpu
    OBVIOUS
  <2>2. r = vaplic_update_hart_line(a, c, times)
    BY <1>0, <1>3, <2>1 DEF vaplic_update_hart, Vcpus
  <2>3. times \in [DOMAIN cpu -> Nat] /\ {u \in DOMAIN cpu : times[u] > 0} = H
    BY <2>1
  <2> HIDE DEF times, r, H
  <2>4. /\ r \in Aplics(cpu) /\ AplicSame(a, r) /\ r.ip = a.ip /\ r.msi = a.msi
        /\ IdcTold(a, r, c, {u \in DOMAIN cpu : times[u] > 0})
    BY <2>2, <2>3, HartLine
  <2>5. Holds(a) \subseteq Holds(r)
    BY <2>4 DEF Holds, AplicSame
  <2>6. Updated(a, r, c, H, S)
    BY <1>0, <1>3, <2>3, <2>4, <2>5 DEF Updated
  <2> QED
    BY <2>6 DEF r, H
<1> QED
  BY <1>1, <1>2, <1>3

(* The update for one interrupt.                                            *)
LEMMA IntpUpdated ==
    ASSUME NEW cpu, OneCpuEach(cpu), NEW a \in Aplics(cpu), NEW c \in DOMAIN cpu, NEW i \in Intp
    PROVE  Updated(a, UpdateIntp(a, c, i), c, {a.target[i].hart}, {i})
<1>1. a.target[i].hart \in DOMAIN cpu
  BY DEF Aplics
<1>2. a.target[i].hart # UPDATE_ALL_HARTS /\ i # INVALID_IRQID
  BY <1>1, VAplicAssumption DEF OneCpuEach, UPDATE_ALL_HARTS, INVALID_IRQID, Intp
<1> QED
  BY <1>1, <1>2, HartUpdated DEF UpdateIntp

(* The loop that does so for a set of interrupts.                           *)
LEMMA IntpsUpdated ==
    ASSUME NEW cpu, OneCpuEach(cpu), NEW a \in Aplics(cpu), NEW c \in DOMAIN cpu,
           NEW S \in SUBSET Intp
    PROVE  Updated(a, UpdateIntps(a, c, S), c, {a.target[i].hart : i \in S}, S)
<1> DEFINE r == UpdateIntps(a, c, S)
           H == {a.target[i].hart : i \in S}
           times == [u \in DOMAIN cpu |-> Cardinality({i \in S : a.target[i].hart = u})]
<1> SUFFICES Updated(a, r, c, H, S)
  OBVIOUS
<1>0. a.cpu = cpu /\ a.ip \subseteq Intp
  BY DEF Aplics
<1>1. CASE a.aia /\ a.domain_ie
  <2>1. r = vaplic_forward_by_msi(a, S)
    BY <1>1 DEF UpdateIntps
  <2> HIDE DEF r
  <2>2. /\ r \in Aplics(cpu) /\ AplicSame(a, r) /\ r.ip = a.ip \ (S \cap a.ip \cap a.ie)
        /\ a.aia => Holds(a) \subseteq Holds(r)
    BY <1>0, <2>1, MsiForward
  <2>3. a.ip \ (S \cap a.ip \cap a.ie) = a.ip \ (S \cap a.ie)
    OBVIOUS
  <2> QED
    BY <1>0, <1>1, <2>2, <2>3 DEF Updated
<1>2. CASE a.aia /\ ~a.domain_ie
  <2>1. r = a
    BY <1>2 DEF UpdateIntps
  <2> HIDE DEF r
  <2> QED
    BY <1>0, <1>2, <2>1 DEF Updated, AplicSame
<1>3. CASE ~a.aia
  <2>1. r = vaplic_update_hart_line(a, c, times)
    BY <1>0, <1>3 DEF UpdateIntps, Vcpus
  <2>2. IsFiniteSet(Intp)
    BY FS_Interval, VAplicAssumption DEF Intp
  <2>3. ASSUME NEW u \in DOMAIN cpu
        PROVE  times[u] \in Nat /\ (times[u] > 0 <=> u \in H)
    <3> DEFINE T == {i \in S : a.target[i].hart = u}
    <3>1. IsFiniteSet(T)
      BY <2>2, FS_Subset
    <3>2. times[u] = Cardinality(T) /\ (T = {} <=> u \notin H)
      OBVIOUS
    <3> HIDE DEF T, times, H
    <3>3. Cardinality(T) \in Nat /\ (Cardinality(T) = 0 <=> T = {})
      BY <3>1, FS_CardinalityType, FS_EmptySet
    <3> QED
      BY <3>2, <3>3
  <2>4. times \in [DOMAIN cpu -> Nat]
    BY <2>3
  <2>5. H \subseteq DOMAIN cpu
    BY DEF Aplics
  <2>6. {u \in DOMAIN cpu : times[u] > 0} = H
    <3> HIDE DEF times, H
    <3> QED
      BY <2>3, <2>5
  <2> HIDE DEF times, r, H
  <2>7. /\ r \in Aplics(cpu) /\ AplicSame(a, r) /\ r.ip = a.ip /\ r.msi = a.msi
        /\ IdcTold(a, r, c, {u \in DOMAIN cpu : times[u] > 0})
    BY <2>1, <2>4, HartLine
  <2>8. Holds(a) \subseteq Holds(r)
    BY <2>7 DEF Holds, AplicSame
  <2> QED
    BY <1>0, <1>3, <2>6, <2>7, <2>8 DEF Updated
<1> QED
  BY <1>1, <1>2, <1>3

(* Two updates one after the other are one of both harts.                   *)
LEMMA UpdatedTwice ==
    ASSUME NEW cpu, NEW a \in Aplics(cpu), NEW b, NEW r, NEW c, NEW H, NEW K, NEW S,
           Updated(a, b, c, H, S), Updated(b, r, c, K, S)
    PROVE  Updated(a, r, c, H \cup K, S)
<1>1. a.cpu = cpu /\ AplicSame(a, b) /\ AplicSame(b, r)
  BY DEF Aplics, Updated
<1>2. AplicSame(a, r) /\ Holds(a) \subseteq Holds(r) /\ r \in Aplics(cpu)
  BY <1>1 DEF Updated, AplicSame
<1>3. b.aia = a.aia /\ b.ie = a.ie /\ b.domain_ie = a.domain_ie /\ b.cpu = a.cpu
  BY <1>1 DEF AplicSame
<1>4. ASSUME ~a.aia PROVE r.ip = a.ip /\ IdcTold(a, r, c, H \cup K)
  <2>1. /\ b.ip = a.ip /\ IdcTold(a, b, c, H)
        /\ r.ip = b.ip /\ IdcTold(b, r, c, K)
    BY <1>3, <1>4 DEF Updated
  <2>2. \A u : AplicShows(b, u) <=> AplicShows(a, u)
    BY <1>1, <2>1 DEF AplicShows, AplicSame
  <2> QED
    BY <1>3, <2>1, <2>2 DEF IdcTold
<1>5. ASSUME a.aia PROVE r.ip = IF a.domain_ie THEN a.ip \ (S \cap a.ie) ELSE a.ip
  BY <1>3, <1>5 DEF Updated
<1> QED
  BY <1>1, <1>2, <1>4, <1>5 DEF Updated

(* A state of the controller between two steps.                             *)
AplicGood(a) ==
    /\ a \in Aplics(a.cpu) /\ AplicMirrors(a) /\ SourcesConsistent(a)
    /\ a.aia /\ a.domain_ie => a.ip \cap a.ie = {}

(* Nothing more is shown to u, whose line and messages are the same.        *)
AplicKept(a, r, u) ==
    /\ r.inbox[u] = a.inbox[u] /\ (u \in r.line <=> u \in a.line) /\ r.topi[u] = a.topi[u]
    /\ AplicShows(r, u) => AplicShows(a, u)

(* What u may take in r it was told of by c, or could take in a already,    *)
(* with the same line and messages.                                         *)
AplicTold(a, r, c) ==
    \A u \in DOMAIN a.cpu :
        \/ r.inbox[u] > 0
        \/ u = c /\ (AplicShows(r, u) => u \in r.line /\ r.topi[u] # 0)
        \/ AplicKept(a, r, u)

(* CPU c did a handler of the controller: it is good again, the harts are   *)
(* told, and an interrupt is only given up if it is in G.                   *)
AplicStored(a, r, c, G) ==
    /\ AplicGood(r) /\ r.cpu = a.cpu /\ r.aia = a.aia
    /\ ~a.aia => AplicTold(a, r, c)
    /\ a.phys.pend \cup Holds(a) \subseteq r.phys.pend \cup Holds(r) \cup G

(* A store that is ignored.                                                 *)
LEMMA NothingStored ==
    ASSUME NEW a, AplicGood(a), NEW c, NEW G
    PROVE  AplicStored(a, a, c, G)
  BY DEF AplicStored, AplicTold, AplicKept

(* What a store changes before it updates the harts H for the interrupts S. *)
Changed(a, b, H, S, G) ==
    /\ AplicMirrors(b) /\ SourcesConsistent(b) /\ b.aia = a.aia
    /\ b.line = a.line /\ b.topi = a.topi /\ b.inbox = a.inbox /\ b.msi = a.msi
    /\ ~a.aia => \A u \in DOMAIN a.cpu \ H : AplicShows(b, u) => AplicShows(a, u)
    /\ b.aia /\ b.domain_ie => b.ip \cap b.ie \subseteq S
    /\ a.phys.pend \cup a.ip \subseteq b.phys.pend \cup b.ip \cup G

(* A handler that changes the bits and then updates the harts concerned.    *)
LEMMA StoreDone ==
    ASSUME NEW cpu, NEW a \in Aplics(cpu), NEW b \in Aplics(cpu), NEW c \in DOMAIN cpu,
           NEW H, NEW S, NEW G, Changed(a, b, H, S, G), NEW r, Updated(b, r, c, H, S)
    PROVE  AplicStored(a, r, c, G) /\ r.active = b.active
<1>0. /\ AplicMirrors(b) /\ SourcesConsistent(b) /\ b.aia = a.aia
      /\ b.line = a.line /\ b.topi = a.topi /\ b.inbox = a.inbox /\ b.msi = a.msi
      /\ b.aia /\ b.domain_ie => b.ip \cap b.ie \subseteq S
      /\ a.phys.pend \cup a.ip \subseteq b.phys.pend \cup b.ip \cup G
  BY DEF Changed
<1>10. ~a.aia => \A u \in DOMAIN a.cpu \ H : AplicShows(b, u) => AplicShows(a, u)
  BY DEF Changed
<1>1. a.cpu = cpu /\ b.cpu = cpu /\ AplicSame(b, r) /\ r \in Aplics(cpu)
  BY DEF Aplics, Updated
<1>2. AplicMirrors(r) /\ SourcesConsistent(r)
  BY <1>0, <1>1 DEF AplicMirrors, SourcesConsistent, AplicSame, Vcpus
<1>3. r.aia = b.aia /\ r.cpu = b.cpu /\ r.domain_ie = b.domain_ie /\ r.ie = b.ie /\ r.phys = b.phys
      /\ r.active = b.active
  BY <1>1 DEF AplicSame
<1>4. r.aia /\ r.domain_ie => r.ip \cap r.ie = {}
  <2> SUFFICES ASSUME r.aia, r.domain_ie PROVE r.ip \cap r.ie = {}
    OBVIOUS
  <2>1. r.ip = b.ip \ (S \cap b.ie)
    BY <1>3 DEF Updated
  <2> QED
    BY <1>0, <1>3, <2>1
<1>5. AplicGood(r)
  BY <1>1, <1>2, <1>3, <1>4 DEF AplicGood
<1>6. ASSUME ~a.aia PROVE AplicTold(a, r, c)
  <2>1. r.ip = b.ip /\ IdcTold(b, r, c, H)
    BY <1>0, <1>6 DEF Updated
  <2>2. \A u : AplicShows(r, u) <=> AplicShows(b, u)
    BY <1>1, <2>1 DEF AplicShows, AplicSame
  <2>3. ASSUME NEW u \in DOMAIN cpu
        PROVE  \/ r.inbox[u] > 0
               \/ u = c /\ (AplicShows(r, u) => u \in r.line /\ r.topi[u] # 0)
               \/ AplicKept(a, r, u)
    <3>1. CASE u \in H
      BY <1>0, <1>1, <2>1, <2>2, <3>1 DEF IdcTold
    <3>2. CASE u \notin H
      BY <1>0, <1>10, <1>1, <1>6, <2>1, <2>2, <3>2 DEF IdcTold, AplicKept
    <3> QED
      BY <3>1, <3>2
  <2> QED
    BY <1>1, <2>3 DEF AplicTold
<1>7. a.phys.pend \cup Holds(a) \subseteq r.phys.pend \cup Holds(r) \cup G
  <2>1. Holds(b) \subseteq Holds(r)
    BY DEF Updated
  <2>2. Holds(a) \subseteq Holds(b) \cup a.ip
    BY <1>0 DEF Holds
  <2>3. b.ip \subseteq Holds(b)
    BY DEF Holds
  <2> QED
    BY <1>0, <1>3, <2>1, <2>2, <2>3
<1> QED
  BY <1>0, <1>1, <1>3, <1>5, <1>6, <1>7 DEF AplicStored

(* Steps that change what is pending, and ones that change what is enabled. *)
AplicRest(a, b) ==
    /\ b.aia = a.aia /\ b.cpu = a.cpu /\ b.hw = a.hw /\ b.domain_ie = a.domain_ie
    /\ b.srccfg = a.srccfg /\ b.active = a.active /\ b.target = a.target
    /\ b.idelivery = a.idelivery /\ b.ithreshold = a.ithreshold
    /\ b.line = a.line /\ b.topi = a.topi /\ b.inbox = a.inbox
    /\ b.phys.srccfg = a.phys.srccfg /\ b.phys.target = a.phys.target

PendOnly(a, b) == AplicRest(a, b) /\ b.msi = a.msi /\ b.ie = a.ie /\ b.phys.ie = a.phys.ie
EnblOnly(a, b) == AplicRest(a, b) /\ b.msi = a.msi /\ b.ip = a.ip /\ b.phys.pend = a.phys.pend

(* New pending bits concern the hart of their interrupt.                    *)
LEMMA PendChanged ==
    ASSUME NEW a, AplicGood(a), NEW b, PendOnly(a, b), NEW H, NEW S, NEW G,
           \A i \in b.ip \ a.ip : a.target[i].hart \in H /\ i \in S,
           a.phys.pend \cup a.ip \subseteq b.phys.pend \cup b.ip \cup G
    PROVE  Changed(a, b, H, S, G)
<1>1. AplicMirrors(b) /\ SourcesConsistent(b)
  BY DEF AplicGood, AplicMirrors, SourcesConsistent, PendOnly, AplicRest
<1>2. \A u \in DOMAIN a.cpu \ H : AplicShows(b, u) => AplicShows(a, u)
  BY DEF AplicShows, PendOnly, AplicRest
<1>3. b.aia /\ b.domain_ie => b.ip \cap b.ie \subseteq S
  BY DEF AplicGood, PendOnly, AplicRest
<1> QED
  BY <1>1, <1>2, <1>3 DEF Changed, PendOnly, AplicRest

(* So do new enable bits.                                                   *)
LEMMA EnblChanged ==
    ASSUME NEW a, AplicGood(a), NEW b, EnblOnly(a, b), NEW H, NEW S,
           b.ie \subseteq a.active, b.phys.ie = b.ie \cap a.hw,
           \A i \in b.ie \ a.ie : a.target[i].hart \in H /\ i \in S
    PROVE  Changed(a, b, H, S, {})
<1>1. AplicMirrors(b) /\ SourcesConsistent(b)
  BY DEF AplicGood, AplicMirrors, SourcesConsistent, EnblOnly, AplicRest
<1>2. \A u \in DOMAIN a.cpu \ H : AplicShows(b, u) => AplicShows(a, u)
  BY DEF AplicShows, EnblOnly, AplicRest
<1>3. b.aia /\ b.domain_ie => b.ip \cap b.ie \subseteq S
  BY DEF AplicGood, EnblOnly, AplicRest
<1> QED
  BY <1>1, <1>2, <1>3 DEF Changed, EnblOnly, AplicRest

(* vaplic_set_setip.                                                        *)
LEMMA Setip ==
    ASSUME NEW cpu, OneCpuEach(cpu), NEW a \in Aplics(cpu), AplicGood(a), NEW c \in DOMAIN cpu,
           NEW T \in SUBSET Intp
    PROVE  AplicStored(a, vaplic_set_setip(a, c, T), c, {})
<1> DEFINE set == T \cap a.active
           S == set \ a.ip
           b == [a EXCEPT !.ip = @ \cup set]
           r == UpdateIntps(b, c, S)
           H == {b.target[i].hart : i \in S}
<1>1. b \in Aplics(cpu) /\ b.ip = a.ip \cup set /\ b.phys = a.phys /\ S \in SUBSET Intp
  BY DEF Aplics
<1>2. PendOnly(a, b) /\ b.target = a.target
  BY DEF Aplics, PendOnly, AplicRest
<1>3. vaplic_set_setip(a, c, T) = r
  BY DEF vaplic_set_setip
<1> HIDE DEF b
<1>4. Updated(b, r, c, H, S)
  BY <1>1, IntpsUpdated
<1>5. /\ \A i \in b.ip \ a.ip : a.target[i].hart \in H /\ i \in S
      /\ a.phys.pend \cup a.ip \subseteq b.phys.pend \cup b.ip \cup {}
  BY <1>1, <1>2
<1> HIDE DEF H, r, S
<1>6. Changed(a, b, H, S, {})
  BY <1>2, <1>5, PendChanged
<1>7. AplicStored(a, r, c, {})
  BY <1>1, <1>4, <1>6, StoreDone
<1> QED
  BY <1>3, <1>7

(* One interrupt becomes pending.                                           *)
LEMMA SetPend ==
    ASSUME NEW cpu, OneCpuEach(cpu), NEW a \in Aplics(cpu), AplicGood(a), NEW c \in DOMAIN cpu,
           NEW i \in Intp
    PROVE  /\ AplicStored(a, UpdateIntp(vaplic_set_pend(a, i), c, i), c, {})
           /\ UpdateIntp(vaplic_set_pend(a, i), c, i).phys = a.phys
           /\ i \in Holds(UpdateIntp(vaplic_set_pend(a, i), c, i))
<1> DEFINE b == vaplic_set_pend(a, i)
           r == UpdateIntp(b, c, i)
           H == {b.target[i].hart}
           S == {i}
<1>1. b \in Aplics(cpu) /\ b.ip = a.ip \cup {i} /\ b.phys = a.phys
  BY DEF Aplics, vaplic_set_pend
<1>2. PendOnly(a, b) /\ b.target = a.target
  BY DEF Aplics, PendOnly, AplicRest, vaplic_set_pend
<1> HIDE DEF b
<1>4. Updated(b, r, c, H, S)
  BY <1>1, IntpUpdated
<1>5. /\ \A j \in b.ip \ a.ip : a.target[j].hart \in H /\ j \in S
      /\ a.phys.pend \cup a.ip \subseteq b.phys.pend \cup b.ip \cup {}
  BY <1>1, <1>2
<1> HIDE DEF H, r, S
<1>6. Changed(a, b, H, S, {})
  BY <1>2, <1>5, PendChanged
<1>7. AplicStored(a, r, c, {})
  BY <1>1, <1>4, <1>6, StoreDone
<1>8. r.phys = a.phys /\ i \in Holds(r)
  BY <1>1, <1>4 DEF Updated, AplicSame, Holds
<1> QED
  BY <1>7, <1>8 DEF r, b

(* vaplic_set_setipnum.                                                     *)
LEMMA Setipnum ==
    ASSUME NEW cpu, OneCpuEach(cpu), NEW a \in Aplics(cpu), AplicGood(a), NEW c \in DOMAIN cpu,
           NEW i
    PROVE  AplicStored(a, vaplic_set_setipnum(a, c, i), c, {})
<1>1. CASE CanPend(a, i)
  <2>1. i \in Intp
    BY <1>1 DEF CanPend, vaplic_intp_valid
  <2> QED
    BY <1>1, <2>1, SetPend DEF vaplic_set_setipnum
<1>2. CASE ~CanPend(a, i)
  BY <1>2, NothingStored DEF vaplic_set_setipnum
<1> QED
  BY <1>1, <1>2

(* A range of pending bits is cleared, with no interrupt of a device on its *)
(* way.                                                                     *)
LEMMA InClrip ==
    ASSUME NEW cpu, OneCpuEach(cpu), NEW a \in Aplics(cpu), AplicGood(a), NEW c \in DOMAIN cpu,
           NEW T \in SUBSET Intp, a.phys.pend = {}
    PROVE  AplicStored(a, vaplic_set_in_clrip(a, c, T), c, T)
<1> DEFINE clr == T \cap a.active
           p == aplic_clr_pend_reg(a.phys, clr \cap a.hw)
           X == (a.ip \ clr) \cup p.pend
           b == [a EXCEPT !.ip = X, !.phys = p]
           S == a.ip \ X
           r == UpdateIntps(b, c, S)
           H == {b.target[i].hart : i \in S}
<1>1. p \in PhysicalAplics /\ p.pend = {} /\ p.srccfg = a.phys.srccfg /\ p.ie = a.phys.ie
      /\ p.target = a.phys.target
  BY DEF Aplics, PhysicalAplics, aplic_clr_pend_reg
<1>2. a.ip \subseteq Intp 
  BY DEF Aplics
<1>3. vaplic_set_in_clrip(a, c, T) = r
  BY DEF vaplic_set_in_clrip
<1> HIDE DEF p
<1>4. X \in SUBSET Intp /\ S \in SUBSET Intp /\ X \ a.ip = {}
  BY <1>1, <1>2
<1>5. b = [a EXCEPT !.phys = p, !.ip = X]
  BY DEF Aplics
<1> HIDE DEF X, b
<1>6. b \in Aplics(cpu) /\ PendOnly(a, b) /\ b.ip = X /\ b.phys = p
  <2>1. b \in Aplics(cpu) /\ b.ip = X /\ b.phys = p
    BY <1>1, <1>2, <1>4, <1>5 DEF Aplics
  <2>2. PendOnly(a, b)
    BY <1>1, <1>2, <1>4, <1>5 DEF Aplics, PendOnly, AplicRest
  <2> QED
    BY <2>1, <2>2
<1>7. Updated(b, r, c, H, S)
  BY <1>4, <1>6, IntpsUpdated
<1>8. /\ \A i \in b.ip \ a.ip : a.target[i].hart \in H /\ i \in S
      /\ a.phys.pend \cup a.ip \subseteq b.phys.pend \cup b.ip \cup T
  BY <1>4, <1>6 DEF X
<1> HIDE DEF H, r, S
<1>9. Changed(a, b, H, S, T)
  BY <1>6, <1>8, PendChanged
<1>10. AplicStored(a, r, c, T)
  BY <1>6, <1>7, <1>9, StoreDone
<1> QED
  BY <1>3, <1>10

(* vaplic_set_clripnum, which gives up the interrupt.                       *)
LEMMA Clripnum ==
    ASSUME NEW cpu, OneCpuEach(cpu), NEW a \in Aplics(cpu), AplicGood(a), NEW c \in DOMAIN cpu,
           NEW i
    PROVE  AplicStored(a, vaplic_set_clripnum(a, c, i), c, {i})
<1> DEFINE p == IF i \in a.hw THEN aplic_clr_pend_reg(a.phys, {i}) ELSE a.phys
           X == a.ip \ ({i} \ (a.hw \cap p.pend))
           b == [a EXCEPT !.phys = p, !.ip = X]
           r == UpdateIntp(b, c, i)
           H == {b.target[i].hart}
           S == {i}
<1>1. CASE i \in a.active /\ i \in a.ip
  <2>1. /\ p \in PhysicalAplics /\ p.srccfg = a.phys.srccfg /\ p.ie = a.phys.ie
        /\ p.target = a.phys.target /\ p.pend = IF i \in a.hw THEN a.phys.pend \ {i} ELSE a.phys.pend
    BY DEF Aplics, PhysicalAplics, aplic_clr_pend_reg
  <2>2. a.ip \subseteq Intp /\ i \in Intp
    BY <1>1 DEF Aplics
  <2>4. vaplic_set_clripnum(a, c, i) = r
    BY <1>1 DEF vaplic_set_clripnum
  <2> HIDE DEF p
  <2>5. X \in SUBSET Intp /\ X \ a.ip = {} /\ a.phys.pend \cup a.ip \subseteq p.pend \cup X \cup {i}
    BY <2>1, <2>2
  <2>6. b = [a EXCEPT !.phys = p, !.ip = X]
    BY DEF Aplics
  <2> HIDE DEF X, b
  <2>7. b \in Aplics(cpu) /\ PendOnly(a, b) /\ b.ip = X /\ b.phys = p
    <3>1. b \in Aplics(cpu) /\ b.ip = X /\ b.phys = p
      BY <2>1, <2>2, <2>5, <2>6 DEF Aplics
    <3>2. PendOnly(a, b)
      BY <2>1, <2>2, <2>5, <2>6 DEF Aplics, PendOnly, AplicRest
    <3> QED
      BY <3>1, <3>2
  <2>8. Updated(b, r, c, H, S)
    BY <2>2, <2>7, IntpUpdated
  <2>9. /\ \A j \in b.ip \ a.ip : a.target[j].hart \in H /\ j \in S
        /\ a.phys.pend \cup a.ip \subseteq b.phys.pend \cup b.ip \cup {i}
    BY <2>5, <2>7
  <2> HIDE DEF H, r, S
  <2>10. Changed(a, b, H, S, {i})
    BY <2>7, <2>9, PendChanged
  <2>11. AplicStored(a, r, c, {i})
    BY <2>7, <2>8, <2>10, StoreDone
  <2> QED
    BY <2>4, <2>11
<1>2. CASE ~(i \in a.active /\ i \in a.ip)
  <2>1. vaplic_set_clripnum(a, c, i) = a
    BY <1>2 DEF vaplic_set_clripnum
  <2> QED
    BY <2>1, NothingStored
<1> QED
  BY <1>1, <1>2

(* Interrupts are enabled: what the physical controller takes, it has.      *)
LEMMA PhysEnabled ==
    ASSUME NEW cpu, NEW a \in Aplics(cpu), AplicGood(a), NEW set \in SUBSET a.active
    PROVE  LET p == aplic_set_enbl_reg(a.phys, set \cap a.hw)
           IN  /\ p \in PhysicalAplics /\ p.ie = (a.ie \cup set) \cap a.hw
               /\ p.srccfg = a.phys.srccfg /\ p.pend = a.phys.pend /\ p.target = a.phys.target
<1> DEFINE p == aplic_set_enbl_reg(a.phys, set \cap a.hw)
           new == {i \in set \cap a.hw : a.phys.srccfg[i] # INACTIVE}
<1>1. new = set \cap a.hw
  BY DEF AplicGood, AplicMirrors, SourcesConsistent
<1>2. p = [a.phys EXCEPT !.ie = a.phys.ie \cup (set \cap a.hw)]
  BY <1>1 DEF aplic_set_enbl_reg, Aplics, PhysicalAplics
<1>3. a.phys \in PhysicalAplics /\ a.phys.ie \cup (set \cap a.hw) \subseteq Intp
      /\ a.phys.ie \cup (set \cap a.hw) = (a.ie \cup set) \cap a.hw
  BY DEF Aplics, PhysicalAplics, AplicGood, AplicMirrors
<1> HIDE DEF p
<1>4. p \in PhysicalAplics /\ p.ie = a.phys.ie \cup (set \cap a.hw)
      /\ p.srccfg = a.phys.srccfg /\ p.pend = a.phys.pend /\ p.target = a.phys.target
  BY <1>2, <1>3 DEF PhysicalAplics
<1> QED
  BY <1>3, <1>4 DEF p

(* aplic_clr_enbl_reg, of interrupts of the VM's devices.                   *)
LEMMA PhysDisabled ==
    ASSUME NEW cpu, NEW a \in Aplics(cpu), AplicGood(a), NEW clr \in SUBSET a.active
    PROVE  LET p == aplic_clr_enbl_reg(a.phys, clr \cap a.hw)
           IN  /\ p \in PhysicalAplics /\ p.ie = (a.ie \ clr) \cap a.hw
               /\ p.srccfg = a.phys.srccfg /\ p.pend = a.phys.pend /\ p.target = a.phys.target
<1> DEFINE p == aplic_clr_enbl_reg(a.phys, clr \cap a.hw)
<1>2. p = [a.phys EXCEPT !.ie = a.phys.ie \ (clr \cap a.hw)]
  BY DEF aplic_clr_enbl_reg, Aplics, PhysicalAplics
<1>3. a.phys \in PhysicalAplics /\ a.phys.ie \ (clr \cap a.hw) \subseteq Intp
      /\ a.phys.ie \ (clr \cap a.hw) = (a.ie \ clr) \cap a.hw
  BY DEF Aplics, PhysicalAplics, AplicGood, AplicMirrors
<1> HIDE DEF p
<1>4. p \in PhysicalAplics /\ p.ie = a.phys.ie \ (clr \cap a.hw)
      /\ p.srccfg = a.phys.srccfg /\ p.pend = a.phys.pend /\ p.target = a.phys.target
  BY <1>2, <1>3 DEF PhysicalAplics
<1> QED
  BY <1>3, <1>4 DEF p

(* vaplic_set_setie.                                                        *)
LEMMA Setie ==
    ASSUME NEW cpu, OneCpuEach(cpu), NEW a \in Aplics(cpu), AplicGood(a), NEW c \in DOMAIN cpu,
           NEW T \in SUBSET Intp
    PROVE  AplicStored(a, vaplic_set_setie(a, c, T), c, {})
<1> DEFINE set == T \cap a.active
           p == aplic_set_enbl_reg(a.phys, set \cap a.hw)
           b == [a EXCEPT !.ie = a.ie \cup set, !.phys = p]
           S == set \ a.ie
           r == UpdateIntps(b, c, S)
           H == {b.target[i].hart : i \in S}
<1>1. CASE T = a.ie
  BY <1>1, NothingStored DEF vaplic_set_setie
<1>2. CASE T # a.ie
  <2>1. b = [a EXCEPT !.ie = @ \cup set, !.phys = aplic_set_enbl_reg(@, set \cap a.hw)]
    BY DEF Aplics
  <2>2. vaplic_set_setie(a, c, T) = r
    BY <1>2, <2>1 DEF vaplic_set_setie
  <2>3. set \in SUBSET a.active /\ a.active \subseteq Intp /\ a.ie \subseteq a.active
    BY DEF Aplics, AplicGood, SourcesConsistent
  <2> HIDE DEF set
  <2>4. /\ p \in PhysicalAplics /\ p.ie = (a.ie \cup set) \cap a.hw
        /\ p.srccfg = a.phys.srccfg /\ p.pend = a.phys.pend /\ p.target = a.phys.target
    BY <2>3, PhysEnabled
  <2> HIDE DEF p
  <2>5. b \in Aplics(cpu) /\ b.ie = a.ie \cup set /\ b.phys = p
    BY <2>3, <2>4 DEF Aplics
  <2>6. EnblOnly(a, b) /\ b.target = a.target
    BY <2>4 DEF Aplics, EnblOnly, AplicRest
  <2>7. S \in SUBSET Intp /\ b.ie \subseteq a.active /\ b.phys.ie = b.ie \cap a.hw
    BY <2>3, <2>4, <2>5
  <2> HIDE DEF b
  <2>8. Updated(b, r, c, H, S)
    BY <2>5, <2>7, IntpsUpdated
  <2>9. \A i \in b.ie \ a.ie : a.target[i].hart \in H /\ i \in S
    BY <2>5, <2>6
  <2> HIDE DEF H, r, S
  <2>10. Changed(a, b, H, S, {})
    BY <2>6, <2>7, <2>9, EnblChanged
  <2>11. AplicStored(a, r, c, {})
    BY <2>5, <2>8, <2>10, StoreDone
  <2> QED
    BY <2>2, <2>11
<1> QED
  BY <1>1, <1>2

(* vaplic_set_setienum.                                                     *)
LEMMA Setienum ==
    ASSUME NEW cpu, OneCpuEach(cpu), NEW a \in Aplics(cpu), AplicGood(a), NEW c \in DOMAIN cpu,
           NEW i
    PROVE  AplicStored(a, vaplic_set_setienum(a, c, i), c, {})
<1> DEFINE p == IF i \in a.hw THEN aplic_set_enbl_reg(a.phys, {i}) ELSE a.phys
           b == [a EXCEPT !.phys = p, !.ie = a.ie \cup {i}]
           S == {i}
           r == UpdateIntp(b, c, i)
           H == {b.target[i].hart}
<1>1. CASE ~(i \in a.active /\ i \notin a.ie)
  BY <1>1, NothingStored DEF vaplic_set_setienum
<1>2. CASE i \in a.active /\ i \notin a.ie
  <2>1. b = [a EXCEPT !.phys = p, !.ie = @ \cup {i}]
    BY DEF Aplics
  <2>2. vaplic_set_setienum(a, c, i) = r
    BY <1>2, <2>1 DEF vaplic_set_setienum
  <2>3. S \in SUBSET a.active /\ a.active \subseteq Intp /\ a.ie \subseteq a.active
    BY <1>2 DEF Aplics, AplicGood, SourcesConsistent
  <2>4. /\ p \in PhysicalAplics /\ p.ie = (a.ie \cup {i}) \cap a.hw
        /\ p.srccfg = a.phys.srccfg /\ p.pend = a.phys.pend /\ p.target = a.phys.target
    <3>1. CASE i \in a.hw
      <4>1. S \cap a.hw = {i}
        BY <3>1
      <4> HIDE DEF S
      <4>2. p = aplic_set_enbl_reg(a.phys, S \cap a.hw)
        BY <3>1, <4>1
      <4> HIDE DEF p
      <4>3. /\ p \in PhysicalAplics /\ p.ie = (a.ie \cup S) \cap a.hw
            /\ p.srccfg = a.phys.srccfg /\ p.pend = a.phys.pend /\ p.target = a.phys.target
        BY <2>3, <4>2, PhysEnabled
      <4> QED
        BY <4>3 DEF S
    <3>2. CASE i \notin a.hw
      BY <3>2 DEF Aplics, AplicGood, AplicMirrors
    <3> QED
      BY <3>1, <3>2
  <2> HIDE DEF p
  <2>5. b \in Aplics(cpu) /\ b.ie = a.ie \cup {i} /\ b.phys = p
    BY <2>3, <2>4 DEF Aplics
  <2>6. EnblOnly(a, b) /\ b.target = a.target
    BY <2>4 DEF Aplics, EnblOnly, AplicRest
  <2>7. i \in Intp /\ b.ie \subseteq a.active /\ b.phys.ie = b.ie \cap a.hw
    BY <2>3, <2>4, <2>5
  <2> HIDE DEF b
  <2>8. Updated(b, r, c, H, S)
    BY <2>5, <2>7, IntpUpdated
  <2>9. \A j \in b.ie \ a.ie : a.target[j].hart \in H /\ j \in S
    BY <2>5, <2>6
  <2> HIDE DEF H, r, S
  <2>10. Changed(a, b, H, S, {})
    BY <2>6, <2>7, <2>9, EnblChanged
  <2>11. AplicStored(a, r, c, {})
    BY <2>5, <2>8, <2>10, StoreDone
  <2> QED
    BY <2>2, <2>11
<1> QED
  BY <1>1, <1>2

(* vaplic_set_clrie.                                                        *)
LEMMA Clrie ==
    ASSUME NEW cpu, OneCpuEach(cpu), NEW a \in Aplics(cpu), AplicGood(a), NEW c \in DOMAIN cpu,
           NEW T \in SUBSET Intp
    PROVE  AplicStored(a, vaplic_set_clrie(a, c, T), c, {})
<1> DEFINE clr == T \cap a.active
           p == aplic_clr_enbl_reg(a.phys, clr \cap a.hw)
           b == [a EXCEPT !.ie = a.ie \ clr, !.phys = p]
           S == a.ip \ clr
           r == UpdateIntps(b, c, S)
           H == {b.target[i].hart : i \in S}
<1>1. b = [a EXCEPT !.ie = @ \ clr, !.phys = aplic_clr_enbl_reg(@, clr \cap a.hw)]
  BY DEF Aplics
<1>2. vaplic_set_clrie(a, c, T) = r
  BY <1>1 DEF vaplic_set_clrie
<1>3. clr \in SUBSET a.active /\ a.active \subseteq Intp /\ a.ie \subseteq a.active /\ a.ip \subseteq Intp
  BY DEF Aplics, AplicGood, SourcesConsistent
<1> HIDE DEF clr
<1>4. /\ p \in PhysicalAplics /\ p.ie = (a.ie \ clr) \cap a.hw
      /\ p.srccfg = a.phys.srccfg /\ p.pend = a.phys.pend /\ p.target = a.phys.target
  BY <1>3, PhysDisabled
<1> HIDE DEF p
<1>5. b \in Aplics(cpu) /\ b.ie = a.ie \ clr /\ b.phys = p
  BY <1>3, <1>4 DEF Aplics
<1>6. EnblOnly(a, b)
  BY <1>4 DEF Aplics, EnblOnly, AplicRest
<1>7. S \in SUBSET Intp /\ b.ie \subseteq a.active /\ b.phys.ie = b.ie \cap a.hw
  BY <1>3, <1>4, <1>5
<1> HIDE DEF b
<1>8. Updated(b, r, c, H, S)
  BY <1>5, <1>7, IntpsUpdated
<1>9. \A i \in b.ie \ a.ie : a.target[i].hart \in H /\ i \in S
  BY <1>5
<1> HIDE DEF H, r, S
<1>10. Changed(a, b, H, S, {})
  BY <1>6, <1>7, <1>9, EnblChanged
<1>11. AplicStored(a, r, c, {})
  BY <1>5, <1>8, <1>10, StoreDone
<1> QED
  BY <1>2, <1>11

(* vaplic_set_clrienum.                                                     *)
LEMMA Clrienum ==
    ASSUME NEW cpu, OneCpuEach(cpu), NEW a \in Aplics(cpu), AplicGood(a), NEW c \in DOMAIN cpu,
           NEW i
    PROVE  AplicStored(a, vaplic_set_clrienum(a, c, i), c, {})
<1> DEFINE p == IF i \in a.hw THEN aplic_clr_enbl_reg(a.phys, {i}) ELSE a.phys
           b == [a EXCEPT !.phys = p, !.ie = a.ie \ {i}]
           S == {i}
           r == UpdateIntp(b, c, i)
           H == {b.target[i].hart}
<1>1. CASE ~(i \in a.active /\ i \in a.ie)
  BY <1>1, NothingStored DEF vaplic_set_clrienum
<1>2. CASE i \in a.active /\ i \in a.ie
  <2>1. b = [a EXCEPT !.phys = p, !.ie = @ \ {i}]
    BY DEF Aplics
  <2>2. vaplic_set_clrienum(a, c, i) = r
    BY <1>2, <2>1 DEF vaplic_set_clrienum
  <2>3. S \in SUBSET a.active /\ a.active \subseteq Intp /\ a.ie \subseteq a.active
    BY <1>2 DEF Aplics, AplicGood, SourcesConsistent
  <2>4. /\ p \in PhysicalAplics /\ p.ie = (a.ie \ {i}) \cap a.hw
        /\ p.srccfg = a.phys.srccfg /\ p.pend = a.phys.pend /\ p.target = a.phys.target
    <3>1. CASE i \in a.hw
      <4>1. S \cap a.hw = {i}
        BY <3>1
      <4> HIDE DEF S
      <4>2. p = aplic_clr_enbl_reg(a.phys, S \cap a.hw)
        BY <3>1, <4>1
      <4> HIDE DEF p
      <4>3. /\ p \in PhysicalAplics /\ p.ie = (a.ie \ S) \cap a.hw
            /\ p.srccfg = a.phys.srccfg /\ p.pend = a.phys.pend /\ p.target = a.phys.target
        BY <2>3, <4>2, PhysDisabled
      <4> QED
        BY <4>3 DEF S
    <3>2. CASE i \notin a.hw
      BY <3>2 DEF Aplics, AplicGood, AplicMirrors
    <3> QED
      BY <3>1, <3>2
  <2> HIDE DEF p
  <2>5. b \in Aplics(cpu) /\ b.ie = a.ie \ {i} /\ b.phys = p
    BY <2>3, <2>4 DEF Aplics
  <2>6. EnblOnly(a, b)
    BY <2>4 DEF Aplics, EnblOnly, AplicRest
  <2>7. i \in Intp /\ b.ie \subseteq a.active /\ b.phys.ie = b.ie \cap a.hw
    BY <2>3, <2>4, <2>5
  <2> HIDE DEF b
  <2>8. Updated(b, r, c, H, S)
    BY <2>5, <2>7, IntpUpdated
  <2>9. \A j \in b.ie \ a.ie : a.target[j].hart \in H /\ j \in S
    BY <2>5
  <2> HIDE DEF H, r, S
  <2>10. Changed(a, b, H, S, {})
    BY <2>6, <2>7, <2>9, EnblChanged
  <2>11. AplicStored(a, r, c, {})
    BY <2>5, <2>8, <2>10, StoreDone
  <2> QED
    BY <2>2, <2>11
<1> QED
  BY <1>1, <1>2

(* vaplic_set_domaincfg: all harts are updated when the domain is enabled   *)
(* or disabled.                                                             *)
LEMMA Domaincfg ==
    ASSUME NEW cpu, OneCpuEach(cpu), NEW a \in Aplics(cpu), AplicGood(a), NEW c \in DOMAIN cpu,
           NEW en \in BOOLEAN
    PROVE  AplicStored(a, vaplic_set_domaincfg(a, c, en), c, {})
<1> DEFINE b == [a EXCEPT !.domain_ie = en]
           r == vaplic_update_hart(b, c, UPDATE_ALL_HARTS, INVALID_IRQID)
<1>1. b \in Aplics(cpu)
  BY DEF Aplics
<1>2. /\ b.aia = a.aia /\ b.cpu = a.cpu /\ b.hw = a.hw /\ b.phys = a.phys
      /\ b.srccfg = a.srccfg /\ b.active = a.active /\ b.target = a.target /\ b.ie = a.ie
      /\ b.line = a.line /\ b.topi = a.topi /\ b.inbox = a.inbox /\ b.msi = a.msi /\ b.ip = a.ip
  BY DEF Aplics
<1>3. vaplic_set_domaincfg(a, c, en) = r
  BY DEF vaplic_set_domaincfg
<1>4. a.cpu = cpu /\ a.ip \subseteq Intp
  BY DEF Aplics
<1> HIDE DEF b
<1>5. Updated(b, r, c, DOMAIN cpu, Intp)
  BY <1>1, HartUpdated
<1> HIDE DEF r
<1>6. AplicMirrors(b) /\ SourcesConsistent(b)
  BY <1>2 DEF AplicGood, AplicMirrors, SourcesConsistent
<1>7. Changed(a, b, DOMAIN cpu, Intp, {})
  BY <1>2, <1>4, <1>6 DEF Changed
<1>8. AplicStored(a, r, c, {})
  BY <1>1, <1>5, <1>7, StoreDone
<1> QED
  BY <1>3, <1>8

(* The mode that is stored is a number.                                     *)
LEMMA Mode ==
    ASSUME NEW val \in Nat
    PROVE  SourceMode(val) \in Nat
<1>1. val % 8 \in Nat
  OBVIOUS
<1> QED
  BY <1>1 DEF SourceMode, INACTIVE

(* Only a source that becomes inactive loses something.                     *)
LEMMA Sourcecfg ==
    ASSUME NEW cpu, OneCpuEach(cpu), NEW a \in Aplics(cpu), AplicGood(a), NEW c \in DOMAIN cpu,
           NEW i, NEW val \in Nat
    PROVE  LET r == vaplic_set_sourcecfg(a, c, i, val) IN AplicStored(a, r, c, {i} \ r.active)
<1> DEFINE sm == SourceMode(val)
           p == IF i \in a.hw THEN aplic_set_sourcecfg(a.phys, i, sm) ELSE a.phys
           off == [a EXCEPT !.phys = p, !.srccfg[i] = sm, !.active = @ \ {i}, !.ip = @ \ {i},
                            !.ie = @ \ {i}, !.target[i] = NoTarget]
           on == [a EXCEPT !.phys = p, !.srccfg[i] = sm, !.active = @ \cup {i}]
           b == IF sm = INACTIVE THEN off ELSE on
           S == {i}
           H == {b.target[i].hart}
           G == {i} \ b.active
           r == UpdateIntp(b, c, i)
<1>1. CASE ~(vaplic_intp_valid(i) /\ a.srccfg[i] # val)
  <2>1. vaplic_set_sourcecfg(a, c, i, val) = a
    BY <1>1 DEF vaplic_set_sourcecfg
  <2> QED
    BY <2>1, NothingStored
<1>2. CASE vaplic_intp_valid(i) /\ a.srccfg[i] # val
  <2>1. i \in Intp /\ sm \in Nat
    BY <1>2, Mode DEF vaplic_intp_valid
  <2>2. vaplic_set_sourcecfg(a, c, i, val) = r
    BY <1>2 DEF vaplic_set_sourcecfg
  <2> HIDE DEF sm
  <2>3. /\ a.cpu = cpu /\ a.hw \subseteq Intp /\ a.srccfg \in [Intp -> Nat] /\ a.active \subseteq Intp
        /\ a.target \in [Intp -> [hart : DOMAIN cpu, lo : Nat]] /\ a.ip \subseteq Intp /\ a.ie \subseteq Intp
        /\ a.phys \in PhysicalAplics /\ 0 \in DOMAIN cpu
    BY DEF Aplics, OneCpuEach
  <2>4. NoTarget \in [hart : DOMAIN cpu, lo : Nat]
    BY <2>3 DEF NoTarget
  <2>5. /\ p \in PhysicalAplics /\ p.target = a.phys.target
        /\ p.srccfg = IF i \in a.hw THEN [a.phys.srccfg EXCEPT ![i] = sm] ELSE a.phys.srccfg
        /\ p.pend = IF i \in a.hw /\ sm = INACTIVE THEN a.phys.pend \ {i} ELSE a.phys.pend
        /\ p.ie = IF i \in a.hw /\ sm = INACTIVE THEN a.phys.ie \ {i} ELSE a.phys.ie
    <3> DEFINE src == [a.phys.srccfg EXCEPT ![i] = sm]
    <3>1. src \in [Intp -> Nat]
      BY <2>1, <2>3 DEF PhysicalAplics
    <3> HIDE DEF p
    <3>2. CASE i \in a.hw /\ sm = INACTIVE
      <4>1. p = [a.phys EXCEPT !.srccfg = src, !.pend = a.phys.pend \ {i}, !.ie = a.phys.ie \ {i}]
        BY <2>3, <3>2 DEF p, aplic_set_sourcecfg, PhysicalAplics
      <4> HIDE DEF src
      <4>2. p \in PhysicalAplics /\ p.srccfg = src /\ p.pend = a.phys.pend \ {i} /\ p.ie = a.phys.ie \ {i}
            /\ p.target = a.phys.target
        BY <2>3, <3>1, <4>1 DEF PhysicalAplics
      <4> QED
        BY <3>2, <4>2 DEF src
    <3>3. CASE i \in a.hw /\ sm # INACTIVE
      <4>1. p = [a.phys EXCEPT !.srccfg = src]
        BY <2>3, <3>3 DEF p, aplic_set_sourcecfg, PhysicalAplics
      <4> HIDE DEF src
      <4>2. p \in PhysicalAplics /\ p.srccfg = src /\ p.pend = a.phys.pend /\ p.ie = a.phys.ie
            /\ p.target = a.phys.target
        BY <2>3, <3>1, <4>1 DEF PhysicalAplics
      <4> QED
        BY <3>3, <4>2 DEF src
    <3>4. CASE i \notin a.hw
      BY <2>3, <3>4 DEF p
    <3> QED
      BY <3>2, <3>3, <3>4
  <2> HIDE DEF p
  <2> DEFINE src == [a.srccfg EXCEPT ![i] = sm]
             tgt == [a.target EXCEPT ![i] = NoTarget]
  <2>6. src \in [Intp -> Nat] /\ tgt \in [Intp -> [hart : DOMAIN cpu, lo : Nat]]
    BY <2>1, <2>3, <2>4
  <2>7. ASSUME sm = INACTIVE PROVE b \in Aplics(cpu) /\ Changed(a, b, H, S, G)
    <3>1. b = [a EXCEPT !.phys = p, !.srccfg = src, !.active = a.active \ {i}, !.ip = a.ip \ {i},
                        !.ie = a.ie \ {i}, !.target = tgt]
      BY <2>7 DEF Aplics
    <3> HIDE DEF b
    <3>2. /\ \A j \in Intp : src[j] = IF j = i THEN INACTIVE ELSE a.srccfg[j]
          /\ \A j \in Intp : tgt[j] = IF j = i THEN NoTarget ELSE a.target[j]
      BY <2>3, <2>7
    <3> HIDE DEF src, tgt
    <3>3. b \in Aplics(cpu) /\ b.phys = p /\ b.srccfg = src /\ b.active = a.active \ {i}
          /\ b.ip = a.ip \ {i} /\ b.ie = a.ie \ {i} /\ b.target = tgt
      <4>1. b \in Aplics(cpu)
        BY <2>3, <2>5, <2>6, <3>1, ZenonT(40) DEF Aplics
      <4>2. /\ b.phys = p /\ b.srccfg = src /\ b.active = a.active \ {i}
            /\ b.ip = a.ip \ {i} /\ b.ie = a.ie \ {i} /\ b.target = tgt
        BY <3>1 DEF Aplics
      <4> QED
        BY <4>1, <4>2
    <3>4. /\ b.aia = a.aia /\ b.cpu = a.cpu /\ b.hw = a.hw /\ b.domain_ie = a.domain_ie
          /\ b.idelivery = a.idelivery /\ b.ithreshold = a.ithreshold
          /\ b.line = a.line /\ b.topi = a.topi /\ b.inbox = a.inbox /\ b.msi = a.msi
      BY <3>1 DEF Aplics
    <3>5. SourcesConsistent(b)
      BY <2>3, <3>2, <3>3 DEF AplicGood, SourcesConsistent
    <3>6. AplicMirrors(b)
      <4>1. b.phys.ie = b.ie \cap b.hw
        BY <2>5, <2>7, <3>3, <3>4 DEF AplicGood, AplicMirrors
      <4>2. ASSUME NEW j \in a.hw
            PROVE  /\ b.phys.srccfg[j] = b.srccfg[j]
                   /\ b.target[j] # NoTarget => /\ b.phys.target[j].hart = b.cpu[b.target[j].hart]
                                                /\ b.phys.target[j].lo = b.target[j].lo
        <5>1. /\ a.phys.srccfg[j] = a.srccfg[j]
              /\ a.target[j] # NoTarget => /\ a.phys.target[j].hart = a.cpu[a.target[j].hart]
                                           /\ a.phys.target[j].lo = a.target[j].lo
          BY DEF AplicGood, AplicMirrors
        <5>2. j \in Intp /\ b.srccfg[j] = src[j] /\ b.target[j] = tgt[j] /\ b.cpu = a.cpu
          BY <2>3, <3>3, <3>4
        <5> HIDE DEF b
        <5>3. CASE j = i
          BY <2>3, <2>5, <2>7, <3>2, <3>3, <5>2, <5>3 DEF PhysicalAplics
        <5>4. CASE j # i
          BY <2>3, <2>5, <2>7, <3>2, <3>3, <5>1, <5>2, <5>4 DEF PhysicalAplics
        <5> QED
          BY <5>3, <5>4
      <4>3. ASSUME NEW j \in Intp \ a.hw
            PROVE  /\ b.phys.srccfg[j] = aplic_init.srccfg[j]
                   /\ b.phys.target[j] = aplic_init.target[j]
        <5>1. /\ a.phys.srccfg[j] = aplic_init.srccfg[j]
              /\ a.phys.target[j] = aplic_init.target[j]
          BY DEF AplicGood, AplicMirrors
        <5> QED
          BY <2>3, <2>5, <3>3, <5>1 DEF PhysicalAplics
      <4> QED
        BY <3>4, <4>1, <4>2, <4>3 DEF AplicMirrors
    <3>7. \A u \in DOMAIN cpu \ H : AplicShows(b, u) => AplicShows(a, u)
      BY <2>3, <3>2, <3>3, <3>4 DEF AplicShows
    <3>8. /\ b.aia /\ b.domain_ie => b.ip \cap b.ie \subseteq S
          /\ a.phys.pend \cup a.ip \subseteq b.phys.pend \cup b.ip \cup G
      BY <2>5, <3>3, <3>4 DEF AplicGood
    <3> HIDE DEF H, S, G
    <3>9. b \in Aplics(cpu) /\ Changed(a, b, H, S, G)
      BY <2>3, <3>3, <3>4, <3>5, <3>6, <3>7, <3>8 DEF Changed
    <3> QED
      BY <3>9
  <2>8. ASSUME sm # INACTIVE PROVE b \in Aplics(cpu) /\ Changed(a, b, H, S, G)
    <3>1. b = [a EXCEPT !.phys = p, !.srccfg = src, !.active = a.active \cup {i}]
      BY <2>8 DEF Aplics
    <3> HIDE DEF b
    <3>2. \A j \in Intp : src[j] = IF j = i THEN sm ELSE a.srccfg[j]
      BY <2>3
    <3> HIDE DEF src, tgt
    <3>3. b \in Aplics(cpu) /\ b.phys = p /\ b.srccfg = src /\ b.active = a.active \cup {i}
      <4>1. b \in Aplics(cpu)
        BY <2>1, <2>3, <2>5, <2>6, <3>1, ZenonT(40) DEF Aplics
      <4>2. b.phys = p /\ b.srccfg = src /\ b.active = a.active \cup {i}
        BY <3>1 DEF Aplics
      <4> QED
        BY <4>1, <4>2
    <3>4. /\ b.aia = a.aia /\ b.cpu = a.cpu /\ b.hw = a.hw /\ b.domain_ie = a.domain_ie
          /\ b.idelivery = a.idelivery /\ b.ithreshold = a.ithreshold
          /\ b.line = a.line /\ b.topi = a.topi /\ b.inbox = a.inbox /\ b.msi = a.msi
          /\ b.ip = a.ip /\ b.ie = a.ie /\ b.target = a.target
      BY <3>1 DEF Aplics
    <3>5. SourcesConsistent(b)
      BY <2>1, <2>3, <2>8, <3>2, <3>3, <3>4 DEF AplicGood, SourcesConsistent
    <3>6. AplicMirrors(b)
      <4>1. b.phys.ie = b.ie \cap b.hw
        BY <2>5, <2>8, <3>3, <3>4 DEF AplicGood, AplicMirrors
      <4>2. ASSUME NEW j \in a.hw
            PROVE  /\ b.phys.srccfg[j] = b.srccfg[j]
                   /\ b.target[j] # NoTarget => /\ b.phys.target[j].hart = b.cpu[b.target[j].hart]
                                                /\ b.phys.target[j].lo = b.target[j].lo
        BY <2>1, <2>3, <2>5, <2>8, <3>2, <3>3, <3>4 DEF AplicGood, AplicMirrors, PhysicalAplics
      <4>3. ASSUME NEW j \in Intp \ a.hw
            PROVE  /\ b.phys.srccfg[j] = aplic_init.srccfg[j]
                   /\ b.phys.target[j] = aplic_init.target[j]
        <5>1. /\ a.phys.srccfg[j] = aplic_init.srccfg[j]
              /\ a.phys.target[j] = aplic_init.target[j]
          BY DEF AplicGood, AplicMirrors
        <5> QED
          BY <2>3, <2>5, <3>3, <5>1 DEF PhysicalAplics
      <4> QED
        BY <3>4, <4>1, <4>2, <4>3 DEF AplicMirrors
    <3>7. \A u \in DOMAIN cpu \ H : AplicShows(b, u) => AplicShows(a, u)
      BY <3>4 DEF AplicShows
    <3>8. /\ b.aia /\ b.domain_ie => b.ip \cap b.ie \subseteq S
          /\ a.phys.pend \cup a.ip \subseteq b.phys.pend \cup b.ip \cup G
      BY <2>5, <2>8, <3>3, <3>4 DEF AplicGood
    <3> HIDE DEF H, S, G
    <3>9. b \in Aplics(cpu) /\ Changed(a, b, H, S, G)
      BY <2>3, <3>3, <3>4, <3>5, <3>6, <3>7, <3>8 DEF Changed
    <3> QED
      BY <3>9
  <2>9. b \in Aplics(cpu) /\ Changed(a, b, H, S, G)
    <3> HIDE DEF b
    <3> QED
      BY <2>7, <2>8
  <2> HIDE DEF b
  <2>10. Updated(b, r, c, H, S)
    BY <2>1, <2>9, IntpUpdated
  <2> HIDE DEF H, S, r
  <2>11. AplicStored(a, r, c, G) /\ r.active = b.active
    BY <2>9, <2>10, StoreDone
  <2> QED
    BY <2>2, <2>11
<1> QED
  BY <1>1, <1>2

(* vaplic_set_target: the old hart and the new one are updated.             *)
LEMMA Target ==
    ASSUME NEW cpu, OneCpuEach(cpu), NEW a \in Aplics(cpu), AplicGood(a), NEW c \in DOMAIN cpu,
           NEW i, NEW hart \in Nat, NEW low \in Nat
    PROVE  AplicStored(a, vaplic_set_target(a, c, i, hart, low), c, {})
<1> DEFINE h == IF hart \in Vcpus(a) THEN hart ELSE 0
           lo == IF ~a.aia /\ low = 0 THEN APLIC_TARGET_MAX_PRIO ELSE low
           guest == IF a.aia THEN VS_FILE_IDX ELSE a.phys.target[i].guest
           p == IF i \in a.hw THEN aplic_set_target(a.phys, i, a.cpu[h], guest, lo) ELSE a.phys
           prev == a.target[i].hart
           b == [a EXCEPT !.phys = p, !.target[i] = [hart |-> h, lo |-> lo]]
           b2 == IF prev # h THEN vaplic_update_hart(b, c, prev, i) ELSE b
           r == UpdateIntp(b2, c, i)
           S == {i}
<1>1. CASE ~(i \in a.active /\ a.target[i] # [hart |-> hart, lo |-> lo])
  <2>1. vaplic_set_target(a, c, i, hart, low) = a
    BY <1>1 DEF vaplic_set_target
  <2> QED
    BY <2>1, NothingStored
<1>2. CASE i \in a.active /\ a.target[i] # [hart |-> hart, lo |-> lo]
  <2>1. vaplic_set_target(a, c, i, hart, low) = r
    BY <1>2 DEF vaplic_set_target
  <2>2. /\ a.cpu = cpu /\ a.hw \subseteq Intp /\ a.active \subseteq Intp /\ i \in Intp
        /\ a.target \in [Intp -> [hart : DOMAIN cpu, lo : Nat]]
        /\ a.phys \in PhysicalAplics /\ 0 \in DOMAIN cpu /\ DOMAIN cpu \subseteq Nat
        /\ \A v \in DOMAIN cpu : cpu[v] \in Nat
    BY <1>2 DEF Aplics, OneCpuEach
  <2>3. h \in DOMAIN cpu /\ lo \in Nat /\ prev \in DOMAIN cpu /\ cpu[h] \in Nat /\ guest \in Nat
    BY <2>2 DEF Vcpus, APLIC_TARGET_MAX_PRIO, VS_FILE_IDX, PhysicalAplics
  <2> HIDE DEF h, lo, guest
  <2> DEFINE new == [hart |-> h, lo |-> lo]
             tgt == [a.target EXCEPT ![i] = new]
             pt == [hart |-> cpu[h], guest |-> guest, lo |-> lo]
             ptgt == [a.phys.target EXCEPT ![i] = pt]
  <2>4. tgt \in [Intp -> [hart : DOMAIN cpu, lo : Nat]] /\ tgt[i].hart = h /\ tgt[i].lo = lo
        /\ \A j \in Intp \ {i} : tgt[j] = a.target[j]
    BY <2>2, <2>3
  <2>5. ptgt \in [Intp -> [hart : Nat, guest : Nat, lo : Nat]]
        /\ ptgt[i].hart = cpu[h] /\ ptgt[i].lo = lo /\ \A j \in Intp \ {i} : ptgt[j] = a.phys.target[j]
    <3>1. pt \in [hart : Nat, guest : Nat, lo : Nat] /\ pt.hart = cpu[h] /\ pt.lo = lo
      BY <2>3
    <3> HIDE DEF pt
    <3> QED
      BY <2>2, <3>1 DEF PhysicalAplics
  <2>6. p = IF i \in a.hw THEN [a.phys EXCEPT !.target = ptgt] ELSE a.phys
    BY <2>2 DEF aplic_set_target, PhysicalAplics
  <2>7. b = [a EXCEPT !.phys = p, !.target = tgt]
    BY DEF Aplics
  <2> HIDE DEF ptgt, tgt, p, b, prev
  <2>8. /\ p \in PhysicalAplics /\ p.srccfg = a.phys.srccfg /\ p.pend = a.phys.pend /\ p.ie = a.phys.ie
        /\ p.target = IF i \in a.hw THEN ptgt ELSE a.phys.target
    BY <2>2, <2>5, <2>6 DEF PhysicalAplics
  <2>9. b \in Aplics(cpu) /\ b.phys = p /\ b.target = tgt
    BY <2>4, <2>7, <2>8 DEF Aplics
  <2>10. /\ b.aia = a.aia /\ b.cpu = a.cpu /\ b.hw = a.hw /\ b.domain_ie = a.domain_ie
         /\ b.srccfg = a.srccfg /\ b.active = a.active /\ b.ip = a.ip /\ b.ie = a.ie
         /\ b.idelivery = a.idelivery /\ b.ithreshold = a.ithreshold
         /\ b.line = a.line /\ b.topi = a.topi /\ b.inbox = a.inbox /\ b.msi = a.msi
    BY <2>7 DEF Aplics
  <2>11. AplicMirrors(b)
    <3>1. b.phys.ie = b.ie \cap b.hw
      BY <2>8, <2>9, <2>10 DEF AplicGood, AplicMirrors
    <3>2. ASSUME NEW j \in a.hw
          PROVE  /\ b.phys.srccfg[j] = b.srccfg[j]
                 /\ b.target[j] # NoTarget => /\ b.phys.target[j].hart = b.cpu[b.target[j].hart]
                                              /\ b.phys.target[j].lo = b.target[j].lo
      BY <2>2, <2>4, <2>5, <2>8, <2>9, <2>10 DEF AplicGood, AplicMirrors
    <3>3. ASSUME NEW j \in Intp \ a.hw
          PROVE  /\ b.phys.srccfg[j] = aplic_init.srccfg[j]
                 /\ b.phys.target[j] = aplic_init.target[j]
      BY <2>2, <2>5, <2>8, <2>9 DEF AplicGood, AplicMirrors
    <3> QED
      BY <2>10, <3>1, <3>2, <3>3 DEF AplicMirrors
  <2>12. SourcesConsistent(b)
    BY <2>10 DEF AplicGood, SourcesConsistent
  <2> DEFINE H == {prev} \cup {h}
  <2>13. \A u \in DOMAIN cpu \ H : AplicShows(b, u) => AplicShows(a, u)
    <3>1. a.ip \subseteq Intp
      BY DEF Aplics
    <3>2. \A u \in DOMAIN cpu \ H : \A j \in a.ip : tgt[j].hart = u => tgt[j] = a.target[j]
      BY <2>4, <3>1
    <3> QED
      BY <2>9, <2>10, <3>2 DEF AplicShows
  <2>14. /\ b.aia /\ b.domain_ie => b.ip \cap b.ie \subseteq S
         /\ a.phys.pend \cup a.ip \subseteq b.phys.pend \cup b.ip \cup {}
    BY <2>8, <2>9, <2>10 DEF AplicGood
  <2>15. Changed(a, b, H, S, {})
    BY <2>2, <2>10, <2>11, <2>12, <2>13, <2>14 DEF Changed
  <2>16. prev # UPDATE_ALL_HARTS /\ i # INVALID_IRQID
    <3>1. prev \in Nat
      BY <2>3 DEF OneCpuEach
    <3>2. i \in Nat
      BY <2>2, VAplicAssumption DEF Intp
    <3> QED
      BY <3>1, <3>2 DEF UPDATE_ALL_HARTS, INVALID_IRQID
  <2>17. prev # h => Updated(b, b2, c, {prev}, S)
    <3>1. Updated(b, vaplic_update_hart(b, c, prev, i), c, {prev}, S)
      BY <2>2, <2>3, <2>9, <2>16, HartUpdated
    <3> QED
      BY <3>1
  <2>18. b2 \in Aplics(cpu) /\ b2.target = tgt
    BY <2>2, <2>9, <2>10, <2>17 DEF Updated, AplicSame
  <2> HIDE DEF b2
  <2>19. Updated(b2, r, c, {h}, S)
    <3>1. Updated(b2, r, c, {b2.target[i].hart}, S)
      BY <2>2, <2>18, IntpUpdated
    <3> QED
      BY <2>4, <2>18, <3>1
  <2> HIDE DEF r
  <2>20. Updated(b, r, c, H, S)
    <3>1. CASE prev # h
      <4>1. Updated(b, b2, c, {prev}, S)
        BY <2>17, <3>1
      <4> QED
        BY <2>9, <2>19, <4>1, UpdatedTwice
    <3>2. CASE prev = h
      <4>1. b2 = b /\ H = {h}
        BY <3>2 DEF b2
      <4> QED
        BY <2>19, <4>1
    <3> QED
      BY <3>1, <3>2
  <2> HIDE DEF H, S
  <2>21. AplicStored(a, r, c, {})
    BY <2>9, <2>15, <2>20, StoreDone
  <2> QED
    BY <2>1, <2>21
<1> QED
  BY <1>1, <1>2

(* A store to a register of v's delivery control, or a claim on v: what is  *)
(* pending may go, and only v may get something to take.                    *)
LEMMA IdcStored ==
    ASSUME NEW cpu, OneCpuEach(cpu), NEW a \in Aplics(cpu), AplicGood(a), NEW c \in DOMAIN cpu,
           NEW v \in DOMAIN cpu, NEW b \in Aplics(cpu), NEW G,
           b.aia = a.aia, b.hw = a.hw, b.domain_ie = a.domain_ie, b.phys = a.phys,
           b.srccfg = a.srccfg, b.active = a.active, b.target = a.target, b.ie = a.ie,
           b.line = a.line, b.topi = a.topi, b.inbox = a.inbox, b.msi = a.msi,
           b.ip \subseteq a.ip, a.ip \subseteq b.ip \cup G,
           \A u \in DOMAIN cpu \ {v} : /\ u \in b.idelivery <=> u \in a.idelivery
                                       /\ b.ithreshold[u] = a.ithreshold[u]
    PROVE  AplicStored(a, UpdateIdc(b, c, v), c, G)
<1> DEFINE r == UpdateIdc(b, c, v)
<1>1. a.cpu = cpu /\ b.cpu = cpu
  BY DEF Aplics
<1>2. v # UPDATE_ALL_HARTS
  BY DEF OneCpuEach, UPDATE_ALL_HARTS
<1>3. Updated(b, r, c, {v}, Intp)
  BY <1>2, HartUpdated DEF UpdateIdc
<1> HIDE DEF r
<1>4. AplicMirrors(b) /\ SourcesConsistent(b)
  BY <1>1 DEF AplicGood, AplicMirrors, SourcesConsistent
<1>5. \A u \in DOMAIN cpu \ {v} : AplicShows(b, u) => AplicShows(a, u)
  BY DEF AplicShows
<1>6. b.ip \cap b.ie \subseteq Intp
  BY DEF Aplics
<1>7. a.phys.pend \cup a.ip \subseteq b.phys.pend \cup b.ip \cup G
  OBVIOUS
<1>8. Changed(a, b, {v}, Intp, G)
  BY <1>1, <1>4, <1>5, <1>6, <1>7 DEF Changed
<1>9. AplicStored(a, r, c, G)
  BY <1>3, <1>8, StoreDone
<1> QED
  BY <1>9 DEF r

(* There is nothing to update for a hart the VM does not have.              *)
LEMMA NoIdc ==
    ASSUME NEW cpu, OneCpuEach(cpu), NEW a \in Aplics(cpu), ~a.aia, NEW c, NEW v \in Nat,
           v \notin DOMAIN cpu
    PROVE  UpdateIdc(a, c, v) = a
<1>1. a.cpu = cpu /\ v # UPDATE_ALL_HARTS
  BY DEF Aplics, UPDATE_ALL_HARTS
<1> QED
  BY <1>1 DEF UpdateIdc, vaplic_update_hart, Vcpus

(* vaplic_idc_emul_handler, for idelivery, iforce and ithreshold.           *)
LEMMA IdcEmulated ==
    ASSUME NEW cpu, OneCpuEach(cpu), NEW a \in Aplics(cpu), AplicGood(a), NEW c \in DOMAIN cpu,
           ~a.aia, NEW w \in AplicStores, w.reg \in {"idelivery", "iforce", "ithreshold"}
    PROVE  AplicStored(a, vaplic_idc_emul_handler(a, c, w), c, {})
<1>0. Vcpus(a) = DOMAIN cpu /\ w.hart \in Nat
  BY DEF Aplics, Vcpus, AplicStores
<1>1. CASE w.reg = "idelivery"
  <2> DEFINE b == [a EXCEPT !.idelivery = IF w.en THEN @ \cup {w.hart} ELSE @ \ {w.hart}]
  <2>1. vaplic_idc_emul_handler(a, c, w) = vaplic_set_idelivery(a, c, w.hart, w.en)
    BY <1>1 DEF vaplic_idc_emul_handler
  <2>2. CASE w.hart \notin DOMAIN cpu
    BY <1>0, <2>1, <2>2, NoIdc, NothingStored DEF vaplic_set_idelivery
  <2>3. CASE w.hart \in DOMAIN cpu
    <3>1. vaplic_idc_emul_handler(a, c, w) = UpdateIdc(b, c, w.hart)
      BY <1>0, <2>1, <2>3 DEF vaplic_set_idelivery
    <3>2. /\ b \in Aplics(cpu) /\ b.aia = a.aia /\ b.hw = a.hw /\ b.domain_ie = a.domain_ie
          /\ b.phys = a.phys /\ b.srccfg = a.srccfg /\ b.active = a.active /\ b.target = a.target
          /\ b.ie = a.ie /\ b.line = a.line /\ b.topi = a.topi /\ b.inbox = a.inbox
          /\ b.msi = a.msi /\ b.ip = a.ip /\ b.ithreshold = a.ithreshold
      BY <2>3 DEF Aplics
    <3>3. \A u \in DOMAIN cpu \ {w.hart} : u \in b.idelivery <=> u \in a.idelivery
      BY DEF Aplics
    <3> HIDE DEF b
    <3>4. AplicStored(a, UpdateIdc(b, c, w.hart), c, {})
      BY <2>3, <3>2, <3>3, IdcStored
    <3> QED
      BY <3>1, <3>4
  <2> QED
    BY <2>2, <2>3
<1>2. CASE w.reg = "iforce"
  <2> DEFINE b == [a EXCEPT !.iforce = IF w.en THEN @ \cup {w.hart} ELSE @ \ {w.hart}]
  <2>1. vaplic_idc_emul_handler(a, c, w) = vaplic_set_iforce(a, c, w.hart, w.en)
    BY <1>2 DEF vaplic_idc_emul_handler
  <2>2. CASE w.hart \notin DOMAIN cpu
    BY <1>0, <2>1, <2>2, NoIdc, NothingStored DEF vaplic_set_iforce
  <2>3. CASE w.hart \in DOMAIN cpu
    <3>1. vaplic_idc_emul_handler(a, c, w) = UpdateIdc(b, c, w.hart)
      BY <1>0, <2>1, <2>3 DEF vaplic_set_iforce
    <3>2. /\ b \in Aplics(cpu) /\ b.aia = a.aia /\ b.hw = a.hw /\ b.domain_ie = a.domain_ie
          /\ b.phys = a.phys /\ b.srccfg = a.srccfg /\ b.active = a.active /\ b.target = a.target
          /\ b.ie = a.ie /\ b.line = a.line /\ b.topi = a.topi /\ b.inbox = a.inbox
          /\ b.msi = a.msi /\ b.ip = a.ip /\ b.ithreshold = a.ithreshold /\ b.idelivery = a.idelivery
      BY <2>3 DEF Aplics
    <3> HIDE DEF b
    <3>4. AplicStored(a, UpdateIdc(b, c, w.hart), c, {})
      BY <2>3, <3>2, IdcStored
    <3> QED
      BY <3>1, <3>4
  <2> QED
    BY <2>2, <2>3
<1>3. CASE w.reg = "ithreshold"
  <2> DEFINE b == [a EXCEPT !.ithreshold[w.hart] = w.lo]
  <2>1. vaplic_idc_emul_handler(a, c, w) = vaplic_set_ithreshold(a, c, w.hart, w.lo)
    BY <1>3 DEF vaplic_idc_emul_handler
  <2>2. CASE w.hart \notin DOMAIN cpu
    BY <1>0, <2>1, <2>2, NoIdc, NothingStored DEF vaplic_set_ithreshold
  <2>3. CASE w.hart \in DOMAIN cpu
    <3>1. vaplic_idc_emul_handler(a, c, w) = UpdateIdc(b, c, w.hart)
      BY <1>0, <2>1, <2>3 DEF vaplic_set_ithreshold
    <3>5. w.lo \in Nat
      BY <1>3 DEF AplicStores
    <3>2. /\ b \in Aplics(cpu) /\ b.aia = a.aia /\ b.hw = a.hw /\ b.domain_ie = a.domain_ie
          /\ b.phys = a.phys /\ b.srccfg = a.srccfg /\ b.active = a.active /\ b.target = a.target
          /\ b.ie = a.ie /\ b.line = a.line /\ b.topi = a.topi /\ b.inbox = a.inbox
          /\ b.msi = a.msi /\ b.ip = a.ip /\ b.idelivery = a.idelivery
      BY <2>3, <3>5 DEF Aplics
    <3>3. \A u \in DOMAIN cpu \ {w.hart} : b.ithreshold[u] = a.ithreshold[u]
      BY DEF Aplics
    <3> HIDE DEF b
    <3>4. AplicStored(a, UpdateIdc(b, c, w.hart), c, {})
      BY <2>3, <3>2, <3>3, IdcStored
    <3> QED
      BY <3>1, <3>4
  <2> QED
    BY <2>2, <2>3
<1> QED
  BY <1>1, <1>2, <1>3

(* vaplic_get_claimi gives up the interrupt that topi named.                *)
LEMMA Claimi ==
    ASSUME NEW cpu, OneCpuEach(cpu), NEW a \in Aplics(cpu), AplicGood(a), NEW v \in DOMAIN cpu
    PROVE  AplicStored(a, vaplic_get_claimi(a, v, v), v, {a.topi[v]})
<1> DEFINE b == [a EXCEPT !.ip = @ \ {a.topi[v]},
                          !.iforce = IF a.topi[v] = 0 THEN @ \ {v} ELSE @]
<1>1. vaplic_get_claimi(a, v, v) = UpdateIdc(b, v, v)
  BY DEF vaplic_get_claimi, Vcpus, Aplics
<1>2. /\ b \in Aplics(cpu) /\ b.aia = a.aia /\ b.hw = a.hw /\ b.domain_ie = a.domain_ie
      /\ b.phys = a.phys /\ b.srccfg = a.srccfg /\ b.active = a.active /\ b.target = a.target
      /\ b.ie = a.ie /\ b.line = a.line /\ b.topi = a.topi /\ b.inbox = a.inbox
      /\ b.msi = a.msi /\ b.ip = a.ip \ {a.topi[v]} /\ b.ithreshold = a.ithreshold
      /\ b.idelivery = a.idelivery
  BY DEF Aplics
<1> HIDE DEF b
<1>3. b.ip \subseteq a.ip /\ a.ip \subseteq b.ip \cup {a.topi[v]}
  BY <1>2
<1>4. AplicStored(a, UpdateIdc(b, v, v), v, {a.topi[v]})
  BY <1>2, <1>3, IdcStored
<1> QED
  BY <1>1, <1>4

(* A store of the guest, of which at most what it gives up itself is lost.  *)
LEMMA AplicEmulated ==
    ASSUME NEW cpu, OneCpuEach(cpu), NEW a \in Aplics(cpu), AplicGood(a), NEW c \in DOMAIN cpu,
           NEW w \in AplicStores, w.reg = "in_clrip" => a.phys.pend = {}
    PROVE  LET r == Emulate(a, c, w)
           IN  \E G : /\ AplicStored(a, r, c, G)
                      /\ G \ (r.phys.pend \cup Holds(r)) \subseteq GivenUp(w, r)
<1> DEFINE r == Emulate(a, c, w)
<1> SUFFICES \E G : /\ AplicStored(a, r, c, G)
                    /\ G \ (r.phys.pend \cup Holds(r)) \subseteq GivenUp(w, r)
  OBVIOUS
<1>1. ASSUME AplicStored(a, r, c, {})
      PROVE  \E G : AplicStored(a, r, c, G) /\ G \ (r.phys.pend \cup Holds(r)) \subseteq GivenUp(w, r)
  BY <1>1
<1>2. CASE w.reg \in {"idelivery", "iforce", "ithreshold"}
  <2>1. CASE a.aia
    <3>1. r = a
      BY <1>2, <2>1 DEF Emulate
    <3> QED
      BY <1>1, <3>1, NothingStored
  <2>2. CASE ~a.aia
    <3>1. r = vaplic_idc_emul_handler(a, c, w)
      BY <1>2, <2>2 DEF Emulate
    <3> HIDE DEF r
    <3> QED
      BY <1>1, <1>2, <2>2, <3>1, IdcEmulated
  <2> QED
    BY <2>1, <2>2
<1>3. CASE w.reg \notin {"idelivery", "iforce", "ithreshold"}
  <2>0. r = vaplic_domain_emul_handler(a, c, w)
    BY <1>3 DEF Emulate
  <2>1. CASE w.reg = "domaincfg"
    <3>1. w.en \in BOOLEAN /\ r = vaplic_set_domaincfg(a, c, w.en)
      BY <2>0, <2>1 DEF vaplic_domain_emul_handler, AplicStores
    <3> HIDE DEF r
    <3> QED
      BY <1>1, <3>1, Domaincfg
  <2>2. CASE w.reg = "sourcecfg"
    <3>1. w.val \in Nat /\ r = vaplic_set_sourcecfg(a, c, w.intp, w.val)
      BY <2>0, <2>2 DEF vaplic_domain_emul_handler, AplicStores
    <3>2. GivenUp(w, r) = {w.intp} \ r.active
      BY <2>2 DEF GivenUp
    <3> HIDE DEF r
    <3>3. AplicStored(a, r, c, {w.intp} \ r.active)
      BY <3>1, Sourcecfg
    <3> QED
      BY <3>2, <3>3
  <2>3. CASE w.reg = "target"
    <3>1. w.hart \in Nat /\ w.lo \in Nat /\ r = vaplic_set_target(a, c, w.intp, w.hart, w.lo)
      BY <2>0, <2>3 DEF vaplic_domain_emul_handler, AplicStores
    <3> HIDE DEF r
    <3> QED
      BY <1>1, <3>1, Target
  <2>4. CASE w.reg = "setip"
    <3>1. w.set \in SUBSET Intp /\ r = vaplic_set_setip(a, c, w.set)
      BY <2>0, <2>4 DEF vaplic_domain_emul_handler, EmulatePend, AplicStores
    <3> HIDE DEF r
    <3> QED
      BY <1>1, <3>1, Setip
  <2>5. CASE w.reg = "setipnum"
    <3>1. r = vaplic_set_setipnum(a, c, w.intp)
      BY <2>0, <2>5 DEF vaplic_domain_emul_handler, EmulatePend
    <3> HIDE DEF r
    <3> QED
      BY <1>1, <3>1, Setipnum
  <2>6. CASE w.reg = "in_clrip"
    <3>1. w.set \in SUBSET Intp /\ r = vaplic_set_in_clrip(a, c, w.set)
      BY <2>0, <2>6 DEF vaplic_domain_emul_handler, EmulatePend, AplicStores
    <3>2. GivenUp(w, r) = w.set \ (r.ip \cup r.phys.pend)
      BY <2>6 DEF GivenUp
    <3> HIDE DEF r
    <3>3. AplicStored(a, r, c, w.set)
      BY <2>6, <3>1, InClrip
    <3> QED
      BY <3>2, <3>3 DEF Holds
  <2>7. CASE w.reg = "clripnum"
    <3>1. r = vaplic_set_clripnum(a, c, w.intp)
      BY <2>0, <2>7 DEF vaplic_domain_emul_handler, EmulatePend
    <3>2. GivenUp(w, r) = {w.intp} \ (r.ip \cup r.phys.pend)
      BY <2>7 DEF GivenUp
    <3> HIDE DEF r
    <3>3. AplicStored(a, r, c, {w.intp})
      BY <3>1, Clripnum
    <3> QED
      BY <3>2, <3>3 DEF Holds
  <2>8. CASE w.reg = "setie"
    <3>1. w.set \in SUBSET Intp /\ r = vaplic_set_setie(a, c, w.set)
      BY <2>0, <2>8 DEF vaplic_domain_emul_handler, EmulateEnbl, AplicStores
    <3> HIDE DEF r
    <3> QED
      BY <1>1, <3>1, Setie
  <2>9. CASE w.reg = "setienum"
    <3>1. r = vaplic_set_setienum(a, c, w.intp)
      BY <2>0, <2>9 DEF vaplic_domain_emul_handler, EmulateEnbl
    <3> HIDE DEF r
    <3> QED
      BY <1>1, <3>1, Setienum
  <2>10. CASE w.reg = "clrie"
    <3>1. w.set \in SUBSET Intp /\ r = vaplic_set_clrie(a, c, w.set)
      BY <2>0, <2>10 DEF vaplic_domain_emul_handler, EmulateEnbl, AplicStores
    <3> HIDE DEF r
    <3> QED
      BY <1>1, <3>1, Clrie
  <2>11. CASE w.reg = "clrienum"
    <3>1. r = vaplic_set_clrienum(a, c, w.intp)
      BY <2>0, <2>11 DEF vaplic_domain_emul_handler, EmulateEnbl
    <3> HIDE DEF r
    <3> QED
      BY <1>1, <3>1, Clrienum
  <2> QED
    BY <1>3, <2>1, <2>2, <2>3, <2>4, <2>5, <2>6, <2>7, <2>8, <2>9, <2>10, <2>11 DEF AplicStores
<1> QED
  BY <1>2, <1>3

----------------------------------------------------------------------------
(* The APLIC of a VM at work.                                               *)

(* What a CPU can still have to do.                                         *)
AplicSteps(v) ==
    \/ todo[v] = <<>> \/ todo[v] = <<Line(v)>>
    \/ \E t \in Updates : todo[v] = <<Store(t)>>

(* An update of u's line is on its way, or what u may take is on its line   *)
(* and stays so with the store that its CPU has still to make.              *)
IdcSignalled(u) ==
    \/ irqc.inbox[u] > 0 \/ todo[u] = <<Line(u)>>
    \/ AplicShows(irqc, u) => \/ \E t \in Updates : todo[u] = <<Store(t)>> /\ t.topi # 0 /\ t.up
                              \/ todo[u] = <<>> /\ u \in irqc.line /\ irqc.topi[u] # 0

(* The inductive invariant of an APLIC. One that sends MSIs (AIA) has no    *)
(* lines: nothing stays pending and enabled in it while the domain is       *)
(* enabled.                                                                 *)
AplicInv ==
    /\ OneCpuEach(irqc.cpu) /\ Stores[port] \subseteq AplicStores
    /\ port = (IF irqc.aia THEN "aia" ELSE "aplic")
    /\ AplicGood(irqc)
    /\ todo = [v \in VCPU |-> todo[v]]
    /\ \A v \in VCPU : AplicSteps(v)
    /\ ~irqc.aia => \A v \in VCPU : IdcSignalled(v)
    /\ owed \subseteq irqc.phys.pend \cup Holds(irqc)

(* A handler that is done in one step.                                      *)
LEMMA AplicKeeps ==
    ASSUME AplicInv, NEW c \in VCPU, todo[c] = <<>>, todo' = todo, port' = port,
           NEW G, AplicStored(irqc, irqc', c, G),
           owed' \subseteq irqc'.phys.pend \cup Holds(irqc')
    PROVE  AplicInv'
<1>1. irqc'.cpu = irqc.cpu /\ irqc'.aia = irqc.aia /\ AplicGood(irqc') /\ VCPU' = VCPU
      /\ VCPU = DOMAIN irqc.cpu
  BY DEF AplicStored, VCPU
<1>2. \A v \in VCPU : AplicSteps(v)'
  BY DEF AplicInv, AplicSteps
<1>3. ASSUME ~irqc.aia, NEW u \in VCPU PROVE IdcSignalled(u)'
  <2>1. AplicTold(irqc, irqc', c) /\ IdcSignalled(u)
    BY <1>3 DEF AplicStored, AplicInv
  <2>2. CASE irqc'.inbox[u] > 0
    BY <2>2 DEF IdcSignalled
  <2>3. CASE u = c /\ (AplicShows(irqc', u) => u \in irqc'.line /\ irqc'.topi[u] # 0)
    BY <2>3 DEF IdcSignalled
  <2>4. CASE AplicKept(irqc, irqc', u)
    BY <2>1, <2>4 DEF IdcSignalled, AplicKept
  <2> QED
    BY <1>1, <2>1, <2>2, <2>3, <2>4 DEF AplicTold
<1> QED
  BY <1>1, <1>2, <1>3 DEF AplicInv

(* A step of which only the physical controller and the guest's file know.  *)
LEMMA AplicOutside ==
    ASSUME AplicInv, todo' = todo, port' = port, irqc' \in Aplics(irqc.cpu),
           AplicRest(irqc, irqc'), irqc'.ip = irqc.ip, irqc'.ie = irqc.ie,
           irqc'.phys.ie = irqc.phys.ie,
           owed' \subseteq irqc'.phys.pend \cup Holds(irqc')
    PROVE  AplicInv'
<1>1. irqc'.cpu = irqc.cpu /\ irqc'.aia = irqc.aia /\ VCPU' = VCPU /\ VCPU = DOMAIN irqc.cpu
  BY DEF AplicRest, VCPU
<1>2. AplicGood(irqc')
  <2>1. AplicMirrors(irqc') /\ SourcesConsistent(irqc')
    BY DEF AplicInv, AplicGood, AplicMirrors, SourcesConsistent, AplicRest
  <2> QED
    BY <1>1, <2>1 DEF AplicInv, AplicGood, AplicRest
<1>3. ASSUME ~irqc.aia, NEW u \in VCPU PROVE IdcSignalled(u)'
  <2>1. IdcSignalled(u)
    BY <1>3 DEF AplicInv
  <2>2. AplicShows(irqc', u) <=> AplicShows(irqc, u)
    BY DEF AplicShows, AplicRest
  <2>3. irqc'.inbox = irqc.inbox /\ irqc'.line = irqc.line /\ irqc'.topi = irqc.topi
    BY DEF AplicRest
  <2> QED
    BY <2>1, <2>2, <2>3 DEF IdcSignalled
<1>4. \A v \in VCPU : AplicSteps(v)'
  BY DEF AplicInv, AplicSteps
<1> QED
  BY <1>1, <1>2, <1>3, <1>4 DEF AplicInv

(* A store to any register of the domain or of an IDC                       *)
(* (vaplic_domain_emul_handler, vaplic_idc_emul_handler).                   *)
LEMMA AplicGuestStore ==
    ASSUME AplicInv, ~Plic, NEW v \in VCPU, GuestStore(v)
    PROVE  AplicInv'
<1> PICK w \in Stores[port] :
        /\ Disciplined(w)
        /\ irqc' = Emulate(irqc, v, w)
        /\ owed' = owed \ GivenUp(w, irqc')
        /\ UNCHANGED todo
  BY DEF GuestStore
<1>1. /\ OneCpuEach(irqc.cpu) /\ irqc \in Aplics(irqc.cpu) /\ AplicGood(irqc) /\ v \in DOMAIN irqc.cpu
      /\ w \in AplicStores /\ (w.reg = "in_clrip" => irqc.phys.pend = {})
      /\ todo[v] = <<>> /\ port' = port
  BY DEF AplicInv, AplicGood, GuestStore, Disciplined, VCPU
<1>2. PICK G : /\ AplicStored(irqc, irqc', v, G)
               /\ G \ (irqc'.phys.pend \cup Holds(irqc')) \subseteq GivenUp(w, irqc')
  BY <1>1, AplicEmulated
<1>3. owed' \subseteq irqc'.phys.pend \cup Holds(irqc')
  BY <1>2 DEF AplicInv, AplicStored
<1> QED
  BY <1>1, <1>2, <1>3, AplicKeeps

(* vaplic_get_claimi.                                                       *)
LEMMA AplicGuestClaim ==
    ASSUME AplicInv, ~Plic, NEW v \in VCPU, GuestClaim(v)
    PROVE  AplicInv'
<1>1. /\ OneCpuEach(irqc.cpu) /\ irqc \in Aplics(irqc.cpu) /\ AplicGood(irqc) /\ v \in DOMAIN irqc.cpu
      /\ todo[v] = <<>> /\ port' = port /\ todo' = todo /\ owed' = owed \ {irqc.topi[v]}
      /\ irqc' = vaplic_get_claimi(irqc, v, v)
  BY DEF AplicInv, AplicGood, GuestClaim, VCPU
<1>2. AplicStored(irqc, irqc', v, {irqc.topi[v]})
  BY <1>1, Claimi
<1>3. owed' \subseteq irqc'.phys.pend \cup Holds(irqc')
  BY <1>1, <1>2 DEF AplicInv, AplicStored
<1> QED
  BY <1>1, <1>2, <1>3, AplicKeeps

(* The guest takes an MSI.                                                  *)
LEMMA AplicGuestMsi ==
    ASSUME AplicInv, NEW v \in VCPU, GuestMsi(v)
    PROVE  AplicInv'
<1> PICK m \in irqc.msi : irqc' = [irqc EXCEPT !.msi = @ \ {m}] /\ owed' = owed \ {m.intp}
  BY DEF GuestMsi
<1>1. irqc \in Aplics(irqc.cpu) /\ irqc.aia
  BY DEF AplicInv, AplicGood, GuestMsi
<1>2. irqc' \in Aplics(irqc.cpu) /\ irqc'.msi = irqc.msi \ {m} /\ irqc'.aia = irqc.aia
      /\ irqc'.ip = irqc.ip /\ irqc'.ie = irqc.ie /\ irqc'.phys = irqc.phys
  BY <1>1 DEF Aplics
<1>3. AplicRest(irqc, irqc')
  BY <1>1 DEF Aplics, AplicRest
<1>4. owed' \subseteq irqc'.phys.pend \cup Holds(irqc')
  BY <1>1, <1>2 DEF AplicInv, Holds
<1>5. todo' = todo /\ port' = port
  BY DEF GuestMsi
<1> QED
  BY <1>2, <1>3, <1>4, <1>5, AplicOutside

(* The steps of a handler in several parts.                                 *)
LEMMA AplicUpdateLine ==
    ASSUME AplicInv, ~Plic, NEW v \in VCPU, UpdateLine(v)
    PROVE  AplicInv'
<1>1. /\ irqc \in Aplics(irqc.cpu) /\ AplicGood(irqc) /\ v \in DOMAIN irqc.cpu
      /\ VCPU = DOMAIN irqc.cpu /\ DOMAIN todo = VCPU /\ port' = port /\ owed' = owed
  BY DEF AplicInv, AplicGood, VCPU, UpdateLine
<1>2. todo[v] = <<Line(v)>>
  <2>1. todo[v] # <<>> /\ Head(todo[v]).do = "line" /\ AplicSteps(v)
    BY DEF UpdateLine, AplicInv
  <2> QED
    BY <2>1, Heads DEF AplicSteps
<1> DEFINE t == vaplic_update_topi(irqc, v)
<1>3. irqc' = irqc /\ todo' = [todo EXCEPT ![v] = <<Store(t)>> \o <<>>]
  BY <1>2, Heads DEF UpdateLine, Scan, Enter
<1>4. t \in Updates /\ (t.topi # 0 <=> AplicShows(irqc, v)) /\ (t.topi # 0 => t.up)
  BY <1>1, Topi
<1> HIDE DEF t
<1>5. <<Store(t)>> \o <<>> = <<Store(t)>>
  OBVIOUS
<1>6. \A u \in VCPU : todo'[u] = IF u = v THEN <<Store(t)>> ELSE todo[u]
  BY <1>1, <1>3, <1>5
<1>7. VCPU' = VCPU
  BY <1>3 DEF VCPU
<1>8. \A u \in VCPU : AplicSteps(u)'
  BY <1>4, <1>6 DEF AplicInv, AplicSteps
<1>9. ASSUME ~irqc.aia, NEW u \in VCPU PROVE IdcSignalled(u)'
  <2>1. IdcSignalled(u)
    BY <1>9 DEF AplicInv
  <2>2. CASE u = v
    <3>1. AplicShows(irqc, v) => t \in Updates /\ t.topi # 0 /\ t.up
      BY <1>4
    <3> QED
      BY <1>3, <1>6, <2>2, <3>1 DEF IdcSignalled
  <2>3. CASE u # v
    BY <1>3, <1>6, <2>1, <2>3 DEF IdcSignalled
  <2> QED
    BY <2>2, <2>3
<1>10. todo' = [u \in VCPU |-> todo'[u]]
  BY <1>3 DEF AplicInv
<1> QED
  BY <1>1, <1>3, <1>7, <1>8, <1>9, <1>10 DEF AplicInv

(* The line and topi are set to what was read, which may be out of date: if *)
(* something came in between, a message is on its way.                      *)
LEMMA AplicStoreLine ==
    ASSUME AplicInv, ~Plic, NEW v \in VCPU, StoreLine(v)
    PROVE  AplicInv'
<1>1. /\ irqc \in Aplics(irqc.cpu) /\ AplicGood(irqc) /\ v \in DOMAIN irqc.cpu
      /\ VCPU = DOMAIN irqc.cpu /\ DOMAIN todo = VCPU /\ port' = port /\ owed' = owed
  BY DEF AplicInv, AplicGood, VCPU, StoreLine
<1>2. PICK t \in Updates : todo[v] = <<Store(t)>>
  <2>1. todo[v] # <<>> /\ Head(todo[v]).do = "store" /\ AplicSteps(v)
    BY DEF StoreLine, AplicInv
  <2> QED
    BY <2>1, Heads DEF AplicSteps
<1>3. irqc' = SetLine(irqc, v, t) /\ todo' = [todo EXCEPT ![v] = <<>>]
  BY <1>2, Heads DEF StoreLine, Enter
<1>4. /\ irqc' \in Aplics(irqc.cpu) /\ AplicSame(irqc, irqc')
      /\ irqc'.ip = irqc.ip /\ irqc'.msi = irqc.msi /\ irqc'.inbox = irqc.inbox
      /\ \A u \in VCPU : /\ irqc'.topi[u] = IF u = v THEN t.topi ELSE irqc.topi[u]
                         /\ u \in irqc'.line <=> IF u = v THEN t.up ELSE u \in irqc.line
  BY <1>1, <1>3, LineSet
<1>5. \A u \in VCPU : todo'[u] = IF u = v THEN <<>> ELSE todo[u]
  BY <1>1, <1>3
<1>6. VCPU' = VCPU /\ irqc'.cpu = irqc.cpu /\ irqc'.aia = irqc.aia
  BY <1>4 DEF VCPU, AplicSame
<1>7. AplicGood(irqc')
  BY <1>1, <1>4 DEF AplicGood, AplicMirrors, SourcesConsistent, AplicSame
<1>8. \A u \in VCPU : AplicSteps(u)'
  BY <1>5 DEF AplicInv, AplicSteps
<1>9. ASSUME ~irqc.aia, NEW u \in VCPU PROVE IdcSignalled(u)'
  <2>1. IdcSignalled(u)
    BY <1>9 DEF AplicInv
  <2>2. AplicShows(irqc', u) <=> AplicShows(irqc, u)
    BY <1>4 DEF AplicShows, AplicSame
  <2>3. CASE u = v
    <3>1. todo[v] # <<Line(v)>> /\ todo[v] # <<>> /\ \A x \in Updates : todo[v] = <<Store(x)>> => x = t
      BY <1>2, Entries
    <3>2. irqc'.inbox[u] > 0 \/ (AplicShows(irqc, u) => t.topi # 0 /\ t.up)
      BY <1>4, <2>1, <2>3, <3>1 DEF IdcSignalled
    <3> QED
      BY <1>4, <1>5, <2>2, <2>3, <3>2 DEF IdcSignalled
  <2>4. CASE u # v
    BY <1>4, <1>5, <2>1, <2>2, <2>4 DEF IdcSignalled
  <2> QED
    BY <2>3, <2>4
<1>10. todo' = [u \in VCPU |-> todo'[u]]
  BY <1>3 DEF AplicInv
<1>11. owed' \subseteq irqc'.phys.pend \cup Holds(irqc')
  BY <1>1, <1>4 DEF AplicInv, Holds, AplicSame
<1> QED
  BY <1>1, <1>6, <1>7, <1>8, <1>9, <1>10, <1>11 DEF AplicInv

(* vaplic_ipi_handler.                                                      *)
LEMMA AplicIpi ==
    ASSUME AplicInv, NEW v \in VCPU, ipi_handler(v)
    PROVE  AplicInv'
<1>1. /\ irqc \in Aplics(irqc.cpu) /\ AplicGood(irqc) /\ v \in DOMAIN irqc.cpu
      /\ VCPU = DOMAIN irqc.cpu /\ DOMAIN todo = VCPU /\ port' = port /\ owed' = owed
      /\ irqc.inbox \in [DOMAIN irqc.cpu -> Nat]
  BY DEF AplicInv, AplicGood, VCPU, ipi_handler, Aplics
<1>2. /\ todo[v] = <<>> /\ irqc.inbox[v] > 0 /\ todo' = [todo EXCEPT ![v] = <<Line(v)>>]
      /\ irqc' = [irqc EXCEPT !.inbox[v] = @ - 1]
  BY DEF ipi_handler, Enter
<1>3. [irqc.inbox EXCEPT ![v] = @ - 1] \in [DOMAIN irqc.cpu -> Nat]
  BY <1>1, <1>2
<1>4. irqc' \in Aplics(irqc.cpu) /\ irqc'.inbox = [irqc.inbox EXCEPT ![v] = @ - 1]
  BY <1>1, <1>2, <1>3 DEF Aplics
<1>5. AplicSame(irqc, irqc') /\ irqc'.ip = irqc.ip /\ irqc'.msi = irqc.msi
      /\ irqc'.line = irqc.line /\ irqc'.topi = irqc.topi
  BY <1>1, <1>2 DEF Aplics, AplicSame
<1>6. \A u \in VCPU : /\ todo'[u] = IF u = v THEN <<Line(v)>> ELSE todo[u]
                      /\ u # v => irqc'.inbox[u] = irqc.inbox[u]
  BY <1>1, <1>2, <1>4
<1>7. VCPU' = VCPU /\ irqc'.cpu = irqc.cpu /\ irqc'.aia = irqc.aia
  BY <1>5 DEF VCPU, AplicSame
<1>8. AplicGood(irqc')
  BY <1>1, <1>4, <1>5 DEF AplicGood, AplicMirrors, SourcesConsistent, AplicSame
<1>9. \A u \in VCPU : AplicSteps(u)'
  BY <1>6 DEF AplicInv, AplicSteps
<1>10. ASSUME ~irqc.aia, NEW u \in VCPU PROVE IdcSignalled(u)'
  <2>1. IdcSignalled(u)
    BY <1>10 DEF AplicInv
  <2>2. AplicShows(irqc', u) <=> AplicShows(irqc, u)
    BY <1>5 DEF AplicShows, AplicSame
  <2> QED
    BY <1>5, <1>6, <2>1, <2>2 DEF IdcSignalled
<1>11. todo' = [u \in VCPU |-> todo'[u]]
  BY <1>2 DEF AplicInv
<1>12. owed' \subseteq irqc'.phys.pend \cup Holds(irqc')
  BY <1>1, <1>5 DEF AplicInv, Holds, AplicSame
<1> QED
  BY <1>1, <1>7, <1>8, <1>9, <1>10, <1>11, <1>12 DEF AplicInv

(* An injection of interrupt i.                                             *)
LEMMA Injected ==
    ASSUME NEW cpu, OneCpuEach(cpu), NEW a \in Aplics(cpu), AplicGood(a), NEW c \in DOMAIN cpu,
           NEW i \in Intp
    PROVE  LET r == vaplic_inject(a, c, i)
           IN  /\ AplicStored(a, r, c, {}) /\ r.phys = a.phys
               /\ i \in a.active => i \in Holds(r)
<1> DEFINE r == vaplic_inject(a, c, i)
           s == UpdateIntp(vaplic_set_pend(a, i), c, i)
<1>1. CASE CanPend(a, i)
  <2>1. r = s
    BY <1>1 DEF vaplic_inject
  <2>2. AplicStored(a, s, c, {}) /\ s.phys = a.phys /\ i \in Holds(s)
    BY SetPend
  <2> QED
    BY <2>1, <2>2
<1>2. CASE ~CanPend(a, i)
  <2>1. r = a
    BY <1>2 DEF vaplic_inject
  <2>2. i \in a.active => i \in Holds(a)
    BY <1>2 DEF CanPend, vaplic_intp_valid, Holds
  <2> QED
    BY <2>1, <2>2, NothingStored
<1> QED
  BY <1>1, <1>2

(* aplic_handle: the interrupt of a device is claimed physically and        *)
(* injected.                                                                *)
LEMMA AplicHandle ==
    ASSUME AplicInv, ~Plic, NEW v \in VCPU, irqc_handle(v)
    PROVE  AplicInv'
<1>1. /\ OneCpuEach(irqc.cpu) /\ irqc \in Aplics(irqc.cpu) /\ AplicGood(irqc) /\ v \in DOMAIN irqc.cpu
      /\ todo[v] = <<>> /\ port' = port /\ todo' = todo /\ owed' = owed
  BY DEF AplicInv, AplicGood, irqc_handle, VCPU
<1>2. PICK i \in aplic_presents(irqc, irqc.cpu[v]) : irqc' = aplic_handle(irqc, v, i)
  BY DEF irqc_handle
<1>3. i \in irqc.phys.pend /\ i \in Intp /\ i \in irqc.active
  BY <1>1, <1>2 DEF aplic_presents, AplicGood, AplicMirrors, SourcesConsistent, Aplics, PhysicalAplics
<1> DEFINE phys == [irqc.phys EXCEPT !.pend = @ \ {i}]
           b == [irqc EXCEPT !.phys.pend = @ \ {i}]
<1>4. phys \in PhysicalAplics /\ phys.pend = irqc.phys.pend \ {i} /\ phys.srccfg = irqc.phys.srccfg
      /\ phys.ie = irqc.phys.ie /\ phys.target = irqc.phys.target
  BY <1>1 DEF Aplics, PhysicalAplics
<1>5. b = [irqc EXCEPT !.phys = phys]
  BY <1>1 DEF Aplics
<1>6. irqc' = vaplic_inject(b, v, i)
  BY <1>2 DEF aplic_handle
<1> HIDE DEF b, phys
<1>7. b \in Aplics(irqc.cpu) /\ b.phys = phys
  BY <1>1, <1>4, <1>5 DEF Aplics
<1>8. PendOnly(irqc, b) /\ b.ip = irqc.ip
  BY <1>1, <1>4, <1>5 DEF Aplics, PendOnly, AplicRest
<1>9. AplicGood(b)
  <2>1. AplicMirrors(b) /\ SourcesConsistent(b)
    BY <1>1, <1>8 DEF AplicGood, AplicMirrors, SourcesConsistent, PendOnly, AplicRest
  <2> QED
    BY <1>1, <1>7, <1>8, <2>1 DEF AplicGood, PendOnly, AplicRest
<1>10. AplicStored(b, irqc', v, {}) /\ irqc'.phys = b.phys /\ i \in Holds(irqc')
  <2>1. i \in b.active
    BY <1>3, <1>8 DEF PendOnly, AplicRest
  <2> QED
    BY <1>1, <1>3, <1>6, <1>7, <1>9, <2>1, Injected
<1>11. \A u : AplicShows(b, u) <=> AplicShows(irqc, u)
  BY <1>8 DEF AplicShows, PendOnly, AplicRest
<1>12. Holds(b) = Holds(irqc)
  BY <1>8 DEF Holds, PendOnly, AplicRest
<1>13. owed' \subseteq irqc'.phys.pend \cup Holds(irqc')
  BY <1>1, <1>4, <1>7, <1>10, <1>12 DEF AplicInv, AplicStored
<1>14. AplicStored(irqc, irqc', v, {i})
  <2>1. AplicGood(irqc') /\ irqc'.cpu = irqc.cpu /\ irqc'.aia = irqc.aia
    BY <1>8, <1>10 DEF AplicStored, PendOnly, AplicRest
  <2>2. irqc.phys.pend \cup Holds(irqc) \subseteq irqc'.phys.pend \cup Holds(irqc') \cup {i}
    BY <1>4, <1>7, <1>10, <1>12 DEF AplicStored
  <2>3. ~irqc.aia => AplicTold(irqc, irqc', v)
    BY <1>8, <1>10, <1>11 DEF AplicStored, AplicTold, AplicKept, PendOnly, AplicRest
  <2> QED
    BY <2>1, <2>2, <2>3 DEF AplicStored
<1> QED
  BY <1>1, <1>13, <1>14, AplicKeeps

(* vaplic_inject, of an interrupt of the hypervisor.                        *)
LEMMA AplicInject ==
    ASSUME AplicInv, ~Plic, NEW v \in VCPU, virqc_inject(v)
    PROVE  AplicInv'
<1>1. /\ OneCpuEach(irqc.cpu) /\ irqc \in Aplics(irqc.cpu) /\ AplicGood(irqc) /\ v \in DOMAIN irqc.cpu
      /\ todo[v] = <<>> /\ port' = port /\ todo' = todo
  BY DEF AplicInv, AplicGood, virqc_inject, VCPU
<1>2. PICK i \in Intp \ irqc.hw :
          /\ irqc' = vaplic_inject(irqc, v, i)
          /\ owed' = owed \cup {j \in {i} : j \in irqc.active}
  BY DEF virqc_inject, Sources
<1>3. AplicStored(irqc, irqc', v, {}) /\ (i \in irqc.active => i \in Holds(irqc'))
  BY <1>1, <1>2, Injected
<1>4. owed' \subseteq irqc'.phys.pend \cup Holds(irqc')
  BY <1>2, <1>3 DEF AplicInv, AplicStored
<1> QED
  BY <1>1, <1>3, <1>4, AplicKeeps

(* A device raises an interrupt of an active source.                        *)
LEMMA AplicRaise ==
    ASSUME AplicInv, ~Plic, Raise
    PROVE  AplicInv'
<1> PICK i \in irqc.hw : irqc' = [irqc EXCEPT !.phys.pend = @ \cup {i}] /\ owed' = owed \cup {i}
  BY DEF Raise
<1>1. irqc \in Aplics(irqc.cpu) /\ i \in Intp /\ todo' = todo /\ port' = port
  BY DEF AplicInv, AplicGood, Raise, Aplics
<1> DEFINE phys == [irqc.phys EXCEPT !.pend = @ \cup {i}]
<1>2. phys \in PhysicalAplics /\ phys.pend = irqc.phys.pend \cup {i} /\ phys.srccfg = irqc.phys.srccfg
      /\ phys.ie = irqc.phys.ie /\ phys.target = irqc.phys.target
  BY <1>1 DEF Aplics, PhysicalAplics
<1>3. irqc' = [irqc EXCEPT !.phys = phys]
  BY <1>1 DEF Aplics
<1> HIDE DEF phys
<1>4. irqc' \in Aplics(irqc.cpu) /\ irqc'.phys = phys /\ irqc'.ip = irqc.ip /\ irqc'.ie = irqc.ie
      /\ irqc'.msi = irqc.msi /\ irqc'.aia = irqc.aia
  BY <1>1, <1>2, <1>3 DEF Aplics
<1>5. AplicRest(irqc, irqc') /\ irqc'.phys.ie = irqc.phys.ie
  BY <1>1, <1>2, <1>3 DEF Aplics, AplicRest
<1>6. owed' \subseteq irqc'.phys.pend \cup Holds(irqc')
  BY <1>2, <1>4 DEF AplicInv, Holds
<1> QED
  BY <1>1, <1>4, <1>5, <1>6, AplicOutside

(* The physical APLIC of an AIA sends an MSI to the file of the guest.      *)
LEMMA AplicSends ==
    ASSUME AplicInv, AplicSend
    PROVE  AplicInv'
<1> PICK i \in aplic_sends(irqc) : irqc' = aplic_send(irqc, i)
  BY DEF AplicSend
<1>1. irqc \in Aplics(irqc.cpu) /\ irqc.aia /\ todo' = todo /\ port' = port /\ owed' = owed
  BY DEF AplicInv, AplicGood, AplicSend
<1> DEFINE phys == [irqc.phys EXCEPT !.pend = @ \ {i}]
           m == [cpu |-> irqc.phys.target[i].hart, guest |-> irqc.phys.target[i].guest,
                 eiid |-> irqc.phys.target[i].lo, intp |-> i]
<1>2. phys \in PhysicalAplics /\ phys.pend = irqc.phys.pend \ {i} /\ phys.srccfg = irqc.phys.srccfg
      /\ phys.ie = irqc.phys.ie /\ phys.target = irqc.phys.target
  BY <1>1 DEF Aplics, PhysicalAplics
<1>3. i \in Intp /\ irqc.phys.target[i] \in [hart : Nat, guest : Nat, lo : Nat]
  BY <1>1 DEF Aplics, PhysicalAplics, aplic_sends
<1>4. m \in Msis /\ m.intp = i
  BY <1>3 DEF Msis
<1> DEFINE msi == irqc.msi \cup {m}
<1>5. irqc' = [irqc EXCEPT !.phys = phys, !.msi = msi]
  BY <1>1 DEF Aplics, aplic_send
<1> HIDE DEF phys, m
<1>9. msi \in SUBSET Msis
  BY <1>1, <1>4 DEF Aplics
<1> HIDE DEF msi
<1>6. irqc' \in Aplics(irqc.cpu) /\ irqc'.phys = phys /\ irqc'.ip = irqc.ip /\ irqc'.ie = irqc.ie
      /\ irqc'.msi = msi /\ irqc'.aia = irqc.aia
  BY <1>1, <1>2, <1>5, <1>9 DEF Aplics
<1>7. AplicRest(irqc, irqc') /\ irqc'.phys.ie = irqc.phys.ie
  BY <1>1, <1>2, <1>5 DEF Aplics, AplicRest
<1>8. owed' \subseteq irqc'.phys.pend \cup Holds(irqc')
  BY <1>1, <1>2, <1>4, <1>6 DEF AplicInv, Holds, msi
<1> QED
  BY <1>1, <1>6, <1>7, <1>8, AplicOutside

(* Every step of a platform with an APLIC or an AIA keeps the invariant.    *)
LEMMA AplicStep ==
    ASSUME AplicInv, ~Plic, RvNext
    PROVE  AplicInv' /\ ~Plic'
<1>1. port' = port
  BY DEF RvNext, GuestHandler, Handlers, GuestStore, GuestClaim, GuestComplete, GuestMsi, UpdateLine,
         StoreLine, CompleteLocked, ipi_handler, irqc_handle, virqc_inject, Raise, AplicSend
<1>2. ~(\E v \in VCPU : GuestComplete(v))
  BY DEF Plic, GuestComplete
<1>3. ~(\E v \in VCPU : CompleteLocked(v))
  BY Heads DEF AplicInv, AplicSteps, CompleteLocked
<1>4. ~Plic'
  BY <1>1 DEF Plic
<1> QED
  BY <1>2, <1>3, <1>4, AplicGuestStore, AplicGuestClaim, AplicGuestMsi, AplicUpdateLine,
     AplicStoreLine, AplicIpi, AplicHandle, AplicInject, AplicRaise, AplicSends
  DEF RvNext, GuestHandler, Handlers

(* It holds at the start.                                                   *)
LEMMA AplicStart ==
    ASSUME NEW c, RvWellFormed(c), c.port # "plic", RvInit(c)
    PROVE  AplicInv
<1>1. irqc = c.irqc /\ port = c.port /\ VCPU = DOMAIN irqc.cpu
      /\ todo = [v \in VCPU |-> <<>>] /\ owed = {}
  BY DEF RvInit, VCPU
<1>2. /\ OneCpuEach(irqc.cpu) /\ Stores[port] \subseteq AplicStores
      /\ port = (IF irqc.aia THEN "aia" ELSE "aplic")
      /\ irqc \in Aplics(irqc.cpu) /\ AplicMirrors(irqc) /\ SourcesConsistent(irqc) /\ irqc.ip = {}
  BY <1>1 DEF RvWellFormed, OneCpuEach, AplicAtRest
<1>3. AplicGood(irqc)
  BY <1>2 DEF AplicGood
<1>4. \A v \in VCPU : AplicSteps(v)
  BY <1>1 DEF AplicSteps
<1>5. \A v \in VCPU : IdcSignalled(v)
  BY <1>2 DEF IdcSignalled, AplicShows
<1> QED
  BY <1>1, <1>2, <1>3, <1>4, <1>5 DEF AplicInv

(* It says what the properties say of an APLIC and of an AIA.               *)
LEMMA AplicIsSafe ==
    ASSUME AplicInv, ~Plic
    PROVE  RiscvMirrors /\ RiscvNotLost /\ RiscvSignalled
<1>0. port = IF irqc.aia THEN "aia" ELSE "aplic"
  BY DEF AplicInv
<1>1. RiscvMirrors
  BY DEF AplicInv, AplicGood, RiscvMirrors
<1>2. RiscvNotLost
  BY <1>0 DEF AplicInv, RiscvNotLost, Holds
<1>3. CASE irqc.aia
  <2>1. port = "aia"
    BY <1>0, <1>3
  <2> QED
    BY <1>1, <1>2, <1>3, <2>1 DEF RiscvSignalled, AplicInv, AplicGood
<1>4. CASE ~irqc.aia
  <2>1. port = "aplic"
    BY <1>0, <1>4
  <2>2. ASSUME Quiet, NEW v \in VCPU, vaplic_update_topi(irqc, v).topi # 0
        PROVE  v \in irqc.line /\ irqc.topi[v] # 0
    <3>1. AplicShows(irqc, v)
      BY <2>2, Topi DEF AplicInv, AplicGood, VCPU
    <3>2. todo[v] = <<>> /\ ~(irqc.inbox[v] > 0)
      BY <2>2 DEF Quiet
    <3>3. todo[v] # <<Line(v)>> /\ \A t : todo[v] # <<Store(t)>>
      BY <3>2, Entries
    <3>4. IdcSignalled(v)
      BY <1>4 DEF AplicInv
    <3> QED
      BY <3>1, <3>2, <3>3, <3>4 DEF IdcSignalled
  <2> QED
    BY <1>1, <1>2, <2>1, <2>2 DEF RiscvSignalled
<1> QED
  BY <1>3, <1>4

----------------------------------------------------------------------------
(* The invariant of a VM with a controller of RISC-V, and its start and     *)
(* steps from any configuration that is well-formed.                        *)
RvInv == IF Plic THEN PlicInv ELSE AplicInv
RvSpec == (\E c : RvWellFormed(c) /\ RvInit(c)) /\ [][RvNext]_rvvars

(* A VM that was just created is well-formed, whatever its CPUs and its     *)
(* interrupts are (vplic_init, vaplic_init).                                *)
LEMMA CreatedIsWellFormed ==
    ASSUME NEW cpu, OneCpuEach(cpu), NEW hw,
           Stores["plic"] \subseteq PlicStores(DOMAIN cpu),
           Stores["aplic"] \subseteq AplicStores, Stores["aia"] \subseteq AplicStores,
           NEW aia \in BOOLEAN
    PROVE  /\ hw \subseteq PlicIntp =>
                  RvWellFormed([port |-> "plic",
                                irqc |-> vplic_init(cpu, hw, plic_init({cpu[v] : v \in DOMAIN cpu}))])
           /\ hw \subseteq Intp =>
                  RvWellFormed([port |-> IF aia THEN "aia" ELSE "aplic",
                                irqc |-> vaplic_init(aia, cpu, hw, aplic_init)])
<1>1. ASSUME hw \subseteq PlicIntp
      PROVE  RvWellFormed([port |-> "plic",
                           irqc |-> vplic_init(cpu, hw, plic_init({cpu[v] : v \in DOMAIN cpu}))])
  <2> DEFINE q == vplic_init(cpu, hw, plic_init({cpu[v] : v \in DOMAIN cpu}))
  <2>1. q \in Plics(cpu) /\ q.cpu = cpu
    BY <1>1 DEF vplic_init, plic_init, Plics
  <2>2. /\ PlicMirrors(q) /\ OneEnables(q)
        /\ q.pend = {} /\ q.act = {} /\ q.phys.pend = {} /\ q.phys.serv = {}
    BY DEF vplic_init, plic_init, PlicMirrors, OneEnables
  <2> DEFINE c == [port |-> "plic", irqc |-> q]
  <2> HIDE DEF q
  <2>3. c.port = "plic" /\ c.irqc = q
    OBVIOUS
  <2> HIDE DEF c
  <2>4. PlicAtRest(c.irqc)
    BY <2>1, <2>2, <2>3 DEF PlicAtRest
  <2>5. RvWellFormed(c)
    BY <2>1, <2>3, <2>4 DEF RvWellFormed, OneCpuEach
  <2> QED
    BY <2>5 DEF c, q
<1>2. ASSUME hw \subseteq Intp
      PROVE  RvWellFormed([port |-> IF aia THEN "aia" ELSE "aplic",
                           irqc |-> vaplic_init(aia, cpu, hw, aplic_init)])
  <2> DEFINE a == vaplic_init(aia, cpu, hw, aplic_init)
  <2>1. a \in Aplics(cpu) /\ a.cpu = cpu /\ a.aia = aia
    BY <1>2, VAplicAssumption
    DEF vaplic_init, aplic_init, Aplics, PhysicalAplics, OneCpuEach, INACTIVE, NoTarget
  <2>2. /\ AplicMirrors(a) /\ SourcesConsistent(a)
        /\ a.ip = {} /\ a.phys.pend = {} /\ a.msi = {}
    BY <1>2 DEF vaplic_init, aplic_init, AplicMirrors, SourcesConsistent
  <2> DEFINE c == [port |-> IF aia THEN "aia" ELSE "aplic", irqc |-> a]
  <2> HIDE DEF a
  <2>3. c.port = (IF aia THEN "aia" ELSE "aplic") /\ c.port # "plic" /\ c.irqc = a
    OBVIOUS
  <2> HIDE DEF c
  <2>4. AplicAtRest(c.irqc)
    BY <2>1, <2>2, <2>3 DEF AplicAtRest
  <2>5. RvWellFormed(c)
    BY <2>1, <2>3, <2>4 DEF RvWellFormed, OneCpuEach
  <2> QED
    BY <2>5 DEF c, a
<1> QED
  BY <1>1, <1>2

(* The invariant holds at the start of any well-formed configuration.       *)
LEMMA RvStart == ASSUME NEW c, RvWellFormed(c), RvInit(c) PROVE RvInv
<1>1. Plic <=> c.port = "plic"
  BY DEF RvInit, Plic
<1> QED
  BY <1>1, PlicStart, AplicStart DEF RvInv

(* Nothing changes in it when another machine takes a step.                 *)
LEMMA RvStutter == ASSUME RvInv, UNCHANGED rvvars PROVE RvInv'
<1>1. port' = port /\ irqc' = irqc /\ todo' = todo /\ held' = held /\ owed' = owed
  BY DEF rvvars
<1>2. VCPU' = VCPU /\ Plic' = Plic
  BY <1>1 DEF VCPU, Plic
<1>3. CASE Plic
  <2>1. PlicInv
    BY <1>3 DEF RvInv
  <2>2. \A v \in VCPU : PlicSteps(v)' /\ InService(v)'
    BY <1>1, <1>2, <2>1 DEF PlicInv, PlicSteps, InService
  <2>3. \A v \in VCPU : Signalled(v)'
    BY <1>1, <1>2, <2>1 DEF PlicInv, Signalled, Coming
  <2>4. PlicInv'
    BY <1>1, <1>2, <2>1, <2>2, <2>3 DEF PlicInv
  <2> QED
    BY <1>2, <1>3, <2>4 DEF RvInv
<1>4. CASE ~Plic
  <2>1. AplicInv
    BY <1>4 DEF RvInv
  <2>2. \A v \in VCPU : AplicSteps(v)'
    BY <1>1, <2>1 DEF AplicInv, AplicSteps
  <2>3. ~irqc.aia => \A v \in VCPU : IdcSignalled(v)'
    BY <1>1, <2>1 DEF AplicInv, IdcSignalled
  <2>4. AplicInv'
    BY <1>1, <1>2, <2>1, <2>2, <2>3 DEF AplicInv
  <2> QED
    BY <1>2, <1>4, <2>4 DEF RvInv
<1> QED
  BY <1>3, <1>4

(* Every step keeps the invariant.                                          *)
LEMMA RvStep == ASSUME RvInv, [RvNext]_rvvars PROVE RvInv'
  BY PlicStep, AplicStep, RvStutter DEF RvInv

(* What it says of the properties.                                          *)
LEMMA RvIsSafe == ASSUME RvInv PROVE RiscvMirrors /\ RiscvNotLost /\ RiscvSignalled
  BY PlicIsSafe, AplicIsSafe DEF RvInv

(* From every well-formed configuration of a PLIC, an APLIC or an AIA, with *)
(* any number of vCPUs and interrupts and whatever the guest stores: the    *)
(* physical controller does for the VM's interrupts what the VM configured  *)
(* and nothing for others (vplic_set_enbl, vaplic_set_target ...), no       *)
(* interrupt is lost, and none that a vCPU may take is left without a line  *)
(* or an MSI (vplic_update_hart_line, vaplic_update_hart).                  *)
THEOREM RiscvInterruptsArrive == RvSpec => [](RiscvMirrors /\ RiscvNotLost /\ RiscvSignalled)
<1>1. (\E c : RvWellFormed(c) /\ RvInit(c)) => RvInv
  BY RvStart
<1>2. RvInv /\ [RvNext]_rvvars => RvInv'
  BY RvStep
<1>3. RvInv => RiscvMirrors /\ RiscvNotLost /\ RiscvSignalled
  BY RvIsSafe
<1> QED
  BY <1>1, <1>2, <1>3, PTL DEF RvSpec

----------------------------------------------------------------------------
(* The machines that the runs check.                                        *)
MachinesInv == RvInv /\ DeInv

(* The configurations they start from are well-formed.                      *)
LEMMA MachinesStart == MCInit => MachinesInv
<1>1. \A b \in MCBoards : DeInit(b) => DeInv
  BY BoardsAssumption, InitDirect
<1>2. \A c \in MCConfigs \cup {FirstConfig} : RvInit(c) => RvInv
  BY ConfigsAssumption, RvStart
<1>3. Board("rh850") \in MCBoards
  BY DEF MCBoards
<1> QED
  BY <1>1, <1>2, <1>3 DEF MCInit, MachinesInv

(* A step is one of a machine, and the other stands still.                  *)
LEMMA MachinesStep == MachinesInv /\ [MCNext]_<<machine, rvvars, devars>> => MachinesInv'
<1>1. ASSUME MachinesInv, [RvNext]_rvvars, [DeNext]_devars PROVE MachinesInv'
  BY <1>1, RvStep, DirectStep DEF MachinesInv
<1>2. [MCNext]_<<machine, rvvars, devars>> => [RvNext]_rvvars /\ [DeNext]_devars
  BY DEF MCNext
<1> QED
  BY <1>1, <1>2

(* So every reachable state satisfies both invariants.                      *)
LEMMA MachinesInvariant == MCSpec => []MachinesInv
<1>1. MCSpec => MCInit /\ [][MCNext]_<<machine, rvvars, devars>>
  BY PTL DEF MCSpec
<1> QED
  BY <1>1, MachinesStart, MachinesStep, PTL

(* On all five ports, an interrupt raised or injected waits in one of the   *)
(* controllers until a guest takes it or gives it up, and has a line or an  *)
(* MSI when a vCPU may take it, however the handlers of several CPUs        *)
(* interleave (vplic_inject, vaplic_set_pend, vir_inject ...).              *)
THEOREM InterruptsAreNotLost == MCSpec => []NotLost
<1>1. MachinesInv => NotLost
  BY RvIsSafe DEF MachinesInv, DeInv, NotLost
<1> QED
  BY <1>1, MachinesInvariant, PTL

(* On all five ports, what guests store changes the physical controller for *)
(* their own interrupts and their own CPUs only (vaplic_set_target,         *)
(* vplic_set_enbl, emulate_intc_eibd_access, vir_emul_src_access).          *)
THEOREM InterruptsAreConfined == MCSpec => []Confined
<1>1. MachinesInv => Confined
  BY RvIsSafe DEF MachinesInv, DeInv, Confined
<1> QED
  BY <1>1, MachinesInvariant, PTL

=============================================================================
