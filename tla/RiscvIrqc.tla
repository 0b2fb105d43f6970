----------------------------- MODULE RiscvIrqc ------------------------------
(***************************************************************************)
(* The interrupts of a RISC-V VM at run time: its vCPUs, each on a CPU of   *)
(* its own, the virtual interrupt controller they share, the physical one   *)
(* behind it and the devices.  port is the controller of the platform:      *)
(* "plic", "aplic" or "aia".  A CPU is in its guest or in the hypervisor;   *)
(* todo[v] holds what the handler it is in has still to do, one entry for   *)
(* each part that other CPUs can come between.                              *)
(***************************************************************************)
EXTENDS VAplic, VPlic, Sequences

CONSTANTS
    Stores,       \* [port -> the stores the guest makes]
    MAX_STORES,   \* bound on the stores of the guest
    MAX_RAISES    \* bound on the interrupts of devices and of the hypervisor

VARIABLES
    port,
    irqc,         \* the virtual controller, with the physical one in it
    todo,         \* vCPU -> rest of the handler its CPU is in
    held,         \* vCPU -> interrupts its guest claimed and did not complete
    owed,         \* interrupts the guest has still to see
    stores,
    raises

rvvars == <<port, irqc, todo, held, owed, stores, raises>>

Plic == port = "plic"
VCPU == DOMAIN irqc.cpu
Sources == IF Plic THEN PlicIntp ELSE Intp
Enter(v, steps) == todo' = [todo EXCEPT ![v] = steps]

Line(ctx) == [do |-> "line", arg |-> ctx]
Store(t) == [do |-> "store", arg |-> t]
Complete(i) == [do |-> "complete", arg |-> i]

(* A configuration to start from: every vCPU has a CPU of its own, a guest  *)
(* makes the stores there are, and the controller may have been set up but  *)
(* has had no interrupt yet.                                                *)
PlicAtRest(q) ==
    /\ q \in Plics(q.cpu) /\ PlicMirrors(q) /\ OneEnables(q)
    /\ q.pend = {} /\ q.act = {} /\ q.phys.pend = {} /\ q.phys.serv = {}
AplicAtRest(a) ==
    /\ a \in Aplics(a.cpu) /\ AplicMirrors(a) /\ SourcesConsistent(a)
    /\ a.ip = {} /\ a.phys.pend = {} /\ a.msi = {}

RvWellFormed(c) ==
    /\ DOMAIN c.irqc.cpu \subseteq Nat /\ 0 \in DOMAIN c.irqc.cpu
    /\ c.irqc.cpu \in [DOMAIN c.irqc.cpu -> Nat]
    /\ \A v, w \in DOMAIN c.irqc.cpu : c.irqc.cpu[v] = c.irqc.cpu[w] => v = w
    /\ IF c.port = "plic"
       THEN PlicAtRest(c.irqc) /\ Stores[c.port] \subseteq PlicStores(DOMAIN c.irqc.cpu)
       ELSE /\ AplicAtRest(c.irqc) /\ Stores[c.port] \subseteq AplicStores
            /\ c.port = IF c.irqc.aia THEN "aia" ELSE "aplic"

RvInit(c) ==
    /\ port = c.port /\ irqc = c.irqc
    /\ todo = [v \in DOMAIN c.irqc.cpu |-> <<>>]
    /\ held = [v \in DOMAIN c.irqc.cpu |-> {}]
    /\ owed = {} /\ stores = 0 /\ raises = 0

----------------------------------------------------------------------------
(* The guest.                                                               *)

(* Stores that driver code makes only where the controller takes them       *)
(* well: pending bits of the APLIC are not cleared while a device's         *)
(* interrupt is on its way; an interrupt of the PLIC is enabled for one     *)
(* vCPU at a time and not moved in service, and one of a device is not      *)
(* reconfigured while it is pending either.                                 *)
Disciplined(w) ==
    /\ w.reg = "in_clrip" => irqc.phys.pend = {}
    /\ Plic /\ w.reg \in {"enbl", "prio"} =>
           /\ w.intp \notin irqc.act
           /\ w.intp \in irqc.hw => w.intp \notin irqc.pend \cup irqc.phys.pend \cup irqc.phys.serv
           /\ w.reg = "enbl" /\ w.en => \A v \in VCPU \ {w.hart} : w.intp \notin irqc.enbl[v]

(* What the guest gives up by a store: what it clears or makes inactive.    *)
GivenUp(w, after) ==
    CASE w.reg \in {"in_clrip", "clripnum"} ->
             (IF w.reg = "in_clrip" THEN w.set ELSE {w.intp}) \ (after.ip \cup after.phys.pend)
      [] w.reg = "sourcecfg" -> {w.intp} \ after.active
      [] OTHER -> {}

GuestStore(v) ==
    /\ todo[v] = <<>> /\ stores < MAX_STORES
    /\ stores' = stores + 1
    /\ \E w \in Stores[port] :
        /\ Disciplined(w)
        /\ IF ~Plic THEN
               /\ irqc' = Emulate(irqc, v, w)
               /\ owed' = owed \ GivenUp(w, irqc')
               /\ UNCHANGED todo
           ELSE IF w.reg = "threshold" THEN
               /\ irqc' = vplic_set_threshold(irqc, w.hart, w.lo)
               /\ Enter(v, <<Line(w.hart)>>)
               /\ UNCHANGED owed
           ELSE /\ irqc' = EmulateGlobal(irqc, v, w)
                /\ UNCHANGED <<todo, owed>>
    /\ UNCHANGED <<port, held, raises>>

(* The guest's interrupt handler reads claimi, or claim.                    *)
GuestClaim(v) ==
    /\ todo[v] = <<>> /\ v \in irqc.line
    /\ LET i == IF Plic THEN vplic_next_pending(irqc, v) ELSE irqc.topi[v]
       IN  /\ owed' = owed \ {i}
           /\ held' = [held EXCEPT ![v] = @ \cup IF Plic THEN {i} \ {0} ELSE {}]
    /\ irqc' = IF Plic THEN vplic_claim(irqc, v) ELSE vaplic_get_claimi(irqc, v, v)
    /\ IF Plic THEN Enter(v, <<Line(v)>>) ELSE UNCHANGED todo
    /\ UNCHANGED <<port, stores, raises>>

GuestComplete(v) ==
    /\ Plic /\ todo[v] = <<>>
    /\ \E i \in held[v] :
        /\ held' = [held EXCEPT ![v] = @ \ {i}]
        /\ irqc' = vplic_complete_hw(irqc, v, i)
        /\ Enter(v, <<Complete(i), Line(v)>>)
    /\ UNCHANGED <<port, owed, stores, raises>>

(* The guest takes an MSI from its interrupt file.                          *)
GuestMsi(v) ==
    /\ port = "aia"
    /\ \E m \in irqc.msi :
        /\ m.cpu = irqc.cpu[v] /\ m.guest = VS_FILE_IDX
        /\ irqc' = [irqc EXCEPT !.msi = @ \ {m}]
        /\ owed' = owed \ {m.intp}
    /\ UNCHANGED <<port, todo, held, stores, raises>>

----------------------------------------------------------------------------
(* The hypervisor.                                                          *)

(* The rest of vplic_update_hart_line after the lock was released, and the  *)
(* handler of its message: what is pending is read, then the line is set.   *)
Scan(v) == IF Plic THEN vplic_next_pending(irqc, v) ELSE vaplic_update_topi(irqc, v)

UpdateLine(v) ==
    /\ todo[v] # <<>> /\ Head(todo[v]).do = "line"
    /\ IF Head(todo[v]).arg = v THEN
           /\ Enter(v, <<Store(Scan(v))>> \o Tail(todo[v])) /\ UNCHANGED irqc
       ELSE /\ irqc' = vplic_update_hart_line(irqc, v, Head(todo[v]).arg)
            /\ Enter(v, Tail(todo[v]))
    /\ UNCHANGED <<port, held, owed, stores, raises>>

StoreLine(v) ==
    /\ todo[v] # <<>> /\ Head(todo[v]).do = "store"
    /\ irqc' = IF Plic THEN SetPlicLine(irqc, v, Head(todo[v]).arg)
               ELSE SetLine(irqc, v, Head(todo[v]).arg)
    /\ Enter(v, Tail(todo[v]))
    /\ UNCHANGED <<port, held, owed, stores, raises>>

CompleteLocked(v) ==
    /\ todo[v] # <<>> /\ Head(todo[v]).do = "complete"
    /\ irqc' = vplic_complete(irqc, Head(todo[v]).arg)
    /\ Enter(v, Tail(todo[v]))
    /\ UNCHANGED <<port, held, owed, stores, raises>>

(* vplic_ipi_handler, vaplic_ipi_handler *)
ipi_handler(v) ==
    /\ todo[v] = <<>> /\ irqc.inbox[v] > 0
    /\ irqc' = [irqc EXCEPT !.inbox[v] = @ - 1]
    /\ Enter(v, <<Line(v)>>)
    /\ UNCHANGED <<port, held, owed, stores, raises>>

(* An interrupt of a device the VM has reaches the hypervisor on a CPU.     *)
irqc_handle(v) ==
    /\ port # "aia" /\ todo[v] = <<>>
    /\ \E i \in IF Plic THEN plic_presents(irqc, irqc.cpu[v]) ELSE aplic_presents(irqc, irqc.cpu[v]) :
           irqc' = IF Plic THEN plic_handle(irqc, v, i) ELSE aplic_handle(irqc, v, i)
    /\ UNCHANGED <<port, todo, held, owed, stores, raises>>

(* vcpu_inject_irq: an interrupt of the hypervisor itself, for a doorbell   *)
(* or a request of remote I/O.  One an inactive source gets is dropped.     *)
virqc_inject(v) ==
    /\ todo[v] = <<>> /\ raises < MAX_RAISES
    /\ raises' = raises + 1
    /\ \E i \in Sources \ irqc.hw :
        /\ irqc' = IF Plic THEN vplic_inject(irqc, v, i) ELSE vaplic_inject(irqc, v, i)
        /\ owed' = owed \cup {j \in {i} : Plic \/ j \in irqc.active}
    /\ UNCHANGED <<port, todo, held, stores>>

----------------------------------------------------------------------------
(* The devices, and the AIA's APLIC that sends what they raise.             *)
Raise ==
    /\ raises < MAX_RAISES
    /\ raises' = raises + 1
    /\ \E i \in irqc.hw :
        /\ IF Plic THEN i \notin irqc.phys.pend \cup irqc.phys.serv
           ELSE irqc.phys.srccfg[i] # INACTIVE
        /\ irqc' = [irqc EXCEPT !.phys.pend = @ \cup {i}]
        /\ owed' = owed \cup {i}
    /\ UNCHANGED <<port, todo, held, stores>>

AplicSend ==
    /\ port = "aia"
    /\ \E i \in aplic_sends(irqc) : irqc' = aplic_send(irqc, i)
    /\ UNCHANGED <<port, todo, held, owed, stores, raises>>

Handlers(v) ==
    UpdateLine(v) \/ StoreLine(v) \/ CompleteLocked(v) \/ ipi_handler(v) \/ irqc_handle(v)
GuestHandler(v) == GuestClaim(v) \/ GuestComplete(v) \/ GuestMsi(v)

RvNext ==
    \/ \E v \in VCPU : GuestStore(v) \/ GuestHandler(v) \/ Handlers(v) \/ virqc_inject(v)
    \/ Raise \/ AplicSend

(* A CPU ends the handler it is in and takes its IPIs and interrupts, and a *)
(* guest whose line is up takes the interrupt: the guest leaves its         *)
(* interrupts enabled.                                                      *)
RvFairness(V) ==
    /\ \A v \in V : WF_rvvars(UpdateLine(v) \/ StoreLine(v) \/ CompleteLocked(v))
    /\ \A v \in V : WF_rvvars(ipi_handler(v)) /\ WF_rvvars(irqc_handle(v))
    /\ \A v \in V : WF_rvvars(GuestHandler(v))
    /\ WF_rvvars(AplicSend)

----------------------------------------------------------------------------
(* Nothing is on the way to a line: no handler, no message.                 *)
Quiet == \A v \in VCPU : todo[v] = <<>> /\ irqc.inbox[v] = 0

Takers(i) == {v \in VCPU : /\ i \in irqc.enbl[v] \cap (irqc.pend \ irqc.act)
                           /\ irqc.prio[i] > irqc.threshold[v]}

(* When nothing is on the way, an interrupt that some vCPU may take has     *)
(* raised a line (hvip.VSEIP) of one that takes it: the stores of the       *)
(* registers, the injections and the messages of several CPUs left none     *)
(* behind, although topi and the line are computed outside the lock         *)
(* (vplic_update_hart_line, vaplic_ipi_handler).  In an AIA nothing that is *)
(* pending and enabled is left without an MSI while the domain is enabled.  *)
RiscvSignalled ==
    Quiet =>
        CASE port = "plic" ->
                 \A i \in PlicIntp : Takers(i) # {} => Takers(i) \cap irqc.line # {}
          [] port = "aplic" ->
                 \A v \in VCPU : vaplic_update_topi(irqc, v).topi # 0 =>
                                     v \in irqc.line /\ irqc.topi[v] # 0
          [] port = "aia" -> irqc.domain_ie => irqc.ip \cap irqc.ie = {}

(* An interrupt raised by a device or injected by the hypervisor stays in   *)
(* the physical controller, in the virtual one or in the guest's file until *)
(* a guest reads it from claim, or gives it up itself.                      *)
RiscvNotLost ==
    owed \subseteq irqc.phys.pend \cup
        CASE port = "plic" -> irqc.pend
          [] port = "aplic" -> irqc.ip
          [] port = "aia" -> irqc.ip \cup {m.intp : m \in irqc.msi}

(* The physical controller is, for the interrupts assigned to the VM, as    *)
(* the guest left the virtual one, with the VM's vCPUs replaced by their    *)
(* CPUs; what it holds for other interrupts is as the hypervisor left it,   *)
(* whatever registers the guest stores to.                                  *)
RiscvMirrors == IF Plic THEN PlicMirrors(irqc) ELSE AplicMirrors(irqc)

(* Again and again no interrupt that the guest may take is left waiting.    *)
Waiting(i) ==
    /\ i \in owed
    /\ CASE port = "plic" -> i \in irqc.pend /\ Takers(i) # {}
         [] port = "aplic" -> /\ i \in irqc.ip
                              /\ vaplic_update_topi(irqc, irqc.target[i].hart).topi = i
         [] port = "aia" -> i \in irqc.ip \cap irqc.ie /\ irqc.domain_ie

RiscvDrained == []<>(\A i \in Sources : ~Waiting(i))

=============================================================================
