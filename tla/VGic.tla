-------------------------------- MODULE VGic --------------------------------
(***************************************************************************)
(* The virtual GIC (arch/armv8/vgic.c with vgicv3.c): the shared virtual    *)
(* interrupts (SPIs) of one VM and its software-generated ones (SGIs).      *)
(* Each has a lock, an owner vCPU and a state that is either kept in memory *)
(* or in a list register (LR) of the owner's CPU; what finds no LR is put   *)
(* on a list of spilled interrupts, from which the maintenance interrupt    *)
(* refills the LRs.  A vCPU that does not own an interrupt asks the owner   *)
(* by a message.  An SGI is private: every vCPU has an interrupt of its own *)
(* behind the same number, and owns it for ever.                            *)
(*                                                                          *)
(* A CPU's LRs are touched only by itself and by its guest, and the guest   *)
(* does not run while the CPU is in the hypervisor, so a critical section   *)
(* is one step, except where it takes the lock of a second interrupt: there *)
(* the CPU stops, at "spill" or "write", with the first one locked.         *)
(*                                                                          *)
(* vCPUs and physical CPUs are one to one.  Interrupts have distinct        *)
(* priorities, which their numbers stand for: a smaller one is higher.  A   *)
(* register access concerns one interrupt.  The registers for the priority  *)
(* and interrupts linked to a physical one are left out.  Messages arrive   *)
(* in order (module CpuMsg); their queue does not fill up here.             *)
(***************************************************************************)
EXTENDS Integers, FiniteSets, Sequences, FiniteSetsExt

CONSTANTS
    VCPU,     \* the vCPUs of the VM
    NoVcpu,   \* no owner, no route
    ANY,      \* the route to any vCPU (GICD_IROUTER_IRM_BIT)
    INT,      \* the interrupts, a set of positive numbers
    NUM_LRS,  \* list registers of a CPU
    Setups,   \* what the guests have set up and will do, see setup
    Prompt,   \* the maintenance interrupt comes before anything else happens
    MAX_OPS   \* bound: register writes and injections in a behaviour

NoInt == 0

PEND == "pend"

ACT == "act"

LRs == 0 .. NUM_LRS - 1

Free == [id |-> NoInt, st |-> {}]

VARIABLES
    setup, \* route and phys of the interrupts at the beginning; sgi[c], the SGI
           \* of c, or NoInt; the registers, routes and values of GICD_CTLR that
           \* guests write and the targets of their SGIs; ints, the interrupts
           \* that are written and injected; ops, how often all that happens
    irq,   \* irq[i]: struct vgic_int of interrupt i
    lr,    \* lr[c][l]: list register l of c, its interrupt and its state
    curr,  \* curr[c][l]: curr_lrs, what was last written there
    hcr,   \* hcr[c]: GICH_HCR, the maintenance interrupts and EOICount
    box,   \* box[c]: the messages on their way to c
    run,   \* run[c]: what c's guest acknowledged and has yet to end
    pc,    \* where each CPU is
    job,   \* job[c]: what it is doing there
    ctlr,  \* vgicd.CTLR: the distributor is enabled
    bank,  \* the holders of vgicr.lock of each vCPU, and for NoVcpu of vgicd.lock
    ops,   \* register writes and injections so far
    due    \* history: due[i], how often i was raised less how often it was taken

vars == <<setup, irq, lr, curr, hcr, box, run, pc, job, ctlr, bank, ops, due>>

TypeOK ==
    /\ irq \in [INT -> [owner : VCPU \cup {NoVcpu}, state : SUBSET {PEND, ACT}, in_lr : BOOLEAN,
                       lr : LRs, in_spilled : BOOLEAN, enabled : BOOLEAN,
                       route : VCPU \cup {NoVcpu, ANY}, phys : VCPU \cup {NoVcpu}]]
    /\ lr \in [VCPU -> [LRs -> [id : INT \cup {NoInt}, st : SUBSET {PEND, ACT}]]]
    /\ curr \in [VCPU -> [LRs -> INT \cup {NoInt}]]
    /\ setup \in Setups
    /\ hcr \in [VCPU -> [en : BOOLEAN, npie : BOOLEAN, uie : BOOLEAN, eoicount : 0 .. MAX_OPS]]
    /\ \A c \in VCPU : \A k \in 1 .. Len(box[c]) : box[c][k].int \in INT \cup {NoInt}
    /\ run \in [VCPU -> Seq(INT)]
    /\ pc \in [VCPU -> {"guest", "messages", "reroute", "spill", "write", "eoir", "refill",
                        "refill lock", "eoicount", "eoicount lock"}]
    /\ \A c \in VCPU : job[c].int \in INT \cup {NoInt} /\ job[c].lr \in LRs
    /\ ctlr \in BOOLEAN
    /\ bank \in [VCPU \cup {NoVcpu} -> VCPU \cup {NoVcpu}]
    /\ ops \in 0 .. MAX_OPS
    /\ due \in [INT -> Int]

(* What the operations below work on, and the step that makes it so.        *)
Now == [irq |-> irq, lr |-> lr, curr |-> curr, hcr |-> hcr, box |-> box]

Become(s) ==
    /\ irq' = s.irq
    /\ lr' = s.lr
    /\ curr' = s.curr
    /\ hcr' = s.hcr
    /\ box' = s.box

NoJob == [kind |-> "none", int |-> NoInt, lr |-> 0, flags |-> {}, misr |-> {},
          hcr |-> [en |-> TRUE, npie |-> FALSE, uie |-> FALSE, eoicount |-> 0]]

----------------------------------------------------------------------------
(* gic_is_priv, and what the number of interrupt i means to vCPU c.         *)
IsPriv(i) == \E c \in VCPU : setup.sgi[c] = i

vgic_get_int(c, i) == IF IsPriv(i) THEN setup.sgi[c] ELSE i

(* The lock that an access to a register of interrupt i takes.              *)
Bank(i) == IF IsPriv(i) THEN CHOOSE c \in VCPU : setup.sgi[c] = i ELSE NoVcpu

(* Routing (vgicv3.c, vgicv3.h).  phys.route is the vCPU of the route, for  *)
(* ANY the vCPU that wrote it, or none for a vCPU that does not exist.  A   *)
(* private interrupt has an invalid route, whose bits also read as ANY, and *)
(* the number of its CPU (phys.redist) in the place of phys.route.          *)
IsTarget(s, c, i) == s.irq[i].phys = c \/ (s.irq[i].route = ANY /\ ~IsPriv(i))

HasOtherTarget(s, c, i) == IsPriv(i) \/ s.irq[i].route = ANY \/ s.irq[i].phys \notin {c, NoVcpu}

TargetMask(s, c, i) == IF s.irq[i].route = ANY THEN VCPU \ {c} ELSE {s.irq[i].phys}

(* gich_get_lr: c finds interrupt i in the LR the interrupt names.          *)
InLr(s, c, i) ==
    /\ s.irq[i].in_lr
    /\ s.irq[i].owner = c
    /\ s.lr[c][s.irq[i].lr].id = i
    /\ s.lr[c][s.irq[i].lr].st # {}

vgic_get_state(s, c, i) ==
    IF InLr(s, c, i) THEN s.lr[c][s.irq[i].lr].st ELSE s.irq[i].state

Owned(s, c, i) == s.irq[i].owner \in {c, NoVcpu}

vgic_get_ownership(s, c, i) == [s EXCEPT !.irq[i].owner = c]

vgic_yield_ownership(s, c, i) ==
    IF IsPriv(i) \/ s.irq[i].owner # c \/ s.irq[i].in_lr \/ ACT \in vgic_get_state(s, c, i)
    THEN s
    ELSE [s EXCEPT !.irq[i].owner = NoVcpu]

vgic_add_spilled(s, c, i) ==
    IF s.irq[i].in_lr \/ s.irq[i].in_spilled
    THEN s
    ELSE [s EXCEPT !.irq[i].in_spilled = TRUE, !.hcr[c].npie = TRUE]

vgic_remove_spilled(s, i) == [s EXCEPT !.irq[i].in_spilled = FALSE]

(* An interrupt leaves its LR with the state it has there; when the guest   *)
(* has just ended it, only the flag is cleared.                             *)
vgic_remove_lr(s, c, i) ==
    LET l == s.irq[i].lr
        state == s.lr[c][l].st \cup (s.irq[i].state \cap {PEND})
    IN  IF s.irq[i].owner # c \/ ~s.irq[i].in_lr
        THEN s
        ELSE IF InLr(s, c, i)
        THEN [s EXCEPT !.lr[c][l] = Free,
                       !.irq[i].in_lr = FALSE,
                       !.irq[i].state = state,
                       !.hcr[c].npie = @ \/ (PEND \in state /\ s.irq[i].enabled),
                       !.hcr[c].uie = TRUE]
        ELSE [s EXCEPT !.irq[i].in_lr = FALSE]

(* vgic_spill_lr and the first half of vgic_write_lr, each under the lock   *)
(* of the interrupt that has to go.  Interrupts without a physical one stay *)
(* in their LR until their end was trapped, so the LR that vgic_write_lr    *)
(* takes over was given up before.                                          *)
vgic_spill_lr(s, c, l) ==
    LET j == s.lr[c][l].id
    IN  vgic_yield_ownership(vgic_add_spilled(vgic_remove_lr(s, c, j), c, j), c, j)

ReleasePrevious(s, c, l) ==
    LET p == s.curr[c][l]
    IN  IF s.irq[p].owner = c /\ s.irq[p].in_lr /\ s.irq[p].lr = l
        THEN vgic_yield_ownership([s EXCEPT !.irq[p].in_lr = FALSE], c, p)
        ELSE s

(* Mutant: the pending bit that goes to the LR stays in memory as well.     *)
WriteLrKeepsState(s, c, i, l) ==
    LET state == vgic_get_state(s, c, i)
        hidden == IF s.irq[i].enabled THEN {} ELSE {PEND}
    IN  [s EXCEPT !.lr[c][l] = [id |-> i, st |-> state \ hidden],
                  !.curr[c][l] = i,
                  !.irq[i].state = state \cap {PEND},
                  !.irq[i].in_lr = TRUE,
                  !.irq[i].lr = l]

(* The second half of vgic_write_lr: a disabled interrupt goes without its  *)
(* pending bit, which stays in memory.                                      *)
vgic_write_lr(s, c, i, l) ==
    LET state == vgic_get_state(s, c, i)
        hidden == IF s.irq[i].enabled THEN {} ELSE {PEND}
    IN  [s EXCEPT !.lr[c][l] = [id |-> i, st |-> state \ hidden],
                  !.curr[c][l] = i,
                  !.irq[i].state = state \cap hidden,
                  !.irq[i].in_lr = TRUE,
                  !.irq[i].lr = l]

(* vgic_add_lr looks for an empty LR (ELRSR: the end of a private interrupt *)
(* is not trapped and leaves its LR empty), then for one to spill: the      *)
(* lowest-priority pending one if another is left pending, or else the      *)
(* lowest-priority active one, lower than the interrupt itself.             *)
Empty(s, c) ==
    {l \in LRs : s.lr[c][l].st = {} /\ (s.lr[c][l].id = NoInt \/ IsPriv(s.lr[c][l].id))}

Lower(s, c, i, S) == {l \in S : s.lr[c][l].id > i}

Pending(s, c) == {l \in LRs : s.lr[c][l].st = {PEND}}

Active(s, c) == {l \in LRs : ACT \in s.lr[c][l].st}

Lowest(s, c, S) == CHOOSE l \in S : \A k \in S : s.lr[c][k].id <= s.lr[c][l].id

Victims(s, c, i) ==
    IF Cardinality(Pending(s, c)) > 1 /\ Lower(s, c, i, Pending(s, c)) # {}
    THEN Lower(s, c, i, Pending(s, c))
    ELSE Lower(s, c, i, Active(s, c))

(* The candidates of vgic_highest_prio_spilled, which takes no interrupt's  *)
(* lock.                                                                    *)
Spilled(c, flags) ==
    {i \in INT : /\ irq[i].in_spilled
                 /\ vgic_get_int(c, i) = i
                 /\ vgic_get_state(Now, c, i) \cap flags # {}}

(* A lock is held from one step to the next only by a CPU that waits for a  *)
(* second one.                                                              *)
Locked(i) == \E c \in VCPU : pc[c] \in {"spill", "write"} /\ job[c].int = i

----------------------------------------------------------------------------
Msg(event, i) == [event |-> event, int |-> i]

(* cpu_send_msg to every target, also vgic_send_sgi_msg.                    *)
Send(s, targets, m) ==
    [s EXCEPT !.box = [c \in VCPU |-> IF c \in targets THEN Append(@[c], m) ELSE @[c]]]

(* Mutant: an interrupt with other targets counts as forwarded even if      *)
(* it is active or nobody was sent a message.                               *)
ForwardOrDrop(s, c, i) ==
    LET others == TargetMask(s, c, i) \ {c}
    IN  IF ~s.irq[i].in_lr /\ HasOtherTarget(s, c, i)
        THEN IF ACT \in s.irq[i].state THEN s
             ELSE Send(vgic_yield_ownership(s, c, i), others, Msg("route", i))
        ELSE vgic_add_spilled(s, c, i)

(* The end of vgic_route: what has no LR and is not active is forwarded to  *)
(* its other targets, or else it is spilled.                                *)
Forward(s, c, i) ==
    LET goes == ~s.irq[i].in_lr /\ ACT \notin s.irq[i].state /\ HasOtherTarget(s, c, i)
        others == TargetMask(s, c, i) \ {c}
    IN  IF goes /\ others # {}
        THEN Send(vgic_yield_ownership(s, c, i), others, Msg("route", i))
        ELSE vgic_add_spilled(IF goes THEN vgic_yield_ownership(s, c, i) ELSE s, c, i)

(* What a job still does once vgic_add_lr or vgic_write_lr is over, and     *)
(* where the CPU goes.  The maintenance handler writes EOICount back with   *)
(* the rest of the register as it was before.                               *)
After(s, c, j) ==
    CASE j.kind \in {"write", "set_reg", "inject"} ->
             vgic_yield_ownership(Forward(s, c, j.int), c, j.int)
      [] j.kind = "route" -> vgic_yield_ownership(s, c, j.int)
      [] j.kind \in {"refill", "enable"} -> s
      [] j.kind = "eoicount" ->
             [s EXCEPT !.hcr[c] = [j.hcr EXCEPT !.eoicount = @ - 1]]

Where(j) ==
    CASE j.kind \in {"write", "inject"} -> "guest"
      [] j.kind \in {"set_reg", "route", "enable"} -> "messages"
      [] j.kind \in {"refill", "eoicount"} -> j.kind

Finish(c, s, j) ==
    /\ Become(After(s, c, j))
    /\ pc' = [pc EXCEPT ![c] = Where(j)]
    /\ job' = [job EXCEPT ![c] = [j EXCEPT !.flags = IF j.kind = "refill" THEN {ACT, PEND} ELSE {}]]
    /\ bank' = IF j.kind = "write" THEN [bank EXCEPT ![Bank(j.int)] = NoVcpu] ELSE bank

(* The job is over with nothing routed.                                     *)
Quit(c, s, j) ==
    /\ Become(vgic_yield_ownership(s, c, j.int))
    /\ pc' = [pc EXCEPT ![c] = Where(j)]
    /\ job' = [job EXCEPT ![c] = j]
    /\ bank' = IF j.kind = "write" THEN [bank EXCEPT ![Bank(j.int)] = NoVcpu] ELSE bank

Stop(c, s, j, where) ==
    /\ Become(s)
    /\ pc' = [pc EXCEPT ![c] = where]
    /\ job' = [job EXCEPT ![c] = j]
    /\ bank' = IF j.kind = "write" THEN [bank EXCEPT ![Bank(j.int)] = c] ELSE bank

(* vgic_write_lr waits for the lock of the LR's previous interrupt, unless  *)
(* there was none, or it is private or the same.                            *)
Write(c, s, j) ==
    IF s.curr[c][j.lr] \in {NoInt, j.int} \/ IsPriv(s.curr[c][j.lr])
    THEN Finish(c, vgic_write_lr(s, c, j.int, j.lr), j)
    ELSE Stop(c, s, j, "write")

vgic_add_lr(c, s, j) ==
    LET i == j.int
    IN  IF s.irq[i].in_lr \/ (~s.irq[i].enabled /\ ACT \notin s.irq[i].state)
        THEN Finish(c, s, j)
        ELSE IF Empty(s, c) # {}
        THEN Write(c, vgic_remove_spilled(s, i), [j EXCEPT !.lr = Min(Empty(s, c))])
        ELSE IF Victims(s, c, i) # {}
        THEN Stop(c, s, [j EXCEPT !.lr = Lowest(s, c, Victims(s, c, i))], "spill")
        ELSE Finish(c, vgic_add_spilled(s, c, i), j)

vgic_route(c, s, j) ==
    LET i == j.int
    IN  IF s.irq[i].state = {} \/ (~s.irq[i].enabled /\ ACT \notin s.irq[i].state)
        THEN Quit(c, s, j)
        ELSE IF IsTarget(s, c, i)
        THEN vgic_add_lr(c, s, j)
        ELSE Finish(c, s, j)

Spill(c) ==
    LET j == job[c]
        s == vgic_spill_lr(Now, c, j.lr)
    IN  /\ pc[c] = "spill"
        /\ ~Locked(lr[c][j.lr].id)
        /\ Write(c, vgic_remove_spilled(s, j.int), j)
        /\ UNCHANGED <<run, ctlr, ops, due>>

WriteLr(c) ==
    LET j == job[c]
    IN  /\ pc[c] = "write"
        /\ ~Locked(curr[c][j.lr])
        /\ Finish(c, vgic_write_lr(ReleasePrevious(Now, c, j.lr), c, j.int, j.lr), j)
        /\ UNCHANGED <<run, ctlr, ops, due>>

----------------------------------------------------------------------------
(* The maintenance interrupts of c that are asserted (GICH_MISR).  The LR   *)
(* of an ended interrupt whose end is trapped is not empty until it is      *)
(* cleared (EISR).                                                          *)
Eisr(c) == {l \in LRs : lr[c][l].st = {}} \ Empty(Now, c)

Misr(c) ==
    IF ~hcr[c].en THEN {} ELSE
    (IF Eisr(c) # {} THEN {"EOI"} ELSE {})
    \cup (IF hcr[c].npie /\ Pending(Now, c) = {} THEN {"NP"} ELSE {})
    \cup (IF hcr[c].uie /\ Cardinality({l \in LRs : lr[c][l].st # {}}) < 2 THEN {"U"} ELSE {})
    \cup (IF hcr[c].eoicount > 0 THEN {"LRENP"} ELSE {})

(* c runs its guest, and nothing is about to interrupt it if Prompt.        *)
Guest(c) == pc[c] = "guest" /\ (Prompt => Misr(c) = {})

vgic_int_update_enable(s, i, on) == [s EXCEPT !.irq[i].enabled = on]

vgic_int_update_pend(s, i, on) == [s EXCEPT !.irq[i].state = IF on THEN @ \cup {PEND} ELSE @ \ {PEND}]

vgic_int_update_act(s, i, on) == [s EXCEPT !.irq[i].state = IF on THEN @ \cup {ACT} ELSE @ \ {ACT}]

(* update_field of the register; that of the route comes with no data.      *)
UpdateField(s, i, reg) ==
    CASE reg = "isenabler" -> vgic_int_update_enable(s, i, TRUE)
      [] reg = "icenabler" -> vgic_int_update_enable(s, i, FALSE)
      [] reg = "ispendr" -> vgic_int_update_pend(s, i, TRUE)
      [] reg = "icpendr" -> vgic_int_update_pend(s, i, FALSE)
      [] reg = "isactiver" -> vgic_int_update_act(s, i, TRUE)
      [] reg = "icactiver" -> vgic_int_update_act(s, i, FALSE)
      [] reg = "irouter" -> s

(* vgic_int_set_field, and vgic_int_reroute, which updates no field: the    *)
(* owner does it, for anybody else it is a message to the owner.            *)
vgic_int_set_field(c, i, reg, kind) ==
    LET s == vgic_remove_lr(vgic_get_ownership(Now, c, i), c, i)
        j == [NoJob EXCEPT !.kind = kind, !.int = i]
    IN  /\ ~Locked(i)
        /\ IF Owned(Now, c, i)
           THEN vgic_route(c, UpdateField(s, i, reg), j)
           ELSE Quit(c, Send(Now, {irq[i].owner}, Msg(reg, i)), j)

Op(raised) ==
    /\ ops < setup.ops
    /\ ops' = ops + 1
    /\ due' = [i \in INT |-> IF i \in raised THEN due[i] + 1 ELSE due[i]]

(* A guest writes a register of the distributor or, for a private interrupt *)
(* of any vCPU, of its redistributor, under the lock of that.               *)
vgicd_emul_handler(c, raised) ==
    /\ Guest(c)
    /\ bank[NoVcpu] = NoVcpu
    /\ Op(raised)

vgicr_emul_handler(c, owner, raised) ==
    /\ Guest(c)
    /\ bank[owner] = NoVcpu
    /\ Op(raised)

GuestWrite(c, i, reg) ==
    /\ LET raised == {k \in {i} : reg = "ispendr"}
       IN  IF IsPriv(i)
           THEN vgicr_emul_handler(c, Bank(i), raised)
           ELSE vgicd_emul_handler(c, raised)
    /\ vgic_int_set_field(c, i, reg, "write")
    /\ UNCHANGED <<run, ctlr>>

(* vgic_update_enable: the CPU interface of c follows GICD_CTLR.            *)
vgic_update_enable(s, c, on) == [s EXCEPT !.hcr[c].en = on]

(* vgicd_emul_misc_access: the guest switches the distributor on or off,    *)
(* and the CPUs of the other vCPUs are told.                                *)
GuestCtlr(c, on) ==
    /\ vgicd_emul_handler(c, {})
    /\ ctlr' = on
    /\ Become(IF on = ctlr THEN Now
              ELSE Send(vgic_update_enable(Now, c, on), VCPU \ {c}, Msg("enable", NoInt)))
    /\ UNCHANGED <<run, pc, job, bank>>

(* vgic_icc_sgir_handler: the guest sends the SGI to some vCPUs.            *)
GuestSgi(c, targets) ==
    /\ Guest(c)
    /\ Op({setup.sgi[t] : t \in targets})
    /\ Become(Send(Now, targets, Msg("inject", setup.sgi[c])))
    /\ UNCHANGED <<run, pc, job, ctlr, bank>>

vgic_int_set_route(c, i, route) ==
    irq' = [irq EXCEPT ![i].route = route, ![i].phys = IF route = ANY THEN c ELSE route]

(* vgicd_emul_router_access: the route changes under the interrupt's lock,  *)
(* vgic_int_reroute follows under the same lock taken again.                *)
GuestRoute(c, i, route) ==
    /\ ~IsPriv(i)
    /\ vgicd_emul_handler(c, {})
    /\ ~Locked(i)
    /\ vgic_int_set_route(c, i, route)
    /\ bank' = [bank EXCEPT ![NoVcpu] = c]
    /\ pc' = [pc EXCEPT ![c] = "reroute"]
    /\ job' = [job EXCEPT ![c] = [NoJob EXCEPT !.int = i]]
    /\ UNCHANGED <<lr, curr, hcr, box, run, ctlr>>

vgic_int_reroute(c) ==
    /\ pc[c] = "reroute"
    /\ vgic_int_set_field(c, job[c].int, "irouter", "write")
    /\ UNCHANGED <<run, ctlr, ops, due>>

(* vgic_inject: the hypervisor raises the interrupt on c.                   *)
vgic_inject(c, i) ==
    /\ Guest(c)
    /\ ~IsPriv(i)
    /\ Op({i})
    /\ vgic_int_set_field(c, i, "ispendr", "inject")
    /\ UNCHANGED <<run, ctlr>>

(* vgic_ipi_handler, until the queue is empty (cpu_msg_handler).  The       *)
(* number in VGIC_ROUTE and VGIC_INJECT, also a private one, is the         *)
(* receiver's.                                                              *)
vgic_ipi_handler(c) ==
    LET m == Head(box[c])
        i == IF m.event \in {"route", "inject"} THEN vgic_get_int(c, m.int) ELSE m.int
        s == [Now EXCEPT !.box[c] = Tail(@)]
        own == vgic_get_ownership(s, c, i)
        set == vgic_remove_lr(own, c, i)
        j == [NoJob EXCEPT !.kind = IF m.event \in {"route", "enable"} THEN m.event ELSE "set_reg",
                           !.int = i]
    IN  /\ Guest(c) \/ pc[c] = "messages"
        /\ box[c] # <<>>
        /\ ~Locked(i)
        /\ CASE m.event = "enable" -> Finish(c, vgic_update_enable(s, c, ctlr), j)
             [] m.event = "inject" -> vgic_route(c, UpdateField(set, i, "ispendr"), j)
             [] m.event = "route" /\ ~Owned(s, c, i) -> Quit(c, s, j)
             [] m.event = "route" /\ Owned(s, c, i) ->
                    IF IsTarget(s, c, i) THEN vgic_add_lr(c, own, j) ELSE Quit(c, own, j)
             [] OTHER -> IF Owned(s, c, i)
                         THEN vgic_route(c, UpdateField(set, i, m.event), j)
                         ELSE Quit(c, Send(s, {irq[i].owner}, m), j)
        /\ UNCHANGED <<run, ctlr, ops, due>>

HandlerReturns(c) ==
    /\ pc[c] = "messages"
    /\ box[c] = <<>>
    /\ pc' = [pc EXCEPT ![c] = "guest"]
    /\ UNCHANGED <<irq, lr, curr, hcr, box, run, job, ctlr, bank, ops, due>>

----------------------------------------------------------------------------
(* gic_maintenance_handler.                                                 *)
gic_maintenance_handler(c) ==
    /\ pc[c] = "guest"
    /\ Misr(c) # {}
    /\ job' = [job EXCEPT ![c] = [NoJob EXCEPT !.misr = Misr(c)]]
    /\ pc' = [pc EXCEPT ![c] = "eoir"]
    /\ UNCHANGED <<irq, lr, curr, hcr, box, run, ctlr, bank, ops, due>>

(* vgic_handle_trapped_eoir: the LRs of ended interrupts are cleared, one   *)
(* by one, and their owner yields them.                                     *)
vgic_handle_trapped_eoir(c) ==
    LET l == Min(Eisr(c))
        i == lr[c][l].id
        s == [Now EXCEPT !.lr[c][l] = Free, !.irq[i].in_lr = FALSE]
    IN  /\ pc[c] = "eoir"
        /\ Eisr(c) # {} /\ "EOI" \in job[c].misr
        /\ ~Locked(i)
        /\ Become(vgic_yield_ownership(s, c, i))
        /\ UNCHANGED <<run, pc, job, ctlr, bank, ops, due>>

(* The next part of the handler: refill, then EOICount, then back.          *)
NextPart(c) ==
    /\ \/ /\ pc[c] = "eoir"
          /\ Eisr(c) = {} \/ "EOI" \notin job[c].misr
          /\ pc' = [pc EXCEPT ![c] = IF job[c].misr \cap {"NP", "U"} # {} THEN "refill"
                                     ELSE "eoicount"]
          /\ job' = [job EXCEPT ![c].kind = "refill",
                                ![c].flags = IF "NP" \in job[c].misr THEN {PEND} ELSE {ACT, PEND}]
       \/ /\ pc[c] = "refill"
          /\ Empty(Now, c) = {}
          /\ pc' = [pc EXCEPT ![c] = "eoicount"]
          /\ UNCHANGED job
       \/ /\ pc[c] = "eoicount"
          /\ hcr[c].eoicount = 0 \/ "LRENP" \notin job[c].misr
          /\ pc' = [pc EXCEPT ![c] = "guest"]
          /\ job' = [job EXCEPT ![c] = NoJob]
    /\ UNCHANGED <<irq, lr, curr, hcr, box, run, ctlr, bank, ops, due>>

(* vgic_refill_lrs: the highest-priority spilled interrupt is picked from   *)
(* the list, and looked at again under its own lock.                        *)
RefillPick(c) ==
    LET found == Spilled(c, job[c].flags)
    IN  /\ pc[c] = "refill"
        /\ Empty(Now, c) # {}
        /\ IF found = {}
           THEN /\ hcr' = [hcr EXCEPT ![c].npie = FALSE, ![c].uie = FALSE]
                /\ pc' = [pc EXCEPT ![c] = "eoicount"]
                /\ UNCHANGED job
           ELSE /\ job' = [job EXCEPT ![c].int = Min(found)]
                /\ pc' = [pc EXCEPT ![c] = "refill lock"]
                /\ UNCHANGED hcr
        /\ UNCHANGED <<irq, lr, curr, box, run, ctlr, bank, ops, due>>

RefillLock(c) ==
    LET i == job[c].int
        s == vgic_remove_spilled(vgic_get_ownership(Now, c, i), i)
    IN  /\ pc[c] = "refill lock"
        /\ ~Locked(i)
        /\ IF i \in Spilled(c, job[c].flags) /\ Owned(Now, c, i)
           THEN Write(c, s, [job[c] EXCEPT !.lr = Min(Empty(Now, c))])
           ELSE Stop(c, Now, job[c], "refill")
        /\ UNCHANGED <<run, ctlr, ops, due>>

(* vgic_eoir_highest_spilled_active, once for every EOICount: the guest     *)
(* ended an interrupt that is in none of its LRs.                           *)
EoirPick(c) ==
    LET found == Spilled(c, {ACT})
        j == [job[c] EXCEPT !.kind = "eoicount", !.hcr = hcr[c]]
    IN  /\ pc[c] = "eoicount"
        /\ hcr[c].eoicount > 0 /\ "LRENP" \in job[c].misr
        /\ IF found = {}
           THEN Finish(c, Now, j)
           ELSE Stop(c, Now, [j EXCEPT !.int = Min(found)], "eoicount lock")
        /\ UNCHANGED <<run, ctlr, ops, due>>

EoirLock(c) ==
    LET i == job[c].int
        s == [vgic_remove_spilled(vgic_get_ownership(Now, c, i), i) EXCEPT !.irq[i].state = @ \ {ACT}]
    IN  /\ pc[c] = "eoicount lock"
        /\ ~Locked(i)
        /\ IF i \notin Spilled(c, {ACT})
           THEN Stop(c, Now, job[c], "eoicount")
           ELSE IF Owned(Now, c, i) /\ PEND \in irq[i].state
           THEN vgic_add_lr(c, s, job[c])
           ELSE Finish(c, IF Owned(Now, c, i) THEN s ELSE Now, job[c])
        /\ UNCHANGED <<run, ctlr, ops, due>>

----------------------------------------------------------------------------
(* The hardware: the guest acknowledges the highest pending interrupt of    *)
(* its LRs if it is higher than the one it is in, and ends the one it is    *)
(* in, which is counted when no LR has it.                                  *)
Acknowledge(c) ==
    LET l == CHOOSE l \in Pending(Now, c) : \A k \in Pending(Now, c) : lr[c][l].id <= lr[c][k].id
        i == lr[c][l].id
    IN  /\ Guest(c) /\ hcr[c].en
        /\ Pending(Now, c) # {}
        /\ run[c] # <<>> => i < Head(run[c])
        /\ lr' = [lr EXCEPT ![c][l].st = {ACT}]
        /\ run' = [run EXCEPT ![c] = <<i>> \o @]
        /\ due' = [due EXCEPT ![i] = @ - 1]
        /\ UNCHANGED <<irq, curr, hcr, box, pc, job, ctlr, bank, ops>>

EndOfInterrupt(c) ==
    LET i == Head(run[c])
        held == {l \in Active(Now, c) : lr[c][l].id = i}
    IN  /\ Guest(c)
        /\ run[c] # <<>>
        /\ run' = [run EXCEPT ![c] = Tail(@)]
        /\ IF held # {}
           THEN /\ lr' = [lr EXCEPT ![c][Min(held)].st = @ \ {ACT}]
                /\ UNCHANGED hcr
           ELSE /\ hcr' = [hcr EXCEPT ![c].eoicount = @ + 1]
                /\ UNCHANGED lr
        /\ UNCHANGED <<irq, curr, box, pc, job, ctlr, bank, ops, due>>

----------------------------------------------------------------------------
(* vgic_init, after the guest has enabled and routed its interrupts.        *)
InitShared(i) ==
    [owner |-> NoVcpu, state |-> {}, in_lr |-> FALSE, lr |-> 0, in_spilled |-> FALSE,
     enabled |-> TRUE, route |-> setup.route[i], phys |-> setup.phys[i]]

(* vgic_cpu_init; GICD_IROUTER_INV has the bit of ANY.                      *)
InitPriv(i) ==
    [owner |-> Bank(i), state |-> {}, in_lr |-> FALSE, lr |-> 0, in_spilled |-> FALSE,
     enabled |-> TRUE, route |-> ANY, phys |-> Bank(i)]

Init ==
    /\ setup \in Setups
    /\ irq = [i \in INT |-> IF IsPriv(i) THEN InitPriv(i) ELSE InitShared(i)]
    /\ lr = [c \in VCPU |-> [l \in LRs |-> Free]]
    /\ curr = [c \in VCPU |-> [l \in LRs |-> NoInt]]
    /\ hcr = [c \in VCPU |-> NoJob.hcr]
    /\ box = [c \in VCPU |-> <<>>]
    /\ run = [c \in VCPU |-> <<>>]
    /\ pc = [c \in VCPU |-> "guest"]
    /\ job = [c \in VCPU |-> NoJob]
    /\ ctlr = TRUE
    /\ bank = [v \in VCPU \cup {NoVcpu} |-> NoVcpu]
    /\ ops = 0
    /\ due = [i \in INT |-> 0]

(* What c does in the hypervisor.                                           *)
Hypervisor(c) ==
    \/ Spill(c) \/ WriteLr(c)
    \/ vgic_int_reroute(c) \/ vgic_ipi_handler(c) \/ HandlerReturns(c)
    \/ gic_maintenance_handler(c) \/ vgic_handle_trapped_eoir(c) \/ NextPart(c)
    \/ RefillPick(c) \/ RefillLock(c) \/ EoirPick(c) \/ EoirLock(c)

Next ==
    /\ \E c \in VCPU :
          \/ Hypervisor(c)
          \/ Acknowledge(c)
          \/ EndOfInterrupt(c)
          \/ \E i \in setup.ints : vgic_inject(c, i)
          \/ \E i \in setup.ints, reg \in setup.regs : GuestWrite(c, i, reg)
          \/ \E i \in setup.ints, route \in setup.routes : GuestRoute(c, i, route)
          \/ \E on \in setup.ctlr : GuestCtlr(c, on)
          \/ \E targets \in setup.sgis : GuestSgi(c, targets)
    /\ UNCHANGED setup

Spec == Init /\ [][Next]_vars

----------------------------------------------------------------------------
(* The LRs that hold interrupt i, pending or active.                        *)
Places(i) == {p \in VCPU \X LRs : lr[p[1]][p[2]].id = i /\ lr[p[1]][p[2]].st # {}}

Idle == \A c \in VCPU : pc[c] = "guest" /\ box[c] = <<>>

(* A shared interrupt that is marked as in an LR is the one that was last written *)
(* to that LR of its owner, so that no two of them claim the same LR,       *)
(* although LRs are reused without telling whoever handles the previous     *)
(* interrupt (curr_lrs in vgic_write_lr).                                   *)
ClaimedLr ==
    \A i \in INT : irq[i].in_lr /\ ~IsPriv(i) => /\ irq[i].owner \in VCPU
                                                /\ curr[irq[i].owner][irq[i].lr] = i

(* The messages on their way that make i pending.                           *)
Raises(i) ==
    {p \in VCPU \X (1 .. MAX_OPS) :
        /\ p[2] <= Len(box[p[1]])
        /\ LET m == box[p[1]][p[2]]
           IN  \/ m = Msg("ispendr", i)
               \/ m.event = "inject" /\ vgic_get_int(p[1], m.int) = i}

(* The guest does not take an interrupt more often than it was raised: the  *)
(* pending bits of an interrupt, in memory, in LRs and in messages, are at  *)
(* most as many as the raises that were not taken.  Spilling, refilling,    *)
(* forwarding and disabling move them and never copy them.                  *)
NoSpurious ==
    \A i \in INT :
        Cardinality({p \in Places(i) : PEND \in lr[p[1]][p[2]].st})
        + Cardinality(irq[i].state \cap {PEND}) + Cardinality(Raises(i)) <= due[i]

(* No interrupt is lost: once the hypervisor is done and no message is on   *)
(* its way, an enabled interrupt that is pending in memory is on the list   *)
(* from which the LRs are refilled, a private one on that of its vCPU; and  *)
(* every CPU delivers interrupts if and only if GICD_CTLR says so.          *)
NotLost ==
    Idle => /\ \A i \in INT : irq[i].enabled /\ PEND \in irq[i].state => irq[i].in_spilled
            /\ \A c \in VCPU : hcr[c].en = ctlr

(* vgic_route: "ownership cannot be yielded while the interrupt is active". *)
(* The vCPU in whose LR an interrupt is active owns it.                     *)
OwnedWhileActive ==
    \A i \in INT : \A p \in Places(i) : ACT \in lr[p[1]][p[2]].st => irq[i].owner = p[1]

=============================================================================
