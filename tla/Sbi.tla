-------------------------------- MODULE Sbi --------------------------------
(***************************************************************************)
(* The SBI calls of a RISC-V guest (arch/riscv/sbi.c): hart state           *)
(* management, inter-processor interrupts and the timer, for the harts of   *)
(* one VM.  A section under sbi_ctx.lock is one step, the message sent from *)
(* within it included.                                                      *)
(*                                                                          *)
(* The message queue is the bounded mailbox of module MsgFifo; the IPI is   *)
(* taken to be pending while there are messages.  That is what an IMSIC     *)
(* gives; what can go wrong with SSIP is the subject of module CpuMsg.  The *)
(* timer is the one without the Sstc extension, where the hypervisor has    *)
(* the only comparator and passes the interrupt on.  The firmware and the   *)
(* hardware timer are external.                                             *)
(***************************************************************************)
EXTENDS Integers, Sequences

CONSTANTS
    HARTS,      \* how many harts the VM has
    Entry,      \* the start addresses callers may give
    NoEntry,    \* none
    Capacity,   \* IPI_MAX_EVENTS
    MAX_CALL,   \* bound: calls that the guests make
    MAX_TIME    \* bound: ticks of the clock

Hart == 0 .. HARTS - 1

(* A comparator that is not armed.                                          *)
Never == MAX_TIME + 1

VARIABLES
    state,        \* state[h]: sbi_ctx.state
    start_addr,   \* start_addr[h]: sbi_ctx.start_addr and .priv
    regs,         \* regs[h]: where the guest's registers were last reset to
    box,          \* box[h]: the messages queued for h
    mask,         \* mask[h]: the harts h has yet to send SEND_IPI to
    pc,           \* where each hart is
    hvip,         \* hvip[h]: the virtual interrupts pending for the guest
    stie,         \* stie[h]: the supervisor timer interrupt is enabled
    cmp,          \* cmp[h]: when the hardware timer fires
    now,          \* the clock
    calls,        \* calls made so far
    dropped       \* history: the harts whose HART_START met a full queue

power == <<state, start_addr, regs>>

timer == <<stie, cmp, now>>

vars == <<power, box, mask, pc, hvip, timer, calls, dropped>>

TypeOK ==
    /\ state \in [Hart -> {"STOPPED", "START_PENDING", "STARTED"}]
    /\ start_addr \in [Hart -> Entry \cup {NoEntry}]
    /\ regs \in [Hart -> Entry \cup {NoEntry}]
    /\ box \in [Hart -> Seq({"HART_START", "SEND_IPI"})]
    /\ \A h \in Hart : Len(box[h]) <= Capacity
    /\ mask \in [Hart -> SUBSET Hart]
    /\ pc \in [Hart -> {"guest", "powerdown", "check", "drain"}]
    /\ hvip \in [Hart -> SUBSET {"VSSIP", "VSTIP"}]
    /\ stie \in [Hart -> BOOLEAN]
    /\ cmp \in [Hart -> 0 .. Never]
    /\ now \in 0 .. MAX_TIME
    /\ calls \in 0 .. MAX_CALL
    /\ dropped \subseteq Hart

(* vcpu_arch_init, and vcpu_run at the end of vmm_init.                     *)
Init ==
    /\ state = [h \in Hart |-> IF h = 0 THEN "STARTED" ELSE "STOPPED"]
    /\ start_addr = [h \in Hart |-> NoEntry]
    /\ regs = [h \in Hart |-> NoEntry]
    /\ box = [h \in Hart |-> <<>>]
    /\ mask = [h \in Hart |-> {}]
    /\ pc = [h \in Hart |-> IF h = 0 THEN "guest" ELSE "powerdown"]
    /\ hvip = [h \in Hart |-> {}]
    /\ stie = [h \in Hart |-> FALSE]
    /\ cmp = [h \in Hart |-> Never]
    /\ now = 0
    /\ calls = 0
    /\ dropped = {}

Goto(h, where) == pc' = [pc EXCEPT ![h] = where]

InGuest(h) == pc[h] = "guest" /\ mask[h] = {}

Call(h) ==
    /\ InGuest(h)
    /\ calls < MAX_CALL
    /\ calls' = calls + 1

HasRoom(t) == Len(box[t]) < Capacity

(* Mutant: only a hart that runs is refused.                                *)
HsmStartAgain(h, t, a) ==
    /\ Call(h)
    /\ t # h
    /\ state[t] # "STARTED"
    /\ state' = [state EXCEPT ![t] = "START_PENDING"]
    /\ start_addr' = [start_addr EXCEPT ![t] = a]
    /\ box' = IF HasRoom(t) THEN [box EXCEPT ![t] = Append(@, "HART_START")] ELSE box
    /\ dropped' = IF HasRoom(t) THEN dropped ELSE dropped \cup {t}
    /\ UNCHANGED <<regs, mask, pc, hvip, timer>>

(* sbi_hsm_start_handler: an error for the caller's own hart and for one    *)
(* that is not stopped.                                                     *)
sbi_hsm_start_handler(h, t, a) ==
    /\ Call(h)
    /\ IF t = h \/ state[t] # "STOPPED"
       THEN UNCHANGED <<state, start_addr, box, dropped>>
       ELSE /\ state' = [state EXCEPT ![t] = "START_PENDING"]
            /\ start_addr' = [start_addr EXCEPT ![t] = a]
            /\ box' = IF HasRoom(t) THEN [box EXCEPT ![t] = Append(@, "HART_START")] ELSE box
            /\ dropped' = IF HasRoom(t) THEN dropped ELSE dropped \cup {t}
    /\ UNCHANGED <<regs, mask, pc, hvip, timer>>

(* sbi_ipi_handler: the harts named by the call, in ascending order.        *)
sbi_ipi_handler(h, harts) ==
    /\ Call(h)
    /\ mask' = [mask EXCEPT ![h] = harts]
    /\ UNCHANGED <<power, box, pc, hvip, timer, dropped>>

SendIpi(h) ==
    LET t == CHOOSE x \in mask[h] : \A y \in mask[h] : x <= y
    IN  /\ mask[h] # {}
        /\ box' = IF HasRoom(t) THEN [box EXCEPT ![t] = Append(@, "SEND_IPI")] ELSE box
        /\ mask' = [mask EXCEPT ![h] = @ \ {t}]
        /\ UNCHANGED <<power, pc, hvip, timer, calls, dropped>>

(* sbi_time_handler: program the timer, withdraw what the guest had         *)
(* pending, enable the interrupt.                                           *)
sbi_time_handler(h, t) ==
    /\ Call(h)
    /\ cmp' = [cmp EXCEPT ![h] = t]
    /\ hvip' = [hvip EXCEPT ![h] = @ \ {"VSTIP"}]
    /\ stie' = [stie EXCEPT ![h] = TRUE]
    /\ UNCHANGED <<power, box, mask, pc, now, dropped>>

(* Mutant: the interrupt is disabled and not passed on.                     *)
TimerIrqSwallowed(h) ==
    /\ InGuest(h)
    /\ stie[h]
    /\ now >= cmp[h]
    /\ stie' = [stie EXCEPT ![h] = FALSE]
    /\ UNCHANGED <<power, box, mask, pc, hvip, cmp, now, calls, dropped>>

(* The timer interrupt, which is pending for as long as the deadline is     *)
(* past, interrupts the guest: sbi_timer_irq_handler.                       *)
sbi_timer_irq_handler(h) ==
    /\ InGuest(h)
    /\ stie[h]
    /\ now >= cmp[h]
    /\ hvip' = [hvip EXCEPT ![h] = @ \cup {"VSTIP"}]
    /\ stie' = [stie EXCEPT ![h] = FALSE]
    /\ UNCHANGED <<power, box, mask, pc, cmp, now, calls, dropped>>

(* External: the guest withdraws its software interrupt.                    *)
GuestAck(h) ==
    /\ InGuest(h)
    /\ "VSSIP" \in hvip[h]
    /\ hvip' = [hvip EXCEPT ![h] = @ \ {"VSSIP"}]
    /\ UNCHANGED <<power, box, mask, pc, timer, calls, dropped>>

Tick ==
    /\ now < MAX_TIME
    /\ now' = now + 1
    /\ UNCHANGED <<power, box, mask, pc, hvip, stie, cmp, calls, dropped>>

(* Mutant: the hart is reset and stays in START_PENDING.                    *)
HandlerStaysPending(h, m) ==
    /\ regs' = [regs EXCEPT ![h] =
                   IF m = "HART_START" /\ state[h] = "START_PENDING" THEN start_addr[h] ELSE @]
    /\ hvip' = IF m = "SEND_IPI" THEN [hvip EXCEPT ![h] = @ \cup {"VSSIP"}] ELSE hvip
    /\ UNCHANGED state

(* sbi_msg_handler: an IPI becomes pending in the guest; a pending start    *)
(* resets the vCPU (vcpu_arch_reset clears hvip) and starts it.             *)
sbi_msg_handler(h, m) ==
    CASE m = "SEND_IPI" ->
            /\ hvip' = [hvip EXCEPT ![h] = @ \cup {"VSSIP"}]
            /\ UNCHANGED <<state, regs>>
      [] m = "HART_START" /\ state[h] = "START_PENDING" ->
            /\ state' = [state EXCEPT ![h] = "STARTED"]
            /\ regs' = [regs EXCEPT ![h] = start_addr[h]]
            /\ hvip' = [hvip EXCEPT ![h] = {}]
      [] OTHER -> UNCHANGED <<state, regs, hvip>>

(* cpu_msg_handler, on the way out of wfi or in an interrupt of the guest:  *)
(* one message.                                                             *)
HandleMsg(h) ==
    /\ pc[h] = "drain" \/ InGuest(h)
    /\ box[h] # <<>>
    /\ box' = [box EXCEPT ![h] = Tail(@)]
    /\ sbi_msg_handler(h, Head(box[h]))
    /\ UNCHANGED <<start_addr, mask, pc, timer, calls, dropped>>

(* cpu_arch_powerdown is a wfi, which may end for any reason.               *)
Wake(h) ==
    /\ pc[h] = "powerdown"
    /\ Goto(h, "check")
    /\ UNCHANGED <<power, box, mask, hvip, timer, calls, dropped>>

(* vcpu_run.                                                                *)
RunTarget(h) == IF state[h] = "STARTED" THEN "guest" ELSE "powerdown"

(* interrupts_ipi_check and interrupts_ipi_clear.                           *)
CheckIpi(h) ==
    /\ pc[h] = "check"
    /\ Goto(h, IF box[h] # <<>> THEN "drain" ELSE RunTarget(h))
    /\ UNCHANGED <<power, box, mask, hvip, timer, calls, dropped>>

HandlerReturns(h) ==
    /\ pc[h] = "drain"
    /\ box[h] = <<>>
    /\ Goto(h, RunTarget(h))
    /\ UNCHANGED <<power, box, mask, hvip, timer, calls, dropped>>

Hypervisor(h) ==
    \/ SendIpi(h) \/ HandleMsg(h) \/ CheckIpi(h) \/ HandlerReturns(h)

Next ==
    \/ Tick
    \/ \E h \in Hart :
          \/ Hypervisor(h) \/ Wake(h) \/ GuestAck(h) \/ sbi_timer_irq_handler(h)
          \/ \E t \in Hart, a \in Entry : sbi_hsm_start_handler(h, t, a)
          \/ \E harts \in SUBSET Hart \ {{}} : sbi_ipi_handler(h, harts)
          \/ \E t \in 0 .. MAX_TIME : sbi_time_handler(h, t)

Spec == Init /\ [][Next]_vars

(* The hypervisor keeps running on a hart, pending interrupts are taken,    *)
(* and time passes.                                                         *)
FairSpec ==
    /\ Spec
    /\ WF_vars(Tick)
    /\ \A h \in Hart :
           /\ WF_vars(Hypervisor(h))
           /\ WF_vars(box[h] # <<>> /\ Wake(h))
           /\ WF_vars(sbi_timer_irq_handler(h))

----------------------------------------------------------------------------
Power == INSTANCE VcpuPower WITH
    VCPU <- Hart,
    Boot <- 0,
    power <- [h \in Hart |-> CASE state[h] = "STOPPED" -> "off"
                               [] state[h] = "START_PENDING" -> "pending"
                               [] OTHER -> "on"],
    entry <- [h \in Hart |-> IF state[h] = "START_PENDING" THEN start_addr[h] ELSE NoEntry],
    start <- [h \in Hart |-> IF state[h] = "STARTED" THEN regs[h] ELSE NoEntry]

(* The guest's view is that of module VcpuPower: a stopped hart is started  *)
(* by one caller and runs from that caller's address, also when callers     *)
(* race and interrupts for the stopped hart are queued before its start.    *)
ImplementsVcpuPower == Power!Spec

(* The guest never has a timer interrupt pending before the deadline it set *)
(* last, whatever was pending when it set it.                               *)
TimerNotEarly == \A h \in Hart : "VSTIP" \in hvip[h] => now >= cmp[h]

(* Once the guest has its timer interrupt the hypervisor takes no more of   *)
(* them (interrupts.c: "so the cpu is not starved by continously triggering *)
(* the timer interrupt").                                                   *)
TimerNoStorm == \A h \in Hart : stie[h] => "VSTIP" \notin hvip[h]

(* A hart that was started runs, unless its message met a full queue.       *)
StartedRuns ==
    \A h \in Hart : state[h] = "START_PENDING" ~> (pc[h] = "guest" \/ h \in dropped)

(* A deadline that was set and not replaced is eventually signalled.        *)
TimerFires ==
    \A h \in Hart, t \in 0 .. MAX_TIME :
        (stie[h] /\ cmp[h] = t) ~> ("VSTIP" \in hvip[h] \/ cmp[h] # t)

=============================================================================
