-------------------------- MODULE VcpuPowerProofs --------------------------
(****************************************************************************)
(* Starting and stopping the vCPUs of a guest, for any number of vCPUs and  *)
(* harts, any capacity of the message queues and any number of calls: PSCI  *)
(* on Arm and the hart state management of SBI on RISC-V implement the      *)
(* guest's view of module VcpuPower, step by step, and on no port is a vCPU *)
(* that was turned on forgotten while its CPU sleeps.                       *)
(*                                                                          *)
(* A message that starts a vCPU is in a queue for an arbitrary time, among  *)
(* others, while the vCPU can be woken for other reasons, and the calls of  *)
(* other vCPUs meet it half started. What makes this safe is that only the  *)
(* handler of the message, or the wake-up from a suspension, resets the     *)
(* registers: OnlyOnRuns and OffSleeps say where a CPU may be in each of    *)
(* the states, which the step of VcpuPower needs to be the right one.       *)
(****************************************************************************)
EXTENDS MCVcpuPower, TLAPS

----------------------------------------------------------------------------
(* A vCPU that sleeps for good is not on: only vcpu_run and                 *)
(* psci_cpu_off_handler put it to sleep.                                    *)
OffSleeps == \A v \in VCPU : pc[v] = "powerdown" => state[v] # "ON"

(* The inductive invariant of PSCI.                                         *)
PsciInv == TypeOK /\ OnlyOnRuns /\ OffSleeps /\ PendingHasMessage

(* vcpu_arch_init turns the first vCPU on only.                             *)
LEMMA InitPsci == Init => PsciInv /\ Power!Init
<1> SUFFICES ASSUME Init PROVE PsciInv /\ Power!Init
  OBVIOUS
<1>1. TypeOK
  BY PsciAssumption DEF Init, TypeOK
<1>2. OnlyOnRuns /\ OffSleeps /\ PendingHasMessage
  BY DEF Init, OnlyOnRuns, OffSleeps, PendingHasMessage
<1>3. Power!Init
  BY DEF Init, Power!Init, Resuming
<1> QED
  BY <1>1, <1>2, <1>3 DEF PsciInv

(* The queue of a vCPU's CPU, when a message is added and when one is taken. *)
LEMMA BoxTypes ==
    ASSUME TypeOK, NEW t \in VCPU
    PROVE  /\ \A m \in {"ON", "note"} : Len(box[t]) < Capacity =>
                  LET b == [box EXCEPT ![t] = Append(@, m)]
                  IN  b \in [VCPU -> Seq({"ON", "note"})] /\ \A v \in VCPU : Len(b[v]) <= Capacity
           /\ box[t] # <<>> =>
                  LET b == [box EXCEPT ![t] = Tail(@)]
                  IN  b \in [VCPU -> Seq({"ON", "note"})] /\ \A v \in VCPU : Len(b[v]) <= Capacity
<1>1. /\ box \in [VCPU -> Seq({"ON", "note"})] /\ \A v \in VCPU : Len(box[v]) <= Capacity
      /\ Capacity \in Nat
  BY PsciAssumption DEF TypeOK
<1>2. ASSUME NEW m \in {"ON", "note"}, Len(box[t]) < Capacity
      PROVE  LET b == [box EXCEPT ![t] = Append(@, m)]
             IN  b \in [VCPU -> Seq({"ON", "note"})] /\ \A v \in VCPU : Len(b[v]) <= Capacity
  <2>1. Append(box[t], m) \in Seq({"ON", "note"}) /\ Len(Append(box[t], m)) = Len(box[t]) + 1
    BY <1>1
  <2>2. Len(Append(box[t], m)) <= Capacity
    BY <1>1, <1>2, <2>1
  <2> QED
    BY <1>1, <2>1, <2>2
<1>3. ASSUME box[t] # <<>>
      PROVE  LET b == [box EXCEPT ![t] = Tail(@)]
             IN  b \in [VCPU -> Seq({"ON", "note"})] /\ \A v \in VCPU : Len(b[v]) <= Capacity
  <2>1. Tail(box[t]) \in Seq({"ON", "note"}) /\ Len(Tail(box[t])) = Len(box[t]) - 1
    BY <1>1, <1>3
  <2>2. Len(Tail(box[t])) <= Capacity
    BY <1>1, <2>1
  <2> QED
    BY <1>1, <2>1, <2>2
<1> QED
  BY <1>2, <1>3

(* Every step of PSCI keeps the types.                                      *)
LEMMA PsciTypes == TypeOK /\ Next => TypeOK'
<1> SUFFICES ASSUME TypeOK, Next PROVE TypeOK'
  OBVIOUS
<1> USE DEF TypeOK
<1>1. ASSUME NEW v \in VCPU, SendOn(v) PROVE TypeOK'
  <2>1. box' \in [VCPU -> Seq({"ON", "note"})] /\ \A u \in VCPU : Len(box'[u]) <= Capacity
    <3>1. target[v] \in VCPU
      BY <1>1 DEF SendOn
    <3> DEFINE t == target[v]
    <3>2. box' = box \/ (Len(box[t]) < Capacity /\ box' = [box EXCEPT ![t] = Append(@, "ON")])
      BY <1>1 DEF SendOn
    <3> HIDE DEF t
    <3>3. t \in VCPU
      BY <3>1 DEF t
    <3>4. CASE box' = box
      BY <3>4
    <3>5. CASE Len(box[t]) < Capacity /\ box' = [box EXCEPT ![t] = Append(@, "ON")]
      BY <3>3, <3>5, BoxTypes
    <3> QED
      BY <3>2, <3>4, <3>5
  <2> QED
    BY <1>1, <2>1 DEF SendOn
<1>2. ASSUME NEW v \in VCPU, CheckIpi(v) \/ HandlerReturns(v) \/ Wake(v) \/ SuspendReturns(v)
      PROVE  TypeOK'
  BY <1>2 DEF CheckIpi, HandlerReturns, Wake, psci_wake_from_powerdown, WaitIsOver, SuspendReturns, Goto,
              RunTarget
<1>3. ASSUME NEW v \in VCPU, HandleMsg(v) PROVE TypeOK'
  <2>1. box' \in [VCPU -> Seq({"ON", "note"})] /\ \A u \in VCPU : Len(box'[u]) <= Capacity
    BY <1>3, BoxTypes DEF HandleMsg
  <2> QED
    BY <1>3, <2>1 DEF HandleMsg, psci_wake_from_off
<1>4. ASSUME NEW v \in VCPU, psci_cpu_off_handler(v) PROVE TypeOK'
  BY <1>4, PsciAssumption DEF psci_cpu_off_handler, Call, Goto
<1>5. ASSUME NEW v \in VCPU, NEW t \in VCPU, Note(v, t) PROVE TypeOK'
  <2>1. box' \in [VCPU -> Seq({"ON", "note"})] /\ \A u \in VCPU : Len(box'[u]) <= Capacity
    BY <1>5, BoxTypes DEF Note
  <2> QED
    BY <1>5, <2>1, PsciAssumption DEF Note, Call
<1>6. ASSUME NEW v \in VCPU, NEW t \in VCPU, NEW e \in Entry, psci_cpu_on_handler(v, t, e) PROVE TypeOK'
  <2>1. calls' \in 0 .. MAX_CALL
    BY <1>6, PsciAssumption DEF psci_cpu_on_handler, Call
  <2>2. CASE state[t] = "OFF"
    <3>1. state' \in [VCPU -> {"OFF", "ON_PENDING", "ON"}]
      BY <1>6, <2>2 DEF psci_cpu_on_handler
    <3>2. entrypoint' \in [VCPU -> Entry \cup {NoEntry}]
      BY <1>6, <2>2 DEF psci_cpu_on_handler
    <3>3. target' = [target EXCEPT ![v] = t]
      BY <1>6, <2>2 DEF psci_cpu_on_handler
    <3>4. target' \in [VCPU -> VCPU \cup {NoTarget}]
      BY <3>3
    <3> QED
      BY <1>6, <2>1, <3>1, <3>2, <3>4 DEF psci_cpu_on_handler
  <2>3. CASE state[t] # "OFF"
    BY <1>6, <2>1, <2>3 DEF psci_cpu_on_handler
  <2> QED
    BY <2>2, <2>3
<1>7. ASSUME NEW v \in VCPU, NEW e \in Entry, psci_cpu_suspend_handler(v, e) PROVE TypeOK'
  BY <1>7, PsciAssumption DEF psci_cpu_suspend_handler, Call, Goto
<1> QED
  BY <1>1, <1>2, <1>3, <1>4, <1>5, <1>6, <1>7 DEF Next, Hypervisor

----------------------------------------------------------------------------
(* Every step of PSCI keeps its invariant. For PendingHasMessage a message  *)
(* of the vCPU that is pending is followed through the queue.               *)
LEMMA PsciStep == PsciInv /\ [Next]_vars => PsciInv'
<1> SUFFICES ASSUME PsciInv, [Next]_vars PROVE PsciInv'
  OBVIOUS
<1> USE DEF PsciInv
<1>1. TypeOK /\ TypeOK'
  <2>1. CASE UNCHANGED vars
    BY <2>1 DEF vars, TypeOK
  <2> QED
    BY <2>1, PsciTypes
<1>2. OnlyOnRuns' /\ OffSleeps'
  BY <1>1, PsciAssumption DEF OnlyOnRuns, OffSleeps, Next, Hypervisor, Wake, psci_wake_from_powerdown, WaitIsOver,
     SuspendReturns, psci_cpu_off_handler, psci_cpu_suspend_handler, psci_cpu_on_handler, Note, SendOn, CheckIpi,
     HandleMsg, HandlerReturns, psci_wake_from_off, Goto, RunTarget, Call, vars, TypeOK
<1>3. PendingHasMessage'
  <2> SUFFICES ASSUME NEW w \in VCPU, state'[w] = "ON_PENDING", w \notin dropped',
                      \A u \in VCPU : target'[u] # w
               PROVE  \E k \in 1 .. Len(box'[w]) : box'[w][k] = "ON"
    BY DEF PendingHasMessage
  <2> DEFINE Had == \E k \in 1 .. Len(box[w]) : box[w][k] = "ON"
  <2>1. ASSUME UNCHANGED <<state, target, dropped>>, box'[w] = box[w] PROVE Had
    BY <2>1 DEF PendingHasMessage
  <2>2. ASSUME NEW m \in {"ON", "note"}, NEW t \in VCPU, box' = [box EXCEPT ![t] = Append(@, m)], Had
        PROVE  \E k \in 1 .. Len(box'[w]) : box'[w][k] = "ON"
    <3>1. CASE t = w
      <4>1. PICK k \in 1 .. Len(box[w]) : box[w][k] = "ON"
        BY <2>2
      <4>2. box[w] \in Seq({"ON", "note"}) /\ box'[w] = Append(box[w], m)
        BY <1>1, <2>2, <3>1 DEF TypeOK
      <4>3. k \in 1 .. Len(box'[w]) /\ box'[w][k] = "ON"
        BY <4>1, <4>2
      <4> QED
        BY <4>3
    <3>2. CASE t # w
      BY <1>1, <2>2, <3>2 DEF TypeOK
    <3> QED
      BY <3>1, <3>2
  <2>3. CASE UNCHANGED vars
    BY <2>1, <2>3 DEF vars
  <2>4. ASSUME NEW v \in VCPU, SendOn(v) PROVE \E k \in 1 .. Len(box'[w]) : box'[w][k] = "ON"
    <3> DEFINE t == target[v]
    <3>1. t \in VCPU /\ target' = [target EXCEPT ![v] = NoTarget] /\ UNCHANGED state
      BY <1>1, <2>4 DEF SendOn, TypeOK
    <3>2. CASE t # w
      <4>1. \A u \in VCPU : target[u] # w
        BY <1>1, <3>1, <3>2 DEF TypeOK
      <4>2. w \notin dropped /\ box'[w] = box[w]
        BY <1>1, <2>4, <3>1, <3>2 DEF SendOn, TypeOK
      <4> QED
        BY <3>1, <4>1, <4>2 DEF PendingHasMessage
    <3>3. CASE t = w
      <4>1. box' = [box EXCEPT ![w] = Append(@, "ON")]
        BY <2>4, <3>3 DEF SendOn
      <4>2. box[w] \in Seq({"ON", "note"}) /\ box'[w] = Append(box[w], "ON")
        BY <1>1, <4>1 DEF TypeOK
      <4>3. Len(box[w]) + 1 \in 1 .. Len(box'[w]) /\ box'[w][Len(box[w]) + 1] = "ON"
        BY <4>2
      <4> QED
        BY <4>3
    <3> QED
      BY <3>2, <3>3
  <2>5. ASSUME NEW v \in VCPU, HandleMsg(v) PROVE \E k \in 1 .. Len(box'[w]) : box'[w][k] = "ON"
    <3>1. UNCHANGED <<target, dropped>> /\ box[v] # <<>> /\ box' = [box EXCEPT ![v] = Tail(@)]
      BY <2>5 DEF HandleMsg
    <3>2. state[w] = "ON_PENDING" /\ (v = w => Head(box[w]) # "ON")
      BY <1>1, <2>5 DEF HandleMsg, psci_wake_from_off, TypeOK
    <3>3. Had
      BY <3>1, <3>2 DEF PendingHasMessage
    <3>4. CASE v # w
      BY <1>1, <3>1, <3>3, <3>4 DEF TypeOK
    <3>5. CASE v = w
      <4>1. PICK k \in 1 .. Len(box[w]) : box[w][k] = "ON"
        BY <3>3
      <4>2. box[w] \in Seq({"ON", "note"}) /\ box[w] # <<>> /\ box'[w] = Tail(box[w]) /\ k # 1
        BY <1>1, <3>1, <3>2, <3>5, <4>1 DEF TypeOK
      <4>3. k - 1 \in 1 .. Len(box'[w]) /\ box'[w][k - 1] = "ON"
        BY <4>1, <4>2
      <4> QED
        BY <4>3
    <3> QED
      BY <3>4, <3>5
  <2>6. ASSUME NEW v \in VCPU, NEW t \in VCPU, Note(v, t)
        PROVE  \E k \in 1 .. Len(box'[w]) : box'[w][k] = "ON"
    <3>1. UNCHANGED <<state, target, dropped>>
      BY <2>6 DEF Note
    <3>2. Had
      BY <3>1 DEF PendingHasMessage
    <3>3. box' = box \/ box' = [box EXCEPT ![t] = Append(@, "note")]
      BY <2>6 DEF Note
    <3> QED
      BY <2>2, <3>2, <3>3
  <2>7. ASSUME NEW v \in VCPU, NEW t \in VCPU, NEW e \in Entry, psci_cpu_on_handler(v, t, e)
        PROVE  \E k \in 1 .. Len(box'[w]) : box'[w][k] = "ON"
    <3>1. UNCHANGED <<box, dropped>>
      BY <2>7 DEF psci_cpu_on_handler
    <3>2. CASE state[t] = "OFF"
      <4>1. state' = [state EXCEPT ![t] = "ON_PENDING"] /\ target' = [target EXCEPT ![v] = t]
            /\ target[v] = NoTarget
        BY <2>7, <3>2 DEF psci_cpu_on_handler, Call
      <4>2. t # w
        BY <1>1, <4>1 DEF TypeOK
      <4>3. state[w] = "ON_PENDING" /\ \A u \in VCPU : target[u] # w
        BY <1>1, <4>1, <4>2, PsciAssumption DEF TypeOK
      <4> QED
        BY <3>1, <4>3 DEF PendingHasMessage
    <3>3. CASE state[t] # "OFF"
      BY <2>7, <3>1, <3>3 DEF psci_cpu_on_handler, PendingHasMessage
    <3> QED
      BY <3>2, <3>3
  <2>8. ASSUME NEW v \in VCPU, psci_cpu_off_handler(v)
        PROVE  \E k \in 1 .. Len(box'[w]) : box'[w][k] = "ON"
    <3>1. UNCHANGED <<box, target, dropped>> /\ state' = [state EXCEPT ![v] = "OFF"]
      BY <2>8 DEF psci_cpu_off_handler
    <3>2. state[w] = "ON_PENDING"
      BY <1>1, <3>1 DEF TypeOK
    <3> QED
      BY <3>1, <3>2 DEF PendingHasMessage
  <2>9. ASSUME NEW v \in VCPU,
               CheckIpi(v) \/ HandlerReturns(v) \/ Wake(v) \/ SuspendReturns(v)
                  \/ \E e \in Entry : psci_cpu_suspend_handler(v, e)
        PROVE  UNCHANGED <<state, target, dropped, box>>
    BY <2>9 DEF CheckIpi, HandlerReturns, Wake, psci_wake_from_powerdown, WaitIsOver, SuspendReturns,
                psci_cpu_suspend_handler
  <2> QED
    BY <2>1, <2>3, <2>4, <2>5, <2>6, <2>7, <2>8, <2>9 DEF Next, Hypervisor
<1> QED
  BY <1>1, <1>2, <1>3

(* What the guest sees of a vCPU, as VcpuPower says it.                     *)
PowerOf(v) ==
    CASE state[v] = "OFF" -> "off"
      [] state[v] = "ON_PENDING" -> "pending"
      [] Resuming(v) -> "suspended"
      [] OTHER -> "on"

EntryOf(v) == IF state[v] = "ON_PENDING" \/ Resuming(v) THEN entrypoint[v] ELSE NoEntry

StartOf(v) == IF state[v] = "ON" THEN regs[v] ELSE NoEntry

(* A step that is seen at one vCPU only.                                    *)
LEMMA SeenAt ==
    ASSUME NEW v \in VCPU,
           \A w \in VCPU \ {v} : PowerOf(w)' = PowerOf(w) /\ EntryOf(w)' = EntryOf(w)
                                    /\ StartOf(w)' = StartOf(w)
    PROVE  /\ PowerOf(v) = "off" /\ PowerOf(v)' = "pending" /\ EntryOf(v)' \in Entry
                  /\ StartOf(v)' = StartOf(v) => Power!Next
           /\ PowerOf(v) = "on" /\ PowerOf(v)' = "suspended" /\ EntryOf(v)' \in Entry
                  /\ StartOf(v)' = StartOf(v) => Power!Next
           /\ PowerOf(v) \in {"pending", "suspended"} /\ PowerOf(v)' = "on" /\ StartOf(v)' = EntryOf(v)
                  /\ EntryOf(v)' = NoEntry => Power!Next
           /\ PowerOf(v) = "suspended" /\ PowerOf(v)' = "on" /\ EntryOf(v)' = NoEntry
                  /\ StartOf(v)' = StartOf(v) => Power!Next
           /\ PowerOf(v) = "on" /\ PowerOf(v)' = "off" /\ StartOf(v)' = NoEntry
                  /\ EntryOf(v)' = EntryOf(v) => Power!Next
           /\ PowerOf(v)' = PowerOf(v) /\ EntryOf(v)' = EntryOf(v) /\ StartOf(v)' = StartOf(v)
                  => UNCHANGED Power!vars
<1> DEFINE P == [w \in VCPU |-> PowerOf(w)]
           E == [w \in VCPU |-> EntryOf(w)]
           S == [w \in VCPU |-> StartOf(w)]
<1>1. /\ P' = [P EXCEPT ![v] = PowerOf(v)'] /\ E' = [E EXCEPT ![v] = EntryOf(v)']
      /\ S' = [S EXCEPT ![v] = StartOf(v)']
  OBVIOUS
<1>2. P[v] = PowerOf(v) /\ E[v] = EntryOf(v) /\ S[v] = StartOf(v)
  OBVIOUS
<1>3. /\ \A e \in Entry : (P[v] = "off" /\ P' = [P EXCEPT ![v] = "pending"]
                             /\ E' = [E EXCEPT ![v] = e] /\ S' = S) => Power!Next
      /\ \A e \in Entry : (P[v] = "on" /\ P' = [P EXCEPT ![v] = "suspended"]
                             /\ E' = [E EXCEPT ![v] = e] /\ S' = S) => Power!Next
      /\ (P[v] \in {"pending", "suspended"} /\ P' = [P EXCEPT ![v] = "on"]
             /\ S' = [S EXCEPT ![v] = E[v]] /\ E' = [E EXCEPT ![v] = NoEntry]) => Power!Next
      /\ (P[v] = "suspended" /\ P' = [P EXCEPT ![v] = "on"] /\ E' = [E EXCEPT ![v] = NoEntry]
             /\ S' = S) => Power!Next
      /\ (P[v] = "on" /\ P' = [P EXCEPT ![v] = "off"] /\ S' = [S EXCEPT ![v] = NoEntry]
             /\ E' = E) => Power!Next
  BY DEF Power!Next, Power!TurnOn, Power!Suspend, Power!Start, Power!Return, Power!TurnOff,
         PowerOf, EntryOf, StartOf
<1>4. P' = P /\ E' = E /\ S' = S => UNCHANGED Power!vars
  BY DEF Power!vars, PowerOf, EntryOf, StartOf
<1>5. /\ StartOf(v)' = StartOf(v) => S' = S
      /\ EntryOf(v)' = EntryOf(v) => E' = E
      /\ PowerOf(v)' = PowerOf(v) => P' = P
  OBVIOUS
<1> HIDE DEF P, E, S
<1> QED
  BY <1>1, <1>2, <1>3, <1>4, <1>5

(* Every step of PSCI is one of VcpuPower, or not seen by the guest.        *)
LEMMA PsciRefines == PsciInv /\ [Next]_vars => [Power!Next]_Power!vars
<1> SUFFICES ASSUME PsciInv, [Next]_vars PROVE Power!Next \/ UNCHANGED Power!vars
  OBVIOUS
<1>1. TypeOK /\ OnlyOnRuns /\ OffSleeps
  BY DEF PsciInv
<1>2. CASE UNCHANGED vars
  BY <1>2 DEF vars, Power!vars, Resuming
<1> DEFINE Same(w) == PowerOf(w)' = PowerOf(w) /\ EntryOf(w)' = EntryOf(w) /\ StartOf(w)' = StartOf(w)
<1> USE DEF PowerOf, EntryOf, StartOf, Resuming
<1>3. ASSUME NEW v \in VCPU, SendOn(v) \/ CheckIpi(v) \/ HandlerReturns(v) \/ WaitIsOver(v)
                                \/ \E t \in VCPU : Note(v, t)
      PROVE  \A w \in VCPU : Same(w)
  BY <1>1, <1>3 DEF SendOn, CheckIpi, HandlerReturns, WaitIsOver, Note, Goto, RunTarget, TypeOK
<1>4. ASSUME NEW v \in VCPU, psci_wake_from_powerdown(v) PROVE Power!Next \/ UNCHANGED Power!vars
  <2>1. \A w \in VCPU \ {v} : Same(w)
    BY <1>1, <1>4 DEF psci_wake_from_powerdown, Goto, TypeOK
  <2>2. CASE pc[v] = "powerdown"
    <3>1. Same(v)
      BY <1>1, <1>4, <2>2 DEF psci_wake_from_powerdown, Goto, TypeOK, OffSleeps
    <3> QED
      BY <2>1, <3>1, SeenAt
  <2>3. CASE pc[v] = "suspended"
    <3>1. PowerOf(v) = "suspended" /\ PowerOf(v)' = "on" /\ StartOf(v)' = EntryOf(v) /\ EntryOf(v)' = NoEntry
      BY <1>1, <1>4, <2>3 DEF psci_wake_from_powerdown, Goto, TypeOK, OnlyOnRuns
    <3> QED
      BY <2>1, <3>1, SeenAt
  <2> QED
    BY <1>4, <2>2, <2>3 DEF psci_wake_from_powerdown
<1>5. ASSUME NEW v \in VCPU, SuspendReturns(v) PROVE Power!Next
  <2>1. \A w \in VCPU \ {v} : Same(w)
    BY <1>1, <1>5 DEF SuspendReturns, Goto, TypeOK
  <2>2. /\ PowerOf(v) = "suspended" /\ PowerOf(v)' = "on" /\ EntryOf(v)' = NoEntry
        /\ StartOf(v)' = StartOf(v)
    BY <1>1, <1>5 DEF SuspendReturns, Goto, TypeOK, OnlyOnRuns
  <2> QED
    BY <2>1, <2>2, SeenAt
<1>6. ASSUME NEW v \in VCPU, psci_cpu_off_handler(v) PROVE Power!Next
  <2>1. \A w \in VCPU \ {v} : Same(w)
    BY <1>1, <1>6 DEF psci_cpu_off_handler, Goto, TypeOK
  <2>2. /\ PowerOf(v) = "on" /\ PowerOf(v)' = "off" /\ StartOf(v)' = NoEntry
        /\ EntryOf(v)' = EntryOf(v)
    BY <1>1, <1>6 DEF psci_cpu_off_handler, Call, Goto, TypeOK, OnlyOnRuns
  <2> QED
    BY <2>1, <2>2, SeenAt
<1>7. ASSUME NEW v \in VCPU, NEW e \in Entry, psci_cpu_suspend_handler(v, e) PROVE Power!Next
  <2>1. \A w \in VCPU \ {v} : Same(w)
    BY <1>1, <1>7 DEF psci_cpu_suspend_handler, Goto, TypeOK
  <2>2. /\ PowerOf(v) = "on" /\ PowerOf(v)' = "suspended" /\ EntryOf(v)' \in Entry
        /\ StartOf(v)' = StartOf(v)
    BY <1>1, <1>7 DEF psci_cpu_suspend_handler, Call, Goto, TypeOK, OnlyOnRuns
  <2> QED
    BY <2>1, <2>2, SeenAt
<1>8. ASSUME NEW v \in VCPU, NEW t \in VCPU, NEW e \in Entry, psci_cpu_on_handler(v, t, e)
      PROVE  Power!Next \/ UNCHANGED Power!vars
  <2>1. \A w \in VCPU \ {t} : Same(w)
    BY <1>1, <1>8 DEF psci_cpu_on_handler, TypeOK
  <2>2. CASE state[t] = "OFF"
    <3>1. /\ PowerOf(t) = "off" /\ PowerOf(t)' = "pending" /\ EntryOf(t)' \in Entry
          /\ StartOf(t)' = StartOf(t)
      BY <1>1, <1>8, <2>2 DEF psci_cpu_on_handler, TypeOK
    <3> QED
      BY <2>1, <3>1, SeenAt
  <2>3. CASE state[t] # "OFF"
    <3>1. Same(t)
      BY <1>1, <1>8, <2>3 DEF psci_cpu_on_handler, TypeOK
    <3> QED
      BY <2>1, <3>1, SeenAt
  <2> QED
    BY <2>2, <2>3
<1>9. ASSUME NEW v \in VCPU, HandleMsg(v) PROVE Power!Next \/ UNCHANGED Power!vars
  <2>1. \A w \in VCPU \ {v} : Same(w)
    BY <1>1, <1>9 DEF HandleMsg, psci_wake_from_off, TypeOK
  <2>2. CASE Head(box[v]) = "ON" /\ state[v] = "ON_PENDING"
    <3>1. PowerOf(v) = "pending" /\ PowerOf(v)' = "on" /\ StartOf(v)' = EntryOf(v) /\ EntryOf(v)' = NoEntry
      BY <1>1, <1>9, <2>2 DEF HandleMsg, psci_wake_from_off, TypeOK, OnlyOnRuns
    <3> QED
      BY <2>1, <3>1, SeenAt
  <2>3. CASE ~(Head(box[v]) = "ON" /\ state[v] = "ON_PENDING")
    <3>1. Same(v)
      BY <1>1, <1>9, <2>3 DEF HandleMsg, psci_wake_from_off, TypeOK
    <3> QED
      BY <2>1, <3>1, SeenAt
  <2> QED
    BY <2>2, <2>3
<1>10. ASSUME NEW v \in VCPU, \A w \in VCPU : Same(w) PROVE UNCHANGED Power!vars
  BY <1>10, SeenAt
<1> QED
  BY <1>2, <1>3, <1>4, <1>5, <1>6, <1>7, <1>8, <1>9, <1>10 DEF Next, Hypervisor, Wake

----------------------------------------------------------------------------
Hart == Riscv!Hart

(* A guest executes only on a hart that was started.                        *)
OnlyStartedRuns == \A h \in Hart : hpc[h] = "guest" => hstate[h] = "STARTED"

(* A hart that waits to be started has its message, unless that was lost to *)
(* a full queue: sbi_hsm_start_handler refuses it to everyone from now on.  *)
StartHasMessage ==
    \A h \in Hart :
        hstate[h] = "START_PENDING" =>
            h \in hdropped \/ \E k \in 1 .. Len(hbox[h]) : hbox[h][k] = "HART_START"

(* The inductive invariant of SBI.                                          *)
SbiInv ==
    Riscv!TypeOK /\ OnlyStartedRuns /\ StartHasMessage /\ Riscv!TimerNotEarly /\ Riscv!TimerNoStorm

(* The harts and the comparator that is not armed.                          *)
LEMMA HartTypes == Hart = 0 .. HARTS - 1 /\ 0 \in Hart /\ MAX_TIME \in Nat /\ Riscv!Never = MAX_TIME + 1
  BY HartsAssumption DEF Hart, Riscv!Hart, Riscv!Never

(* vcpu_arch_init starts hart 0 only.                                       *)
LEMMA InitSbi == Riscv!Init => SbiInv /\ Riscv!Power!Init
<1> SUFFICES ASSUME Riscv!Init PROVE SbiInv /\ Riscv!Power!Init
  OBVIOUS
<1>1. Riscv!TypeOK
  BY PsciAssumption, HartTypes DEF Riscv!Init, Riscv!TypeOK, Riscv!Hart, Hart
<1>2. OnlyStartedRuns /\ StartHasMessage /\ Riscv!TimerNotEarly /\ Riscv!TimerNoStorm
  BY DEF Riscv!Init, OnlyStartedRuns, StartHasMessage, Riscv!TimerNotEarly, Riscv!TimerNoStorm, Hart
<1>3. Riscv!Power!Init
  BY DEF Riscv!Init, Riscv!Power!Init
<1> QED
  BY <1>1, <1>2, <1>3 DEF SbiInv

(* The queue of a hart, when a message is added and when one is taken.      *)
LEMMA HartBoxTypes ==
    ASSUME Riscv!TypeOK, NEW t \in Hart
    PROVE  /\ \A m \in {"HART_START", "SEND_IPI"} :
                  Len(hbox[t]) < Capacity /\ hbox' = [hbox EXCEPT ![t] = Append(@, m)] =>
                      /\ hbox' \in [Hart -> Seq({"HART_START", "SEND_IPI"})]
                      /\ \A h \in Hart : Len(hbox'[h]) <= Capacity
           /\ hbox[t] # <<>> /\ hbox' = [hbox EXCEPT ![t] = Tail(@)] =>
                  /\ hbox' \in [Hart -> Seq({"HART_START", "SEND_IPI"})]
                  /\ \A h \in Hart : Len(hbox'[h]) <= Capacity
<1> DEFINE M == {"HART_START", "SEND_IPI"}
<1>1. hbox \in [Hart -> Seq(M)] /\ (\A h \in Hart : Len(hbox[h]) <= Capacity) /\ Capacity \in Nat
  BY PsciAssumption DEF Riscv!TypeOK, Hart
<1>2. ASSUME NEW m \in M, Len(hbox[t]) < Capacity, hbox' = [hbox EXCEPT ![t] = Append(@, m)]
      PROVE  hbox' \in [Hart -> Seq(M)] /\ \A h \in Hart : Len(hbox'[h]) <= Capacity
  <2>1. Append(hbox[t], m) \in Seq(M) /\ Len(Append(hbox[t], m)) = Len(hbox[t]) + 1
    BY <1>1
  <2>2. Len(Append(hbox[t], m)) <= Capacity
    BY <1>1, <1>2, <2>1
  <2> QED
    BY <1>1, <1>2, <2>1, <2>2
<1>3. ASSUME hbox[t] # <<>>, hbox' = [hbox EXCEPT ![t] = Tail(@)]
      PROVE  hbox' \in [Hart -> Seq(M)] /\ \A h \in Hart : Len(hbox'[h]) <= Capacity
  <2>1. Tail(hbox[t]) \in Seq(M) /\ Len(Tail(hbox[t])) = Len(hbox[t]) - 1
    BY <1>1, <1>3
  <2>2. Len(Tail(hbox[t])) <= Capacity
    BY <1>1, <2>1
  <2> QED
    BY <1>1, <1>3, <2>1, <2>2
<1> QED
  BY <1>2, <1>3

(* Every step changes one queue at most, by a message that is sent to a     *)
(* queue with room or taken by its hart.                                    *)
QueueSteps ==
    \/ hbox' = hbox
    \/ \E t \in Hart, m \in {"HART_START", "SEND_IPI"} :
           Len(hbox[t]) < Capacity /\ hbox' = [hbox EXCEPT ![t] = Append(@, m)]
    \/ \E h \in Hart : hbox[h] # <<>> /\ hbox' = [hbox EXCEPT ![h] = Tail(@)]

(* Every step of SBI treats the queues so.                                  *)
LEMMA SbiQueues == Riscv!TypeOK /\ Riscv!Next => QueueSteps
<1> SUFFICES ASSUME Riscv!TypeOK, Riscv!Next PROVE QueueSteps
  OBVIOUS
<1>1. ASSUME NEW h \in Hart, Riscv!SendIpi(h) PROVE QueueSteps
  <2> DEFINE t == CHOOSE x \in hmask[h] : \A y \in hmask[h] : x <= y
  <2>1. hbox' = IF Riscv!HasRoom(t) THEN [hbox EXCEPT ![t] = Append(@, "SEND_IPI")] ELSE hbox
    BY <1>1 DEF Riscv!SendIpi
  <2> HIDE DEF t
  <2>2. CASE t \in Hart
    BY <2>1, <2>2 DEF QueueSteps, Riscv!HasRoom
  <2>3. CASE t \notin Hart
    BY <2>1, <2>3 DEF QueueSteps, Riscv!TypeOK, Hart
  <2> QED
    BY <2>2, <2>3
<1>2. ASSUME NEW h \in Hart, Riscv!HandleMsg(h) PROVE QueueSteps
  BY <1>2 DEF Riscv!HandleMsg, QueueSteps
<1>3. ASSUME NEW h \in Hart, NEW t \in Hart, NEW a \in Entry, Riscv!sbi_hsm_start_handler(h, t, a)
      PROVE  QueueSteps
  BY <1>3 DEF Riscv!sbi_hsm_start_handler, Riscv!HasRoom, QueueSteps
<1>4. ASSUME NEW h \in Hart,
             \/ Riscv!CheckIpi(h) \/ Riscv!HandlerReturns(h) \/ Riscv!Wake(h) \/ Riscv!GuestAck(h)
             \/ Riscv!sbi_timer_irq_handler(h)
             \/ \E harts \in SUBSET Hart \ {{}} : Riscv!sbi_ipi_handler(h, harts)
             \/ \E t \in 0 .. MAX_TIME : Riscv!sbi_time_handler(h, t)
      PROVE  hbox' = hbox
  BY <1>4 DEF Riscv!CheckIpi, Riscv!HandlerReturns, Riscv!Wake, Riscv!GuestAck,
              Riscv!sbi_timer_irq_handler, Riscv!sbi_ipi_handler, Riscv!sbi_time_handler
<1>5. CASE Riscv!Tick
  BY <1>5 DEF Riscv!Tick, QueueSteps
<1> QED
  BY <1>1, <1>2, <1>3, <1>4, <1>5 DEF Riscv!Next, Riscv!Hypervisor, QueueSteps, Hart

(* Every step of SBI keeps the types.                                       *)
LEMMA SbiTypes == Riscv!TypeOK /\ Riscv!Next => Riscv!TypeOK'
<1> SUFFICES ASSUME Riscv!TypeOK, Riscv!Next PROVE Riscv!TypeOK'
  OBVIOUS
<1>1. hbox' \in [Hart -> Seq({"HART_START", "SEND_IPI"})] /\ \A h \in Hart : Len(hbox'[h]) <= Capacity
  <2>1. CASE hbox' = hbox
    BY <2>1 DEF Riscv!TypeOK, Hart
  <2> QED
    BY <2>1, SbiQueues, HartBoxTypes DEF QueueSteps
<1> DEFINE Rest == /\ hstate' \in [Hart -> {"STOPPED", "START_PENDING", "STARTED"}]
                   /\ hstart_addr' \in [Hart -> Entry \cup {NoEntry}]
                   /\ hregs' \in [Hart -> Entry \cup {NoEntry}]
                   /\ hmask' \in [Hart -> SUBSET Hart]
                   /\ hpc' \in [Hart -> {"guest", "powerdown", "check", "drain"}]
                   /\ hhvip' \in [Hart -> SUBSET {"VSSIP", "VSTIP"}]
                   /\ hstie' \in [Hart -> BOOLEAN]
                   /\ hcmp' \in [Hart -> 0 .. Riscv!Never]
                   /\ hnow' \in 0 .. MAX_TIME
                   /\ hcalls' \in 0 .. MAX_CALL
                   /\ hdropped' \subseteq Hart
<1>0. /\ hstate \in [Hart -> {"STOPPED", "START_PENDING", "STARTED"}]
      /\ hstart_addr \in [Hart -> Entry \cup {NoEntry}]
      /\ hregs \in [Hart -> Entry \cup {NoEntry}]
      /\ hmask \in [Hart -> SUBSET Hart]
      /\ hpc \in [Hart -> {"guest", "powerdown", "check", "drain"}]
      /\ hhvip \in [Hart -> SUBSET {"VSSIP", "VSTIP"}]
      /\ hstie \in [Hart -> BOOLEAN]
      /\ hcmp \in [Hart -> 0 .. Riscv!Never]
      /\ hnow \in 0 .. MAX_TIME
      /\ hcalls \in 0 .. MAX_CALL
      /\ hdropped \subseteq Hart
  BY DEF Riscv!TypeOK, Hart
<1> USE <1>0 DEF Riscv!power, Riscv!timer, Riscv!Goto, Riscv!InGuest
<1>2. ASSUME NEW h \in Hart, Riscv!SendIpi(h) PROVE Rest
  BY <1>2 DEF Riscv!SendIpi
<1>3. ASSUME NEW h \in Hart, Riscv!HandleMsg(h) PROVE Rest
  <2>1. hstate' \in [Hart -> {"STOPPED", "START_PENDING", "STARTED"}]
        /\ hregs' \in [Hart -> Entry \cup {NoEntry}]
        /\ hhvip' \in [Hart -> SUBSET {"VSSIP", "VSTIP"}]
    <3> DEFINE m == Head(hbox[h])
    <3>1. Riscv!sbi_msg_handler(h, m)
      BY <1>3 DEF Riscv!HandleMsg
    <3> HIDE DEF m
    <3>2. \/ UNCHANGED <<hstate, hregs>> /\ hhvip' = [hhvip EXCEPT ![h] = @ \cup {"VSSIP"}]
          \/ /\ hstate' = [hstate EXCEPT ![h] = "STARTED"]
             /\ hregs' = [hregs EXCEPT ![h] = hstart_addr[h]]
             /\ hhvip' = [hhvip EXCEPT ![h] = {}]
          \/ UNCHANGED <<hstate, hregs, hhvip>>
      BY <3>1 DEF Riscv!sbi_msg_handler
    <3> QED
      BY <3>2
  <2> QED
    BY <1>3, <2>1 DEF Riscv!HandleMsg
<1>4. ASSUME NEW h \in Hart, Riscv!CheckIpi(h) \/ Riscv!HandlerReturns(h) \/ Riscv!Wake(h) PROVE Rest
  <2>1. UNCHANGED <<hstate, hstart_addr, hregs, hmask, hhvip, hstie, hcmp, hnow, hcalls, hdropped>>
    BY <1>4 DEF Riscv!CheckIpi, Riscv!HandlerReturns, Riscv!Wake
  <2>2. \E where \in {"guest", "powerdown", "check", "drain"} : hpc' = [hpc EXCEPT ![h] = where]
    BY <1>4 DEF Riscv!CheckIpi, Riscv!HandlerReturns, Riscv!Wake, Riscv!RunTarget
  <2> QED
    BY <2>1, <2>2
<1>5. ASSUME NEW h \in Hart, Riscv!GuestAck(h) \/ Riscv!sbi_timer_irq_handler(h) PROVE Rest
  <2>1. CASE Riscv!GuestAck(h)
    BY <2>1 DEF Riscv!GuestAck
  <2>2. CASE Riscv!sbi_timer_irq_handler(h)
    BY <2>2 DEF Riscv!sbi_timer_irq_handler
  <2> QED
    BY <1>5, <2>1, <2>2
<1>6. ASSUME NEW h \in Hart, Riscv!Call(h) PROVE hcalls' \in 0 .. MAX_CALL
  BY <1>6, PsciAssumption DEF Riscv!Call
<1>7. ASSUME NEW h \in Hart, NEW t \in Hart, NEW a \in Entry, Riscv!sbi_hsm_start_handler(h, t, a) PROVE Rest
  <2>1. hcalls' \in 0 .. MAX_CALL
    BY <1>6, <1>7 DEF Riscv!sbi_hsm_start_handler
  <2>2. CASE t = h \/ hstate[t] # "STOPPED"
    BY <1>7, <2>1, <2>2 DEF Riscv!sbi_hsm_start_handler
  <2>3. CASE ~(t = h \/ hstate[t] # "STOPPED")
    <3>1. /\ hstate' = [hstate EXCEPT ![t] = "START_PENDING"]
          /\ hstart_addr' = [hstart_addr EXCEPT ![t] = a]
          /\ hdropped' = hdropped \/ hdropped' = hdropped \cup {t}
          /\ UNCHANGED <<hregs, hmask, hpc, hhvip, hstie, hcmp, hnow>>
      BY <1>7, <2>3 DEF Riscv!sbi_hsm_start_handler
    <3> QED
      BY <2>1, <3>1
  <2> QED
    BY <2>2, <2>3
<1>8. ASSUME NEW h \in Hart, NEW harts \in SUBSET Hart \ {{}}, Riscv!sbi_ipi_handler(h, harts) PROVE Rest
  <2>1. hcalls' \in 0 .. MAX_CALL
    BY <1>6, <1>8 DEF Riscv!sbi_ipi_handler
  <2> QED
    BY <1>8, <2>1 DEF Riscv!sbi_ipi_handler
<1>9. ASSUME NEW h \in Hart, NEW t \in 0 .. MAX_TIME, Riscv!sbi_time_handler(h, t) PROVE Rest
  <2>1. hcalls' \in 0 .. MAX_CALL
    BY <1>6, <1>9 DEF Riscv!sbi_time_handler
  <2>2. t \in 0 .. Riscv!Never
    BY HartTypes
  <2> QED
    BY <1>9, <2>1, <2>2 DEF Riscv!sbi_time_handler
<1>10. ASSUME Riscv!Tick PROVE Rest
  BY <1>10, HartTypes DEF Riscv!Tick
<1>11. Rest
  BY <1>2, <1>3, <1>4, <1>5, <1>7, <1>8, <1>9, <1>10 DEF Riscv!Next, Riscv!Hypervisor, Hart
<1> QED
  BY <1>1, <1>11 DEF Riscv!TypeOK, Hart

(* A start message is taken by a hart that is started by it.                *)
LEMMA SbiMessages == SbiInv /\ Riscv!Next => StartHasMessage'
<1> SUFFICES ASSUME SbiInv, Riscv!Next,
                    NEW w \in Hart, hstate'[w] = "START_PENDING", w \notin hdropped'
             PROVE  \E k \in 1 .. Len(hbox'[w]) : hbox'[w][k] = "HART_START"
  BY DEF StartHasMessage
<1> DEFINE Had == \E k \in 1 .. Len(hbox[w]) : hbox[w][k] = "HART_START"
<1>1. /\ hbox \in [Hart -> Seq({"HART_START", "SEND_IPI"})]
      /\ hstate \in [Hart -> {"STOPPED", "START_PENDING", "STARTED"}]
  BY DEF SbiInv, Riscv!TypeOK, Hart
<1>2. ASSUME hstate[w] = "START_PENDING", w \notin hdropped PROVE Had
  BY <1>2 DEF SbiInv, StartHasMessage
<1>3. ASSUME NEW m \in {"HART_START", "SEND_IPI"}, NEW t \in Hart,
             hbox' = [hbox EXCEPT ![t] = Append(@, m)], Had \/ (t = w /\ m = "HART_START")
      PROVE  \E k \in 1 .. Len(hbox'[w]) : hbox'[w][k] = "HART_START"
  <2>1. CASE t # w
    BY <1>1, <1>3, <2>1
  <2>2. CASE t = w
    <3>1. hbox[w] \in Seq({"HART_START", "SEND_IPI"}) /\ hbox'[w] = Append(hbox[w], m)
      BY <1>1, <1>3, <2>2
    <3>2. CASE Had
      <4>1. PICK k \in 1 .. Len(hbox[w]) : hbox[w][k] = "HART_START"
        BY <3>2
      <4>2. k \in 1 .. Len(hbox'[w]) /\ hbox'[w][k] = "HART_START"
        BY <3>1, <4>1
      <4> QED
        BY <4>2
    <3>3. CASE m = "HART_START"
      <4>1. Len(hbox[w]) + 1 \in 1 .. Len(hbox'[w]) /\ hbox'[w][Len(hbox[w]) + 1] = "HART_START"
        BY <3>1, <3>3
      <4> QED
        BY <4>1
    <3> QED
      BY <1>3, <3>2, <3>3
  <2> QED
    BY <2>1, <2>2
<1>4. ASSUME NEW h \in Hart, Riscv!HandleMsg(h)
      PROVE  \E k \in 1 .. Len(hbox'[w]) : hbox'[w][k] = "HART_START"
  <2>1. hdropped' = hdropped /\ hbox[h] # <<>> /\ hbox' = [hbox EXCEPT ![h] = Tail(@)]
        /\ Riscv!sbi_msg_handler(h, Head(hbox[h]))
    BY <1>4 DEF Riscv!HandleMsg
  <2>2. hstate[w] = "START_PENDING" /\ (h = w => Head(hbox[w]) # "HART_START")
    <3> DEFINE m == Head(hbox[h])
    <3>1. Riscv!sbi_msg_handler(h, m)
      BY <2>1
    <3> HIDE DEF m
    <3>2. \/ hstate' = hstate /\ ~(m = "HART_START" /\ hstate[h] = "START_PENDING")
          \/ hstate' = [hstate EXCEPT ![h] = "STARTED"]
      BY <3>1 DEF Riscv!sbi_msg_handler
    <3>3. hstate[w] = "START_PENDING" /\ (h = w => m # "HART_START")
      BY <1>1, <3>2
    <3> QED
      BY <3>3 DEF m
  <2>3. Had
    BY <1>2, <2>1, <2>2
  <2>4. CASE h # w
    BY <1>1, <2>1, <2>3, <2>4
  <2>5. CASE h = w
    <3>1. PICK k \in 1 .. Len(hbox[w]) : hbox[w][k] = "HART_START"
      BY <2>3
    <3>2. /\ hbox[w] \in Seq({"HART_START", "SEND_IPI"}) /\ hbox[w] # <<>>
          /\ hbox'[w] = Tail(hbox[w]) /\ k # 1
      BY <1>1, <2>1, <2>2, <2>5, <3>1
    <3>3. k - 1 \in 1 .. Len(hbox'[w]) /\ hbox'[w][k - 1] = "HART_START"
      BY <3>1, <3>2
    <3> QED
      BY <3>3
  <2> QED
    BY <2>4, <2>5
<1>5. ASSUME NEW h \in Hart, NEW t \in Hart, NEW a \in Entry, Riscv!sbi_hsm_start_handler(h, t, a)
      PROVE  \E k \in 1 .. Len(hbox'[w]) : hbox'[w][k] = "HART_START"
  <2>1. CASE t = h \/ hstate[t] # "STOPPED"
    BY <1>2, <1>5, <2>1 DEF Riscv!sbi_hsm_start_handler
  <2>2. CASE ~(t = h \/ hstate[t] # "STOPPED")
    <3>1. /\ hstate' = [hstate EXCEPT ![t] = "START_PENDING"]
          /\ IF Riscv!HasRoom(t)
             THEN hbox' = [hbox EXCEPT ![t] = Append(@, "HART_START")] /\ hdropped' = hdropped
             ELSE hbox' = hbox /\ hdropped' = hdropped \cup {t}
      BY <1>5, <2>2 DEF Riscv!sbi_hsm_start_handler
    <3>2. t = w \/ (t # w /\ hstate[w] = "START_PENDING" /\ w \notin hdropped)
      BY <1>1, <3>1
    <3>3. t = w => Riscv!HasRoom(t)
      BY <3>1
    <3> QED
      BY <1>2, <1>3, <3>1, <3>2, <3>3
  <2> QED
    BY <2>1, <2>2
<1>6. ASSUME NEW h \in Hart, Riscv!SendIpi(h)
      PROVE  \E k \in 1 .. Len(hbox'[w]) : hbox'[w][k] = "HART_START"
  <2> DEFINE t == CHOOSE x \in hmask[h] : \A y \in hmask[h] : x <= y
  <2>1. hbox' = IF Riscv!HasRoom(t) THEN [hbox EXCEPT ![t] = Append(@, "SEND_IPI")] ELSE hbox
    BY <1>6 DEF Riscv!SendIpi
  <2>2. hstate' = hstate /\ hdropped' = hdropped
    BY <1>6 DEF Riscv!SendIpi, Riscv!power
  <2> HIDE DEF t
  <2>3. Had
    BY <1>2, <2>2
  <2>4. CASE t \in Hart
    BY <1>3, <2>1, <2>3, <2>4
  <2>5. CASE t \notin Hart
    BY <1>1, <2>1, <2>3, <2>5
  <2> QED
    BY <2>4, <2>5
<1>7. ASSUME hbox' = hbox, hstate' = hstate, hdropped' = hdropped
      PROVE  \E k \in 1 .. Len(hbox'[w]) : hbox'[w][k] = "HART_START"
  BY <1>2, <1>7
<1>8. ASSUME NEW h \in Hart,
             \/ Riscv!CheckIpi(h) \/ Riscv!HandlerReturns(h) \/ Riscv!Wake(h) \/ Riscv!GuestAck(h)
             \/ Riscv!sbi_timer_irq_handler(h)
             \/ \E harts \in SUBSET Hart \ {{}} : Riscv!sbi_ipi_handler(h, harts)
             \/ \E t \in 0 .. MAX_TIME : Riscv!sbi_time_handler(h, t)
      PROVE  hbox' = hbox /\ hstate' = hstate /\ hdropped' = hdropped
  BY <1>8 DEF Riscv!CheckIpi, Riscv!HandlerReturns, Riscv!Wake, Riscv!GuestAck,
              Riscv!sbi_timer_irq_handler, Riscv!sbi_ipi_handler, Riscv!sbi_time_handler, Riscv!power
<1>9. ASSUME Riscv!Tick PROVE hbox' = hbox /\ hstate' = hstate /\ hdropped' = hdropped
  BY <1>9 DEF Riscv!Tick, Riscv!power
<1> QED
  BY <1>4, <1>5, <1>6, <1>7, <1>8, <1>9 DEF Riscv!Next, Riscv!Hypervisor, Hart

(* Every step of SBI keeps its invariant.                                   *)
LEMMA SbiStep == SbiInv /\ [Riscv!Next]_hvars => SbiInv'
<1> SUFFICES ASSUME SbiInv, [Riscv!Next]_hvars PROVE SbiInv'
  OBVIOUS
<1>1. Riscv!TypeOK
  BY DEF SbiInv
<1>2. CASE UNCHANGED hvars
  <2>1. /\ hstate' = hstate /\ hstart_addr' = hstart_addr /\ hregs' = hregs /\ hbox' = hbox
        /\ hmask' = hmask /\ hpc' = hpc /\ hhvip' = hhvip /\ hstie' = hstie /\ hcmp' = hcmp
        /\ hnow' = hnow /\ hcalls' = hcalls /\ hdropped' = hdropped
    BY <1>2 DEF hvars
  <2>2. Riscv!TypeOK'
    BY <1>1, <2>1 DEF Riscv!TypeOK
  <2>3. OnlyStartedRuns' /\ StartHasMessage'
    BY <2>1 DEF SbiInv, OnlyStartedRuns, StartHasMessage
  <2>4. Riscv!TimerNotEarly' /\ Riscv!TimerNoStorm'
    BY <2>1 DEF SbiInv, Riscv!TimerNotEarly, Riscv!TimerNoStorm
  <2> QED
    BY <2>2, <2>3, <2>4 DEF SbiInv
<1>3. CASE Riscv!Next
  <2>1. Riscv!TypeOK' /\ StartHasMessage'
    BY <1>1, <1>3, SbiTypes, SbiMessages
  <2> DEFINE Started == \A w \in Hart : hpc'[w] = "guest" => hstate'[w] = "STARTED"
             NotEarly == \A w \in Hart : "VSTIP" \in hhvip'[w] => hnow' >= hcmp'[w]
             NoStorm == \A w \in Hart : hstie'[w] => "VSTIP" \notin hhvip'[w]
  <2>2. /\ hstate \in [Hart -> {"STOPPED", "START_PENDING", "STARTED"}]
        /\ hpc \in [Hart -> {"guest", "powerdown", "check", "drain"}]
        /\ hhvip \in [Hart -> SUBSET {"VSSIP", "VSTIP"}]
        /\ hstie \in [Hart -> BOOLEAN]
        /\ hcmp \in [Hart -> 0 .. Riscv!Never]
        /\ hnow \in 0 .. MAX_TIME /\ MAX_TIME \in Nat /\ Riscv!Never = MAX_TIME + 1
    BY <1>1, HartTypes DEF Riscv!TypeOK, Hart
  <2>3. /\ \A w \in Hart : hpc[w] = "guest" => hstate[w] = "STARTED"
        /\ \A w \in Hart : "VSTIP" \in hhvip[w] => hnow >= hcmp[w]
        /\ \A w \in Hart : hstie[w] => "VSTIP" \notin hhvip[w]
    BY DEF SbiInv, OnlyStartedRuns, Riscv!TimerNotEarly, Riscv!TimerNoStorm, Hart
  <2> USE DEF Riscv!power, Riscv!timer
  <2>4. ASSUME Riscv!Tick PROVE Started /\ NotEarly /\ NoStorm
    BY <2>2, <2>3, <2>4 DEF Riscv!Tick
  <2>5. ASSUME NEW h \in Hart, Riscv!SendIpi(h) PROVE Started /\ NotEarly /\ NoStorm
    BY <2>3, <2>5 DEF Riscv!SendIpi
  <2>6. ASSUME NEW h \in Hart, Riscv!HandleMsg(h) PROVE Started /\ NotEarly /\ NoStorm
    <3> DEFINE m == Head(hbox[h])
    <3>1. Riscv!sbi_msg_handler(h, m) /\ UNCHANGED <<hpc, hstie, hcmp, hnow>>
      BY <2>6 DEF Riscv!HandleMsg
    <3> HIDE DEF m
    <3>2. \/ hstate' = hstate /\ hhvip' = [hhvip EXCEPT ![h] = @ \cup {"VSSIP"}]
          \/ hstate' = [hstate EXCEPT ![h] = "STARTED"] /\ hhvip' = [hhvip EXCEPT ![h] = {}]
          \/ hstate' = hstate /\ hhvip' = hhvip
      BY <3>1 DEF Riscv!sbi_msg_handler
    <3>3. \A w \in Hart : "VSTIP" \in hhvip'[w] => "VSTIP" \in hhvip[w]
      BY <2>2, <3>2
    <3>4. Started
      BY <2>2, <2>3, <3>1, <3>2
    <3> QED
      BY <2>3, <3>1, <3>3, <3>4
  <2>7. ASSUME NEW h \in Hart, Riscv!CheckIpi(h) \/ Riscv!HandlerReturns(h) \/ Riscv!Wake(h)
        PROVE  Started /\ NotEarly /\ NoStorm
    <3>1. /\ UNCHANGED <<hstate, hhvip, hstie, hcmp, hnow>>
          /\ \E where \in {"guest", "powerdown", "check", "drain"} :
                 /\ hpc' = [hpc EXCEPT ![h] = where]
                 /\ where = "guest" => hstate[h] = "STARTED"
      BY <2>7 DEF Riscv!CheckIpi, Riscv!HandlerReturns, Riscv!Wake, Riscv!Goto, Riscv!RunTarget
    <3> QED
      BY <2>2, <2>3, <3>1
  <2>8. ASSUME NEW h \in Hart, Riscv!GuestAck(h) PROVE Started /\ NotEarly /\ NoStorm
    BY <2>2, <2>3, <2>8 DEF Riscv!GuestAck
  <2>9. ASSUME NEW h \in Hart, Riscv!sbi_timer_irq_handler(h) PROVE Started /\ NotEarly /\ NoStorm
    BY <2>2, <2>3, <2>9 DEF Riscv!sbi_timer_irq_handler
  <2>10. ASSUME NEW h \in Hart, NEW t \in Hart, NEW a \in Entry, Riscv!sbi_hsm_start_handler(h, t, a)
         PROVE  Started /\ NotEarly /\ NoStorm
    <3>1. UNCHANGED <<hpc, hhvip, hstie, hcmp, hnow>>
      BY <2>10 DEF Riscv!sbi_hsm_start_handler
    <3>2. hstate' = hstate \/ (hstate[t] = "STOPPED" /\ hstate' = [hstate EXCEPT ![t] = "START_PENDING"])
      BY <2>10 DEF Riscv!sbi_hsm_start_handler
    <3>3. Started
      BY <2>2, <2>3, <3>1, <3>2
    <3> QED
      BY <2>3, <3>1, <3>3
  <2>11. ASSUME NEW h \in Hart, NEW harts \in SUBSET Hart \ {{}}, Riscv!sbi_ipi_handler(h, harts)
         PROVE  Started /\ NotEarly /\ NoStorm
    BY <2>3, <2>11 DEF Riscv!sbi_ipi_handler
  <2>12. ASSUME NEW h \in Hart, NEW t \in 0 .. MAX_TIME, Riscv!sbi_time_handler(h, t)
         PROVE  Started /\ NotEarly /\ NoStorm
    <3>1. /\ UNCHANGED <<hstate, hpc, hnow>>
          /\ hcmp' = [hcmp EXCEPT ![h] = t]
          /\ hhvip' = [hhvip EXCEPT ![h] = @ \ {"VSTIP"}]
          /\ hstie' = [hstie EXCEPT ![h] = TRUE]
      BY <2>12 DEF Riscv!sbi_time_handler
    <3>2. "VSTIP" \notin hhvip'[h] /\ \A w \in Hart : w # h => hhvip'[w] = hhvip[w]
      BY <2>2, <3>1
    <3>3. hcmp'[h] = t /\ \A w \in Hart : w # h => hcmp'[w] = hcmp[w] /\ hstie'[w] = hstie[w]
      BY <2>2, <3>1
    <3>4. Started
      BY <2>3, <3>1
    <3>5. NotEarly
      BY <2>2, <2>3, <3>1, <3>2, <3>3
    <3>6. NoStorm
      BY <2>3, <3>2, <3>3
    <3> QED
      BY <3>4, <3>5, <3>6
  <2>13. Started /\ NotEarly /\ NoStorm
    BY <1>3, <2>4, <2>5, <2>6, <2>7, <2>8, <2>9, <2>10, <2>11, <2>12
       DEF Riscv!Next, Riscv!Hypervisor, Hart
  <2>14. OnlyStartedRuns' /\ Riscv!TimerNotEarly' /\ Riscv!TimerNoStorm'
    BY <2>13 DEF OnlyStartedRuns, Riscv!TimerNotEarly, Riscv!TimerNoStorm, Hart
  <2> QED
    BY <2>1, <2>14 DEF SbiInv
<1> QED
  BY <1>2, <1>3

(* What the guest sees of a hart, as VcpuPower says it.                     *)
HartPower(h) ==
    CASE hstate[h] = "STOPPED" -> "off"
      [] hstate[h] = "START_PENDING" -> "pending"
      [] OTHER -> "on"

HartEntry(h) == IF hstate[h] = "START_PENDING" THEN hstart_addr[h] ELSE NoEntry

HartStart(h) == IF hstate[h] = "STARTED" THEN hregs[h] ELSE NoEntry

(* A step that is seen at one hart only.                                    *)
LEMMA HartSeenAt ==
    ASSUME NEW h \in Hart,
           \A w \in Hart \ {h} : HartPower(w)' = HartPower(w) /\ HartEntry(w)' = HartEntry(w)
                                    /\ HartStart(w)' = HartStart(w)
    PROVE  /\ HartPower(h) = "off" /\ HartPower(h)' = "pending" /\ HartEntry(h)' \in Entry
                  /\ HartStart(h)' = HartStart(h) => Riscv!Power!Next
           /\ HartPower(h) = "pending" /\ HartPower(h)' = "on" /\ HartStart(h)' = HartEntry(h)
                  /\ HartEntry(h)' = NoEntry => Riscv!Power!Next
           /\ HartPower(h)' = HartPower(h) /\ HartEntry(h)' = HartEntry(h)
                  /\ HartStart(h)' = HartStart(h) => UNCHANGED Riscv!Power!vars
<1> DEFINE P == [w \in Hart |-> HartPower(w)]
           E == [w \in Hart |-> HartEntry(w)]
           S == [w \in Hart |-> HartStart(w)]
<1>1. /\ P' = [P EXCEPT ![h] = HartPower(h)'] /\ E' = [E EXCEPT ![h] = HartEntry(h)']
      /\ S' = [S EXCEPT ![h] = HartStart(h)']
  OBVIOUS
<1>2. P[h] = HartPower(h) /\ E[h] = HartEntry(h) /\ S[h] = HartStart(h)
  OBVIOUS
<1>3. /\ \A e \in Entry : (P[h] = "off" /\ P' = [P EXCEPT ![h] = "pending"]
                             /\ E' = [E EXCEPT ![h] = e] /\ S' = S) => Riscv!Power!Next
      /\ (P[h] = "pending" /\ P' = [P EXCEPT ![h] = "on"]
             /\ S' = [S EXCEPT ![h] = E[h]] /\ E' = [E EXCEPT ![h] = NoEntry]) => Riscv!Power!Next
  BY DEF Riscv!Power!Next, Riscv!Power!TurnOn, Riscv!Power!Start, HartPower, HartEntry, HartStart, Hart
<1>4. P' = P /\ E' = E /\ S' = S => UNCHANGED Riscv!Power!vars
  BY DEF Riscv!Power!vars, HartPower, HartEntry, HartStart, Hart
<1>5. /\ HartStart(h)' = HartStart(h) => S' = S
      /\ HartEntry(h)' = HartEntry(h) => E' = E
      /\ HartPower(h)' = HartPower(h) => P' = P
  OBVIOUS
<1> HIDE DEF P, E, S
<1> QED
  BY <1>1, <1>2, <1>3, <1>4, <1>5

(* Every step of SBI is one of VcpuPower, or not seen by the guest.         *)
LEMMA SbiRefines == SbiInv /\ [Riscv!Next]_hvars => [Riscv!Power!Next]_Riscv!Power!vars
<1> SUFFICES ASSUME SbiInv, [Riscv!Next]_hvars
             PROVE  Riscv!Power!Next \/ UNCHANGED Riscv!Power!vars
  OBVIOUS
<1>1. /\ hstate \in [Hart -> {"STOPPED", "START_PENDING", "STARTED"}]
      /\ hstart_addr \in [Hart -> Entry \cup {NoEntry}]
      /\ hregs \in [Hart -> Entry \cup {NoEntry}]
  BY DEF SbiInv, Riscv!TypeOK, Hart
<1> DEFINE Same(w) == HartPower(w)' = HartPower(w) /\ HartEntry(w)' = HartEntry(w)
                         /\ HartStart(w)' = HartStart(w)
<1>2. ASSUME UNCHANGED <<hstate, hstart_addr, hregs>> PROVE UNCHANGED Riscv!Power!vars
  BY <1>2 DEF Riscv!Power!vars
<1>3. ASSUME NEW h \in Hart, NEW t \in Hart, NEW a \in Entry, Riscv!sbi_hsm_start_handler(h, t, a)
      PROVE  Riscv!Power!Next \/ UNCHANGED Riscv!Power!vars
  <2>1. CASE t = h \/ hstate[t] # "STOPPED"
    BY <1>2, <1>3, <2>1 DEF Riscv!sbi_hsm_start_handler
  <2>2. CASE ~(t = h \/ hstate[t] # "STOPPED")
    <3>1. /\ hstate[t] = "STOPPED" /\ hstate' = [hstate EXCEPT ![t] = "START_PENDING"]
          /\ hstart_addr' = [hstart_addr EXCEPT ![t] = a]
          /\ hregs' = hregs
      BY <1>3, <2>2 DEF Riscv!sbi_hsm_start_handler
    <3>2. \A w \in Hart \ {t} : Same(w)
      BY <1>1, <3>1 DEF HartPower, HartEntry, HartStart
    <3>3. /\ HartPower(t) = "off" /\ HartPower(t)' = "pending" /\ HartEntry(t)' \in Entry
          /\ HartStart(t)' = HartStart(t)
      BY <1>1, <3>1 DEF HartPower, HartEntry, HartStart
    <3> QED
      BY <3>2, <3>3, HartSeenAt
  <2> QED
    BY <2>1, <2>2
<1>4. ASSUME NEW h \in Hart, Riscv!HandleMsg(h)
      PROVE  Riscv!Power!Next \/ UNCHANGED Riscv!Power!vars
  <2> DEFINE m == Head(hbox[h])
  <2>1. Riscv!sbi_msg_handler(h, m) /\ hstart_addr' = hstart_addr
    BY <1>4 DEF Riscv!HandleMsg
  <2> HIDE DEF m
  <2>2. \/ hstate' = hstate /\ hregs' = hregs
        \/ /\ hstate[h] = "START_PENDING" /\ hstate' = [hstate EXCEPT ![h] = "STARTED"]
           /\ hregs' = [hregs EXCEPT ![h] = hstart_addr[h]]
    BY <2>1 DEF Riscv!sbi_msg_handler
  <2>3. CASE hstate' = hstate /\ hregs' = hregs
    BY <1>2, <2>1, <2>3
  <2>4. CASE /\ hstate[h] = "START_PENDING" /\ hstate' = [hstate EXCEPT ![h] = "STARTED"]
             /\ hregs' = [hregs EXCEPT ![h] = hstart_addr[h]]
    <3>1. \A w \in Hart \ {h} : Same(w)
      BY <1>1, <2>1, <2>4 DEF HartPower, HartEntry, HartStart
    <3>2. /\ HartPower(h) = "pending" /\ HartPower(h)' = "on" /\ HartStart(h)' = HartEntry(h)
          /\ HartEntry(h)' = NoEntry
      BY <1>1, <2>1, <2>4 DEF HartPower, HartEntry, HartStart
    <3> QED
      BY <3>1, <3>2, HartSeenAt
  <2> QED
    BY <2>2, <2>3, <2>4
<1>5. ASSUME NEW h \in Hart,
             \/ Riscv!SendIpi(h) \/ Riscv!CheckIpi(h) \/ Riscv!HandlerReturns(h) \/ Riscv!Wake(h)
             \/ Riscv!GuestAck(h) \/ Riscv!sbi_timer_irq_handler(h)
             \/ \E harts \in SUBSET Hart \ {{}} : Riscv!sbi_ipi_handler(h, harts)
             \/ \E t \in 0 .. MAX_TIME : Riscv!sbi_time_handler(h, t)
      PROVE  UNCHANGED <<hstate, hstart_addr, hregs>>
  BY <1>5 DEF Riscv!SendIpi, Riscv!CheckIpi, Riscv!HandlerReturns, Riscv!Wake, Riscv!GuestAck,
              Riscv!sbi_timer_irq_handler, Riscv!sbi_ipi_handler, Riscv!sbi_time_handler, Riscv!power
<1>6. ASSUME Riscv!Tick \/ UNCHANGED hvars PROVE UNCHANGED <<hstate, hstart_addr, hregs>>
  BY <1>6 DEF Riscv!Tick, Riscv!power, hvars
<1> QED
  BY <1>2, <1>3, <1>4, <1>5, <1>6 DEF Riscv!Next, Riscv!Hypervisor, Hart

----------------------------------------------------------------------------
(* RH850: a vCPU whose bit is set and whose CPU sleeps has an IPI pending,  *)
(* or is one that a handler has still to notify.                            *)
SleeperIsNotified ==
    \A v \in VCPU :
        v \in bstarted /\ bpc[v] = "powerdown" => v \in bipi \/ \E u \in VCPU : v \in bnotify[u]

(* The inductive invariant of the boot control register.  A handler that    *)
(* has still to notify is in the guest, where nothing but its own loop      *)
(* moves its vCPU.                                                          *)
BootctrlInv ==
    /\ bstarted \subseteq VCPU
    /\ bnotify \in [VCPU -> SUBSET VCPU]
    /\ bipi \subseteq VCPU
    /\ bpc \in [VCPU -> {"guest", "run", "powerdown"}]
    /\ \A v \in VCPU : bnotify[v] # {} => bpc[v] = "guest"
    /\ SleeperIsNotified

(* The first vCPU is started and every CPU is on its way to vcpu_run.       *)
LEMMA InitBootctrl == Rh850!Init => BootctrlInv
  BY PsciAssumption DEF Rh850!Init, BootctrlInv, SleeperIsNotified

(* Every step of the boot control register keeps its invariant.             *)
LEMMA BootctrlStep == BootctrlInv /\ [Rh850!Next]_bvars => BootctrlInv'
<1> SUFFICES ASSUME BootctrlInv, [Rh850!Next]_bvars PROVE BootctrlInv'
  OBVIOUS
<1> USE DEF BootctrlInv, SleeperIsNotified
<1>1. CASE UNCHANGED bvars
  BY <1>1 DEF bvars
<1>2. ASSUME NEW v \in VCPU, Rh850!Run(v) PROVE BootctrlInv'
  BY <1>2 DEF Rh850!Run
<1>3. ASSUME NEW v \in VCPU, Rh850!vbootctrl_emul_handler(v) PROVE BootctrlInv'
  <2>1. PICK S \in SUBSET VCPU \ {{}} : /\ bnotify' = [bnotify EXCEPT ![v] = S \ bstarted]
                                        /\ bstarted' = bstarted \cup S
    BY <1>3 DEF Rh850!vbootctrl_emul_handler
  <2>2. bnotify[v] = {} /\ bpc[v] = "guest" /\ UNCHANGED <<bipi, bpc>>
    BY <1>3 DEF Rh850!vbootctrl_emul_handler
  <2>3. ASSUME NEW w \in VCPU, w \in bstarted', bpc[w] = "powerdown"
        PROVE  w \in bipi \/ \E u \in VCPU : w \in bnotify'[u]
    <3>1. CASE w \in bstarted
      <4>1. w \in bipi \/ \E u \in VCPU \ {v} : w \in bnotify[u]
        BY <2>2, <2>3, <3>1
      <4> QED
        BY <2>1, <4>1
    <3>2. CASE w \notin bstarted
      <4>1. w \in bnotify'[v]
        BY <2>1, <2>3, <3>2
      <4> QED
        BY <4>1
    <3> QED
      BY <3>1, <3>2
  <2> QED
    BY <2>1, <2>2, <2>3
<1>4. ASSUME NEW v \in VCPU, Rh850!NotifyCpus(v) PROVE BootctrlInv'
  BY <1>4 DEF Rh850!NotifyCpus
<1>5. ASSUME NEW v \in VCPU, Rh850!Wake(v) PROVE BootctrlInv'
  BY <1>5 DEF Rh850!Wake
<1> QED
  BY <1>1, <1>2, <1>3, <1>4, <1>5 DEF Rh850!Next

----------------------------------------------------------------------------
(* The inductive invariant of the ports: each keeps its own, and what is    *)
(* not the platform stays as it was.                                        *)
PortsInv == PsciInv /\ SbiInv /\ BootctrlInv

(* A step of the ports is a step of one of them, or leaves it alone.        *)
LEMMA PortSteps ==
    [MCNext]_<<port, vars, hvars, bvars>> => [Next]_vars /\ [Riscv!Next]_hvars /\ [Rh850!Next]_bvars
  BY DEF MCNext

(* So every reachable state satisfies it.                                   *)
LEMMA PortsInvariant == MCSpec => []PortsInv
<1>1. MCInit => PortsInv
  BY InitPsci, InitSbi, InitBootctrl DEF MCInit, PortsInv
<1>2. PortsInv /\ [MCNext]_<<port, vars, hvars, bvars>> => PortsInv'
  BY PortSteps, PsciStep, SbiStep, BootctrlStep DEF PortsInv
<1>3. MCSpec => MCInit /\ [][MCNext]_<<port, vars, hvars, bvars>>
  BY PTL DEF MCSpec
<1> QED
  BY <1>1, <1>2, <1>3, PTL

(* psci.c and sbi.c give the guest the view of VcpuPower: one caller turns  *)
(* a vCPU on (psci_cpu_on_handler, sbi_hsm_start_handler), and it runs once *)
(* (psci_wake_from_off, sbi_msg_handler), from the entry point of that      *)
(* caller, however calls, messages and wake-ups interleave.                 *)
THEOREM PowerIsImplemented == MCSpec => PortsImplementVcpuPower
<1>1. MCInit => Power!Init /\ Riscv!Power!Init
  BY InitPsci, InitSbi DEF MCInit
<1>2. PortsInv /\ [MCNext]_<<port, vars, hvars, bvars>> =>
          [Power!Next]_Power!vars /\ [Riscv!Power!Next]_Riscv!Power!vars
  BY PortSteps, PsciRefines, SbiRefines DEF PortsInv
<1>3. MCSpec => MCInit /\ [][MCNext]_<<port, vars, hvars, bvars>>
  BY PTL DEF MCSpec
<1>4. MCSpec => Power!Init /\ [][Power!Next]_Power!vars
                /\ Riscv!Power!Init /\ [][Riscv!Power!Next]_Riscv!Power!vars
  BY <1>1, <1>2, <1>3, PortsInvariant, PTL
<1> QED
  BY <1>4 DEF PortsImplementVcpuPower, ImplementsVcpuPower, Power!Spec, Riscv!ImplementsVcpuPower,
              Riscv!Power!Spec

(* The variables keep their types, the queues of messages their capacity.   *)
THEOREM PortsTypes == MCSpec => []TypesOK
<1>1. PortsInv => TypesOK
  BY DEF PortsInv, PsciInv, SbiInv, TypesOK
<1> QED
  BY <1>1, PortsInvariant, PTL

(* A vCPU that was turned on and does not run yet is not forgotten: on Arm  *)
(* and RISC-V its message is in the queue of its CPU, or about to be sent,  *)
(* unless the queue was full (cpu_send_msg drops the message then); on      *)
(* RH850 the IPI is pending, or vbootctrl_emul_handler is about to send it, *)
(* although the bit is set first and the CPU may be on its way to sleep.    *)
THEOREM StartsAreDelivered ==
    MCSpec => [](PendingHasMessage /\ StartHasMessage /\ SleeperIsNotified)
<1>1. PortsInv => PendingHasMessage /\ StartHasMessage /\ SleeperIsNotified
  BY DEF PortsInv, PsciInv, SbiInv, BootctrlInv
<1> QED
  BY <1>1, PortsInvariant, PTL

(* A guest executes only on a vCPU that is on, also after a CPU was woken   *)
(* for nothing (vcpu_run, psci_wake).                                       *)
THEOREM OnlyStartedExecute == MCSpec => [](OnlyOnRuns /\ OnlyStartedRuns)
<1>1. PortsInv => OnlyOnRuns /\ OnlyStartedRuns
  BY DEF PortsInv, PsciInv, SbiInv
<1> QED
  BY <1>1, PortsInvariant, PTL

(* The guest never has a timer interrupt pending before the deadline it set *)
(* last, and one that it has pending does not interrupt the hypervisor      *)
(* again (sbi_time_handler, sbi_timer_irq_handler).                         *)
THEOREM TimerIsInTime == MCSpec => [](TimerNotEarly /\ TimerNoStorm)
<1>1. PortsInv => TimerNotEarly /\ TimerNoStorm
  BY DEF PortsInv, SbiInv, TimerNotEarly, TimerNoStorm
<1> QED
  BY <1>1, PortsInvariant, PTL

=============================================================================
