----------------------------- MODULE VcpuPower -----------------------------
(***************************************************************************)
(* What the power-management calls of a guest promise (PSCI on Arm, the SBI *)
(* hart state management on RISC-V): a vCPU that is off can be turned on by *)
(* one caller, and then runs, once, from the entry point that caller gave.  *)
(* The entry point is the caller's until the vCPU runs; nobody else can     *)
(* change it meanwhile.                                                     *)
(***************************************************************************)
CONSTANTS VCPU, Entry, NoEntry, Boot

VARIABLES
    power,   \* power[v]: "off", "pending", "on" or "suspended"
    entry,   \* entry[v]: where v will start, NoEntry if that is open
    start    \* start[v]: where v started running, NoEntry if it does not run

vars == <<power, entry, start>>

Init ==
    /\ power = [v \in VCPU |-> IF v = Boot THEN "on" ELSE "off"]
    /\ entry = [v \in VCPU |-> NoEntry]
    /\ start = [v \in VCPU |-> NoEntry]

TurnOn(v, e) ==
    /\ power[v] = "off"
    /\ power' = [power EXCEPT ![v] = "pending"]
    /\ entry' = [entry EXCEPT ![v] = e]
    /\ UNCHANGED start

Suspend(v, e) ==
    /\ power[v] = "on"
    /\ power' = [power EXCEPT ![v] = "suspended"]
    /\ entry' = [entry EXCEPT ![v] = e]
    /\ UNCHANGED start

Start(v) ==
    /\ power[v] \in {"pending", "suspended"}
    /\ power' = [power EXCEPT ![v] = "on"]
    /\ start' = [start EXCEPT ![v] = entry[v]]
    /\ entry' = [entry EXCEPT ![v] = NoEntry]

(* A suspension that did not take place.                                    *)
Return(v) ==
    /\ power[v] = "suspended"
    /\ power' = [power EXCEPT ![v] = "on"]
    /\ entry' = [entry EXCEPT ![v] = NoEntry]
    /\ UNCHANGED start

TurnOff(v) ==
    /\ power[v] = "on"
    /\ power' = [power EXCEPT ![v] = "off"]
    /\ start' = [start EXCEPT ![v] = NoEntry]
    /\ UNCHANGED entry

Next ==
    \E v \in VCPU :
        \/ Start(v) \/ Return(v) \/ TurnOff(v)
        \/ \E e \in Entry : TurnOn(v, e) \/ Suspend(v, e)

Spec == Init /\ [][Next]_vars

=============================================================================
