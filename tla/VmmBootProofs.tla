--------------------------- MODULE VmmBootProofs ---------------------------
(****************************************************************************)
(* The assignment of CPUs to VMs and the start of the VMs, for any number   *)
(* of CPUs and VMs and any configuration, also one that asks for more CPUs  *)
(* than there are: the bookkeeping of vm_assign is exact under every        *)
(* interleaving, a CPU is powered down only when every VM is complete, and  *)
(* nothing that one CPU of a VM initialises is used by another before it is *)
(* there.                                                                   *)
(*                                                                          *)
(* The last needs the barriers. One counter serves the five of vm_init and  *)
(* is never reset, so Counted says that it is the sum of the arrivals at    *)
(* all five, Waits that a CPU waits for the end of its own round, and       *)
(* Passed that nobody is past a barrier that is not complete; only          *)
(* together, and with the exact books of AInv, are they inductive.          *)
(****************************************************************************)
EXTENDS VmmBoot, FiniteSetTheorems, TLAPS

(* The types of what vm_assign keeps.                                       *)
AssignTypes ==
    /\ config \in Configs
    /\ assign \in [VM -> [master : BOOLEAN, ncpus : Nat, cpus : SUBSET CPU,
                          install_info_ready : BOOLEAN]]
    /\ is_master \in [CPU -> BOOLEAN]
    /\ vm_id \in [CPU -> VM \cup {INVALID}]
    /\ i \in [CPU -> Nat]
    /\ pc \in [CPU -> Phase]
    /\ DOMAIN next_count = CPU

(* The flag says whether the VM has a CPU.                                  *)
MasterFlag == \A v \in VM : assign[v].master <=> assign[v].cpus # {}

(* The inductive invariant behind AssignmentConsistent.                     *)
AInv == AssignTypes /\ AssignmentConsistent /\ MasterFlag

(* A VM that has the CPUs it asks for.                                      *)
Full(v) == assign[v].ncpus = config[v].cpu_num

(* How far a CPU without a VM has come: the VMs it skipped in the second    *)
(* loop are full.                                                           *)
ScanInv ==
    \A c \in CPU :
        /\ pc[c] = "affinity" /\ next_count[c] > 0 => i[c] = 0
        /\ pc[c] = "remaining" /\ vm_id[c] = INVALID => \A v \in VM : v < i[c] => Full(v)
        /\ pc[c] = "powerdown" => \A v \in VM : Full(v)

(* A VM takes c: what the code tests before it does.                        *)
Takes(c, v) ==
    /\ vm_id[c] = INVALID
    /\ ~assign[v].master \/ HasRoom(v)
    /\ Join(c, v)

(* The types of the constants.                                              *)
LEMMA Sorts ==
    /\ VM \subseteq Nat
    /\ INVALID \notin VM
    /\ IsFiniteSet(CPU)
    /\ \A k \in Nat : k < NVM => k \in VM
    /\ \A cf \in Configs, v \in VM : cf[v].cpu_num \in Nat /\ cf[v].cpu_num > 0
<1>1. IsFiniteSet(CPU)
  BY BootAssumption, FS_Interval DEF CPU
<1>2. ASSUME NEW cf \in Configs, NEW v \in VM
      PROVE  cf[v].cpu_num \in Nat /\ cf[v].cpu_num > 0
  <2>1. cf[v] \in [cpu_num : CpuNums, affinity : Affinities]
    BY DEF Configs
  <2>2. cf[v].cpu_num \in CpuNums
    BY <2>1
  <2>3. \A k \in CpuNums : k \in Nat /\ k > 0
    BY BootAssumption
  <2> QED
    BY <2>2, <2>3
<1>3. VM \subseteq Nat /\ \A k \in Nat : k < NVM => k \in VM
  BY BootAssumption DEF VM
<1>4. INVALID \notin VM
  BY BootAssumption DEF VM
<1> QED
  BY <1>1, <1>2, <1>3, <1>4

(* What Join writes.                                                        *)
LEMMA Joined ==
    ASSUME AssignTypes, NEW c \in CPU, NEW v \in VM, Join(c, v)
    PROVE  /\ assign'[v].master
           /\ assign'[v].ncpus = assign[v].ncpus + 1
           /\ assign'[v].cpus = assign[v].cpus \cup {c}
           /\ \A w \in VM : w # v => assign'[w] = assign[w]
           /\ is_master' = [is_master EXCEPT ![c] = ~assign[v].master]
           /\ vm_id' = [vm_id EXCEPT ![c] = v]
           /\ i' = i
<1>1. assign'[v] = [master |-> TRUE, ncpus |-> assign[v].ncpus + 1,
                    cpus |-> assign[v].cpus \cup {c},
                    install_info_ready |-> assign[v].install_info_ready]
  BY Zenon DEF Join, AssignTypes
<1>2. assign[v] \in [master : BOOLEAN, ncpus : Nat, cpus : SUBSET CPU,
                     install_info_ready : BOOLEAN]
  BY DEF AssignTypes
<1>3. \A w \in VM : w # v => assign'[w] = assign[w]
  BY Zenon DEF Join, AssignTypes
<1>4. /\ is_master' = [is_master EXCEPT ![c] = ~assign[v].master]
      /\ vm_id' = [vm_id EXCEPT ![c] = v]
      /\ i' = i
  BY Zenon DEF Join
<1> QED
  BY <1>1, <1>2, <1>3, <1>4

(* A CPU that joins keeps the types.                                        *)
LEMMA JoinTypes ==
    ASSUME AssignTypes, NEW c \in CPU, NEW v \in VM, Join(c, v)
    PROVE  /\ assign' \in [VM -> [master : BOOLEAN, ncpus : Nat, cpus : SUBSET CPU,
                                  install_info_ready : BOOLEAN]]
           /\ is_master' \in [CPU -> BOOLEAN]
           /\ vm_id' \in [CPU -> VM \cup {INVALID}]
<1> DEFINE rec == [master |-> TRUE, ncpus |-> assign[v].ncpus + 1,
                   cpus |-> assign[v].cpus \cup {c},
                   install_info_ready |-> assign[v].install_info_ready]
<1> DEFINE R == [master : BOOLEAN, ncpus : Nat, cpus : SUBSET CPU, install_info_ready : BOOLEAN]
<1>1. assign' = [assign EXCEPT ![v] = rec]
  BY Zenon DEF Join
<1>2. assign[v] \in R /\ assign \in [VM -> R]
  BY DEF AssignTypes
<1>3. rec \in R
  <2>1. assign[v].ncpus + 1 \in Nat /\ assign[v].cpus \cup {c} \in SUBSET CPU
    BY <1>2
  <2>2. assign[v].install_info_ready \in BOOLEAN
    BY <1>2
  <2> QED
    BY <2>1, <2>2, Zenon
<1> HIDE DEF rec, R
<1>4. assign' \in [VM -> R]
  BY <1>1, <1>2, <1>3
<1>5. is_master' \in [CPU -> BOOLEAN]
  BY Zenon DEF Join, AssignTypes
<1>6. vm_id' \in [CPU -> VM \cup {INVALID}]
  BY DEF Join, AssignTypes
<1> QED
  BY <1>4, <1>5, <1>6, Zenon DEF R

(* A CPU that joins keeps the books exact.                                  *)
LEMMA TakesPreserves ==
    ASSUME AInv, NEW c \in CPU, NEW v \in VM, Takes(c, v), UNCHANGED config
    PROVE  /\ AssignmentConsistent'
           /\ MasterFlag'
           /\ \A w \in VM : Full(w) => Full(w)'
<1> USE DEF AInv
<1>1. Join(c, v) /\ vm_id[c] = INVALID /\ (~assign[v].master \/ HasRoom(v))
  BY Zenon DEF Takes
<1>2. /\ assign'[v].master
      /\ assign'[v].ncpus = assign[v].ncpus + 1
      /\ assign'[v].cpus = assign[v].cpus \cup {c}
      /\ \A w \in VM : w # v => assign'[w] = assign[w]
      /\ is_master' = [is_master EXCEPT ![c] = ~assign[v].master]
      /\ vm_id' = [vm_id EXCEPT ![c] = v]
  BY <1>1, Joined, Zenon
<1>3. /\ config[v].cpu_num \in Nat /\ config[v].cpu_num > 0
      /\ assign[v].ncpus \in Nat
      /\ INVALID \notin VM
  <2>1. assign[v] \in [master : BOOLEAN, ncpus : Nat, cpus : SUBSET CPU,
                       install_info_ready : BOOLEAN]
    BY DEF AssignTypes
  <2> QED
    BY <2>1, Sorts DEF AssignTypes
<1>4. assign[v].cpus = {d \in CPU : vm_id[d] = v} /\ assign[v].ncpus = Cardinality(assign[v].cpus)
  BY Zenon DEF AssignmentConsistent
<1>5. c \notin assign[v].cpus
  BY <1>1, <1>3, <1>4
<1>6. IsFiniteSet(assign[v].cpus)
  BY <1>4, Sorts, FS_Subset
<1>7. Cardinality(assign'[v].cpus) = assign'[v].ncpus
  <2>1. Cardinality(assign[v].cpus \cup {c}) = Cardinality(assign[v].cpus) + 1
    BY <1>5, <1>6, FS_AddElement, Zenon
  <2> QED
    BY <2>1, <1>2, <1>4, Zenon
<1>8. assign[v].ncpus < config[v].cpu_num
  <2>1. CASE ~assign[v].master
    <3>1. assign[v].cpus = {}
      BY <2>1 DEF MasterFlag
    <3> QED
      BY <3>1, <1>3, <1>4, FS_EmptySet
  <2>2. CASE HasRoom(v)
    BY <2>2 DEF HasRoom
  <2> QED
    BY <2>1, <2>2, <1>1
<1>9. assign'[v].ncpus <= config'[v].cpu_num
  BY <1>2, <1>3, <1>8
<1>10. \A w \in VM : assign'[w].cpus = {d \in CPU : vm_id'[d] = w}
  <2>1. \A w \in VM : assign[w].cpus = {d \in CPU : vm_id[d] = w}
    BY DEF AssignmentConsistent
  <2>2. vm_id \in [CPU -> VM \cup {INVALID}]
    BY DEF AssignTypes
  <2> QED
    BY <1>1, <1>2, <1>3, <2>1, <2>2
<1>11. \E m \in assign'[v].cpus : {d \in assign'[v].cpus : is_master'[d]} = {m}
  <2>0. is_master \in [CPU -> BOOLEAN] /\ assign[v].cpus \subseteq CPU
    BY <1>4 DEF AssignTypes
  <2>1. CASE ~assign[v].master
    <3>1. assign[v].cpus = {}
      BY <2>1 DEF MasterFlag
    <3>2. assign'[v].cpus = {c} /\ is_master'[c]
      BY <3>1, <2>0, <2>1, <1>2, Zenon
    <3> QED
      BY <3>2
  <2>2. CASE assign[v].master
    <3>1. assign[v].cpus # {}
      BY <2>2 DEF MasterFlag
    <3>2. PICK m \in assign[v].cpus : {d \in assign[v].cpus : is_master[d]} = {m}
      BY <3>1, Zenon DEF AssignmentConsistent
    <3>3. ~is_master'[c] /\ \A d \in assign[v].cpus : is_master'[d] = is_master[d]
      BY <2>0, <2>2, <1>2, <1>5, Zenon
    <3>4. {d \in assign'[v].cpus : is_master'[d]} = {m}
      BY <3>2, <3>3, <1>2
    <3>5. m \in assign'[v].cpus
      BY <1>2
    <3> QED
      BY <3>4, <3>5, Zenon
  <2> QED
    BY <2>1, <2>2
<1>12. \A w \in VM : w # v =>
          /\ assign'[w].ncpus = Cardinality(assign'[w].cpus)
          /\ assign'[w].ncpus <= config'[w].cpu_num
  BY <1>2 DEF AssignmentConsistent
<1>13. ASSUME NEW w \in VM, w # v, assign'[w].cpus # {}
       PROVE  \E m \in assign'[w].cpus : {d \in assign'[w].cpus : is_master'[d]} = {m}
  <2>1. assign'[w] = assign[w] /\ assign[w].cpus = {d \in CPU : vm_id[d] = w}
    BY <1>2, <1>13, Zenon DEF AssignmentConsistent
  <2>2. c \notin assign[w].cpus
    BY <2>1, <1>1, <1>3
  <2>3. PICK m \in assign[w].cpus : {d \in assign[w].cpus : is_master[d]} = {m}
    BY <1>13, <2>1, Zenon DEF AssignmentConsistent
  <2>4. \A d \in assign[w].cpus : is_master'[d] = is_master[d]
    BY <2>1, <2>2, <1>2, Zenon DEF AssignTypes
  <2> QED
    BY <2>1, <2>3, <2>4
<1>14. AssignmentConsistent'
  BY <1>7, <1>9, <1>10, <1>11, <1>12, <1>13, Zenon DEF AssignmentConsistent
<1>15. MasterFlag'
  BY <1>2 DEF MasterFlag
<1>16. \A w \in VM : Full(w) => Full(w)'
  BY <1>2, <1>3, <1>8 DEF Full
<1> QED
  BY <1>14, <1>15, <1>16

(* Steps that write neither of these keep the books as they are.            *)
LEMMA QuietPreserves ==
    ASSUME AInv, UNCHANGED <<config, is_master, vm_id>>,
           \A w \in VM : /\ assign'[w].master = assign[w].master
                         /\ assign'[w].ncpus = assign[w].ncpus
                         /\ assign'[w].cpus = assign[w].cpus
    PROVE  /\ AssignmentConsistent'
           /\ MasterFlag'
           /\ \A w \in VM : Full(w) => Full(w)'
<1>1. config' = config /\ is_master' = is_master /\ vm_id' = vm_id
  OBVIOUS
<1>2. ASSUME NEW v \in VM
      PROVE  /\ assign'[v].cpus = {c \in CPU : vm_id'[c] = v}
             /\ assign'[v].ncpus = Cardinality(assign'[v].cpus)
             /\ assign'[v].ncpus <= config'[v].cpu_num
             /\ assign'[v].cpus # {} => \E c \in assign'[v].cpus :
                    {d \in assign'[v].cpus : is_master'[d]} = {c}
  BY <1>1, <1>2 DEF AInv, AssignmentConsistent
<1>3. AssignmentConsistent'
  BY <1>2, Zenon DEF AssignmentConsistent
<1> QED
  BY <1>1, <1>3, Zenon DEF AInv, MasterFlag, Full

(* What each step does to the assignment: a CPU joins a VM, or nothing is   *)
(* joined.                                                                  *)
LEMMA StepKinds ==
    ASSUME AInv, NEW c \in CPU, Step(c) \/ AllocFails(c)
    PROVE  /\ UNCHANGED config
           /\ \/ /\ \E v \in VM : Takes(c, v)
                 /\ UNCHANGED <<pc, next_count>>
              \/ /\ UNCHANGED <<is_master, vm_id>>
                 /\ \A w \in VM : /\ assign'[w].master = assign[w].master
                                  /\ assign'[w].ncpus = assign[w].ncpus
                                  /\ assign'[w].cpus = assign[w].cpus
<1> USE DEF locals, tokens
<1>1. CASE Affinity(c) \/ Remaining(c)
  <2>1. vm_id[c] = INVALID /\ i[c] \in VM
    <3>1. i[c] \in Nat
      BY DEF AInv, AssignTypes
    <3> QED
      BY <1>1, <3>1, Sorts DEF Affinity, Remaining, Scanning
  <2>2. UNCHANGED <<config, pc, next_count>>
    BY <1>1 DEF Affinity, Remaining
  <2>3. \/ Join(c, i[c]) /\ (~assign[i[c]].master \/ HasRoom(i[c]))
        \/ Skip(c)
    BY <1>1, Zenon DEF Affinity, Remaining
  <2> QED
    BY <2>1, <2>2, <2>3, Zenon DEF Takes, Skip
<1>2. CASE Alloc(c)
  <2>1. assign' = [assign EXCEPT ![vm_id[c]].install_info_ready = TRUE]
    BY <1>2 DEF Alloc
  <2>2. \A w \in VM : /\ assign'[w].master = assign[w].master
                      /\ assign'[w].ncpus = assign[w].ncpus
                      /\ assign'[w].cpus = assign[w].cpus
    BY <2>1 DEF AInv, AssignTypes
  <2> QED
    BY <1>2, <2>2 DEF Alloc
<1>3. CASE ~(Affinity(c) \/ Remaining(c) \/ Alloc(c))
  <2>1. UNCHANGED <<config, assign, is_master, vm_id>>
    BY <1>3 DEF Step, AllocFails, VmmSetup, SetupDone, AffinityArrive, AffinityDone, Assigned,
       Install, MasterInit, MasterInitDone, vm_cpu_init, CpuInitDone, vm_vcpu_init, VcpuInitDone,
       MemProt, MemProtDone, Build, BuildDone, LastArrive, RunVcpu, Depart
  <2> QED
    BY <2>1
<1> QED
  BY <1>1, <1>2, <1>3

(* The types the argument needs are kept by every step.                     *)
LEMMA TypesPreserved ==
    ASSUME AInv, NEW c \in CPU, Step(c) \/ AllocFails(c)
    PROVE  AssignTypes'
<1> USE DEF locals, tokens
<1>0. AssignTypes
  BY DEF AInv
<1>1. config' \in Configs
  BY <1>0, StepKinds, Zenon DEF AssignTypes
<1>2. /\ assign' \in [VM -> [master : BOOLEAN, ncpus : Nat, cpus : SUBSET CPU,
                             install_info_ready : BOOLEAN]]
      /\ is_master' \in [CPU -> BOOLEAN]
      /\ vm_id' \in [CPU -> VM \cup {INVALID}]
  <2>1. CASE \E v \in VM : Takes(c, v)
    BY <1>0, <2>1, JoinTypes, Zenon DEF Takes
  <2>2. CASE Alloc(c)
    <3> DEFINE R == [master : BOOLEAN, ncpus : Nat, cpus : SUBSET CPU,
                     install_info_ready : BOOLEAN]
    <3>1. assign' = [assign EXCEPT ![vm_id[c]].install_info_ready = TRUE]
      BY <2>2 DEF Alloc
    <3>2. assign \in [VM -> R]
      BY <1>0, Zenon DEF AssignTypes
    <3>3. \A w \in VM : [assign[w] EXCEPT !.install_info_ready = TRUE] \in R
      BY <3>2
    <3>4. assign' \in [VM -> R]
      <4> HIDE DEF R
      <4> QED BY <3>1, <3>2, <3>3
    <3>5. UNCHANGED <<is_master, vm_id>>
      BY <2>2 DEF Alloc
    <3> QED
      BY <3>4, <3>5, <1>0, Zenon DEF AssignTypes
  <2>3. CASE UNCHANGED <<assign, is_master, vm_id>>
    BY <1>0, <2>3, Zenon DEF AssignTypes
  <2>4. CASE Affinity(c) \/ Remaining(c)
    <3>1. i[c] \in VM /\ vm_id[c] = INVALID
      BY <2>4, <1>0, Sorts DEF Affinity, Remaining, Scanning, AssignTypes
    <3> QED
      BY <2>4, <3>1, <2>1, <2>3, Zenon DEF Affinity, Remaining, Takes, Skip
  <2>5. CASE ~(Affinity(c) \/ Remaining(c) \/ Alloc(c))
    <3>1. UNCHANGED <<assign, is_master, vm_id>>
      BY <2>5 DEF Step, AllocFails, VmmSetup, SetupDone, AffinityArrive, AffinityDone, Assigned,
         Install, MasterInit, MasterInitDone, vm_cpu_init, CpuInitDone, vm_vcpu_init, VcpuInitDone,
         MemProt, MemProtDone, Build, BuildDone, LastArrive, RunVcpu, Depart
    <3> QED
      BY <3>1, <2>3
  <2> QED
    BY <2>2, <2>4, <2>5
<1>3. i' \in [CPU -> Nat]
  <2>0. i \in [CPU -> Nat]
    BY <1>0 DEF AssignTypes
  <2>1. CASE Affinity(c) \/ Remaining(c)
    BY <2>0, <2>1 DEF Affinity, Remaining, Join, Skip
  <2>2. CASE AffinityArrive(c)
    BY <2>0, <2>2 DEF AffinityArrive
  <2>3. CASE ~(Affinity(c) \/ Remaining(c) \/ AffinityArrive(c))
    <3>1. UNCHANGED i
      BY <2>3 DEF Step, AllocFails, VmmSetup, SetupDone, AffinityDone, Assigned, Alloc,
         Install, MasterInit, MasterInitDone, vm_cpu_init, CpuInitDone, vm_vcpu_init, VcpuInitDone,
         MemProt, MemProtDone, Build, BuildDone, LastArrive, RunVcpu, Depart
    <3> QED
      BY <2>0, <3>1
  <2> QED
    BY <2>1, <2>2, <2>3
<1>4. pc' \in [CPU -> Phase]
  <2>0. pc \in [CPU -> Phase]
    BY <1>0 DEF AssignTypes
  <2>1. UNCHANGED pc \/ \E p \in Phase : pc' = [pc EXCEPT ![c] = p]
    BY DEF Step, AllocFails, VmmSetup, SetupDone, Affinity, AffinityArrive, AffinityDone, Remaining,
       Assigned, Alloc, Install, MasterInit, MasterInitDone, vm_cpu_init, CpuInitDone,
       vm_vcpu_init, VcpuInitDone, MemProt, MemProtDone, Build, BuildDone, LastArrive, RunVcpu,
       Depart, Goto, Phase
  <2> QED
    BY <2>0, <2>1
<1>5. DOMAIN next_count' = CPU
  <2>0. DOMAIN next_count = CPU
    BY <1>0 DEF AssignTypes
  <2>1. UNCHANGED next_count \/ \E x : next_count' = [next_count EXCEPT ![c] = x]
    BY DEF Step, AllocFails, VmmSetup, SetupDone, Affinity, AffinityArrive, AffinityDone, Remaining,
       Assigned, Alloc, Install, MasterInit, MasterInitDone, vm_cpu_init, CpuInitDone,
       vm_vcpu_init, VcpuInitDone, MemProt, MemProtDone, Build, BuildDone, LastArrive, RunVcpu,
       Depart, Arrive, Count
  <2> QED
    BY <2>0, <2>1
<1> QED
  BY <1>1, <1>2, <1>3, <1>4, <1>5, Zenon DEF AssignTypes

(* At reset no VM has a CPU.                                                *)
LEMMA InitAInv ==
    ASSUME Init PROVE AInv /\ ScanInv
<1>1. AssignTypes
  <2>1. assign \in [VM -> [master : BOOLEAN, ncpus : Nat, cpus : SUBSET CPU,
                          install_info_ready : BOOLEAN]]
    BY DEF Init
  <2>2. is_master \in [CPU -> BOOLEAN] /\ config \in Configs /\ DOMAIN next_count = CPU
    BY Zenon DEF Init
  <2>3. vm_id \in [CPU -> VM \cup {INVALID}] /\ i \in [CPU -> Nat] /\ pc \in [CPU -> Phase]
    BY DEF Init, Phase
  <2> QED
    BY <2>1, <2>2, <2>3, Zenon DEF AssignTypes
<1>2. \A v \in VM : assign[v].cpus = {} /\ assign[v].ncpus = 0 /\ ~assign[v].master
  BY DEF Init
<1>3. \A v \in VM : assign[v].cpus = {c \in CPU : vm_id[c] = v}
  BY <1>2, Sorts DEF Init
<1>4. AssignmentConsistent
  <2>1. \A v \in VM : config[v].cpu_num \in Nat
    BY <1>1, Sorts, Zenon DEF AssignTypes
  <2>2. \A v \in VM : assign[v].ncpus = Cardinality(assign[v].cpus)
    BY <1>2, FS_EmptySet
  <2>3. \A v \in VM : 0 <= config[v].cpu_num
    BY <2>1
  <2> QED
    BY <1>2, <1>3, <2>2, <2>3, Zenon DEF AssignmentConsistent
<1>5. MasterFlag
  BY <1>2, Zenon DEF MasterFlag
<1>6. ScanInv
  BY DEF Init, ScanInv
<1> QED
  BY <1>1, <1>4, <1>5, <1>6 DEF AInv

(* The books stay exact: a CPU joins under the lock of the VM, and nothing  *)
(* else writes them.                                                        *)
LEMMA NextAInv ==
    ASSUME AInv, NEW c \in CPU, Step(c) \/ AllocFails(c)
    PROVE  /\ AInv'
           /\ \A w \in VM : Full(w) => Full(w)'
<1>1. AssignTypes'
  BY TypesPreserved
<1>2. /\ AssignmentConsistent' /\ MasterFlag'
      /\ \A w \in VM : Full(w) => Full(w)'
  BY StepKinds, TakesPreserves, QuietPreserves, Zenon
<1> QED
  BY <1>1, <1>2 DEF AInv

(* The scan of the second loop: a VM that is skipped is full, and stays so. *)
LEMMA NextScanInv ==
    ASSUME AInv, ScanInv, NEW c \in CPU, Step(c) \/ AllocFails(c)
    PROVE  ScanInv'
<1> USE DEF locals, tokens, Goto, At
<1>0. /\ i \in [CPU -> Nat] /\ pc \in [CPU -> Phase] /\ DOMAIN next_count = CPU
      /\ vm_id \in [CPU -> VM \cup {INVALID}] /\ DOMAIN vm_id = CPU
  BY DEF AInv, AssignTypes
<1>1. \A w \in VM : Full(w) => Full(w)'
  BY NextAInv
<1>2. ASSUME NEW d \in CPU, d # c
      PROVE  /\ pc'[d] = pc[d] /\ i'[d] = i[d] /\ vm_id'[d] = vm_id[d]
             /\ next_count'[d] = next_count[d]
  BY <1>0, <1>2 DEF Step, AllocFails, VmmSetup, SetupDone, Affinity, AffinityArrive, AffinityDone,
     Remaining, Assigned, Alloc, Install, MasterInit, MasterInitDone, vm_cpu_init, CpuInitDone,
     vm_vcpu_init, VcpuInitDone, MemProt, MemProtDone, Build, BuildDone, LastArrive, RunVcpu,
     Depart, Arrive, Count, Join, Skip
<1>3. ASSUME NEW d \in CPU, d # c
      PROVE  /\ pc'[d] = "affinity" /\ next_count'[d] > 0 => i'[d] = 0
             /\ pc'[d] = "remaining" /\ vm_id'[d] = INVALID => \A v \in VM : v < i'[d] => Full(v)'
             /\ pc'[d] = "powerdown" => \A v \in VM : Full(v)'
  BY <1>1, <1>2, <1>3 DEF ScanInv
<1>4. pc'[c] = "affinity" /\ next_count'[c] > 0 => i'[c] = 0
  <2>1. CASE Affinity(c)
    BY <1>0, <2>1 DEF Affinity
  <2>2. CASE AffinityArrive(c)
    BY <1>0, <2>2 DEF AffinityArrive
  <2>3. CASE SetupDone(c)
    BY <1>0, <2>3 DEF SetupDone, Depart
  <2>4. CASE ~(Affinity(c) \/ AffinityArrive(c) \/ SetupDone(c))
    <3>1. pc'[c] # "affinity"
      BY <1>0, <2>4 DEF Step, AllocFails, VmmSetup, AffinityDone,
         Remaining, Assigned, Alloc, Install, MasterInit, MasterInitDone, vm_cpu_init, CpuInitDone,
         vm_vcpu_init, VcpuInitDone, MemProt, MemProtDone, Build, BuildDone, LastArrive, RunVcpu,
         Depart
    <3> QED
      BY <3>1
  <2> QED
    BY <2>1, <2>2, <2>3, <2>4
<1>5. pc'[c] = "remaining" /\ vm_id'[c] = INVALID => \A v \in VM : v < i'[c] => Full(v)'
  <2>1. CASE AffinityDone(c)
    <3>1. i'[c] = 0
      BY <2>1 DEF AffinityDone, Depart, ScanInv
    <3> QED
      BY <3>1, Sorts
  <2>2. CASE Remaining(c)
    <3> SUFFICES ASSUME vm_id'[c] = INVALID, NEW v \in VM, v < i'[c]
                 PROVE  Full(v)
      BY <1>1
    <3>1. i[c] \in VM /\ i[c] \in Nat /\ vm_id[c] = INVALID /\ pc[c] = "remaining"
      BY <1>0, <2>2, Sorts DEF Remaining, Scanning
    <3>2. ~HasRoom(i[c]) /\ Skip(c)
      BY <1>0, <2>2, <3>1, Sorts DEF Remaining, Join
    <3>3. i'[c] = i[c] + 1
      BY <1>0, <3>2 DEF Skip
    <3>4. v < i[c] \/ v = i[c]
      BY <3>1, <3>3, Sorts
    <3>5. CASE v < i[c]
      BY <3>1, <3>5 DEF ScanInv
    <3>6. CASE v = i[c]
      <4>1. assign[v].ncpus \in Nat
        BY DEF AInv, AssignTypes
      <4>2. config[v].cpu_num \in Nat /\ assign[v].ncpus <= config[v].cpu_num
        BY Sorts DEF AInv, AssignTypes, AssignmentConsistent
      <4>3. ~(assign[v].ncpus < config[v].cpu_num)
        BY <3>2, <3>6 DEF HasRoom
      <4> QED
        BY <4>1, <4>2, <4>3 DEF Full
    <3> QED
      BY <3>4, <3>5, <3>6
  <2>3. CASE ~(AffinityDone(c) \/ Remaining(c))
    <3>1. pc'[c] # "remaining"
      BY <1>0, <2>3 DEF Step, AllocFails, VmmSetup, SetupDone, Affinity, AffinityArrive,
         Assigned, Alloc, Install, MasterInit, MasterInitDone, vm_cpu_init, CpuInitDone,
         vm_vcpu_init, VcpuInitDone, MemProt, MemProtDone, Build, BuildDone, LastArrive, RunVcpu,
         Depart
    <3> QED
      BY <3>1
  <2> QED
    BY <2>1, <2>2, <2>3
<1>6. pc'[c] = "powerdown" => \A v \in VM : Full(v)'
  <2>1. CASE Assigned(c)
    <3> SUFFICES ASSUME pc'[c] = "powerdown", NEW v \in VM PROVE Full(v)
      BY <1>1
    <3>1. pc[c] = "remaining" /\ vm_id[c] = INVALID /\ ~(i[c] < NVM) /\ i[c] \in Nat
      BY <1>0, <2>1 DEF Assigned, Scanning
    <3>2. v < i[c]
      BY <3>1, BootAssumption DEF VM
    <3> QED
      BY <3>1, <3>2 DEF ScanInv
  <2>2. CASE ~Assigned(c)
    <3>1. pc'[c] # "powerdown"
      BY <1>0, <2>2 DEF Step, AllocFails, VmmSetup, SetupDone, Affinity, AffinityArrive,
         AffinityDone, Remaining, Alloc, Install, MasterInit, MasterInitDone, vm_cpu_init,
         CpuInitDone, vm_vcpu_init, VcpuInitDone, MemProt, MemProtDone, Build, BuildDone,
         LastArrive, RunVcpu, Depart
    <3> QED
      BY <3>1
  <2> QED
    BY <2>1, <2>2
<1> QED
  BY <1>3, <1>4, <1>5, <1>6 DEF ScanInv

(* AInv and ScanInv are inductive.                                          *)
LEMMA BootInvariant == Spec => [](AInv /\ ScanInv)
<1>1. Init => AInv /\ ScanInv
  BY InitAInv
<1>2. AInv /\ ScanInv /\ [Next]_vars => (AInv /\ ScanInv)'
  <2> SUFFICES ASSUME AInv, ScanInv, [Next]_vars PROVE (AInv /\ ScanInv)'
    OBVIOUS
  <2>1. CASE Next
    BY <2>1, NextAInv, NextScanInv, Zenon DEF Next
  <2>2. CASE UNCHANGED vars
    <3>1. UNCHANGED <<config, assign, is_master, vm_id, i, pc, next_count>>
      BY <2>2 DEF vars, locals, tokens
    <3>2. AssignTypes' /\ AssignmentConsistent' /\ MasterFlag'
      BY <3>1, QuietPreserves, Zenon DEF AInv, AssignTypes
    <3>3. ScanInv'
      BY <3>1, Zenon DEF ScanInv, Full
    <3> QED
      BY <3>2, <3>3 DEF AInv
  <2> QED
    BY <2>1, <2>2
<1> QED
  BY <1>1, <1>2, PTL DEF Spec

(* vmm_assign_vcpu: under every interleaving of the CPUs the bookkeeping of *)
(* vm_assign is exact, a VM has one master and at most its cpu_num CPUs.    *)
THEOREM Assignment == Spec => []AssignmentConsistent
<1>1. AInv /\ ScanInv => AssignmentConsistent
  BY DEF AInv
<1> QED
  BY <1>1, BootInvariant, PTL

(* vmm_init powers down a CPU only when every VM has all its CPUs.          *)
THEOREM PowerdownOnlyIfFull == Spec => []PowerdownMeansFull
<1>1. AInv /\ ScanInv => PowerdownMeansFull
  BY DEF ScanInv, PowerdownMeansFull, Full
<1> QED
  BY <1>1, BootInvariant, PTL

----------------------------------------------------------------------------
(* The barriers of vm_init.  A place of vm_init is numbered by the barrier  *)
(* that ends it: 0 is the one on root_sync, 1 to 5 are those on vm->sync.   *)
Rank(p) ==
    CASE p = "master_init" -> 0
      [] p = "cpu_init" -> 1
      [] p = "vcpu_init" -> 2
      [] p = "mem_prot" -> 3
      [] p = "build" -> 4
      [] p = "done" -> 5
      [] p = "run" -> 6
      [] OTHER -> -1

(* The CPUs of v that arrived at the k-th barrier, and their number.        *)
Arrived(v, k) ==
    {c \in CPU : /\ vm_id[c] = v
                 /\ \/ Rank(pc[c]) > k
                    \/ Rank(pc[c]) = k /\ next_count[c] > 0}

Size(v, k) == Cardinality(Arrived(v, k))

BarrierTypes ==
    /\ count \in [Token -> Nat]
    /\ next_count \in [CPU -> Nat]
    /\ \A c \in CPU : Rank(pc[c]) >= 0 \/ pc[c] = "install" => vm_id[c] \in VM

(* The counters count the CPUs that arrived ...                             *)
Counted ==
    \A v \in VM :
        /\ count[<<"root", v>>] = Size(v, 0)
        /\ count[<<"vm", v>>] = Size(v, 1) + Size(v, 2) + Size(v, 3) + Size(v, 4) + Size(v, 5)

(* The value that ends the k-th round.                                      *)
Target(v, k) == IF k = 0 THEN config[v].cpu_num ELSE k * config[v].cpu_num

(* ... a CPU that waits does so for the end of its own round ...            *)
Waits ==
    \A v \in VM : \A k \in 0 .. 5 : \A c \in CPU :
        vm_id[c] = v /\ Rank(pc[c]) = k /\ next_count[c] > 0 => next_count[c] = Target(v, k)

(* ... and no CPU is past a barrier that another of its VM has not reached. *)
Passed ==
    \A v \in VM : \A k \in 0 .. 5 : \A c \in CPU :
        vm_id[c] = v /\ Rank(pc[c]) > k => Size(v, k) = config[v].cpu_num

(* The VMs as vm_init fills them in.                                        *)
VmType ==
    [VM -> [master : CPU \cup {INVALID}, cpus : SUBSET CPU, prot : BOOLEAN, built : BOOLEAN]]

(* What the CPUs that arrived have initialised.                             *)
Initialised ==
    /\ vm \in VmType
    /\ DOMAIN vcpu = CPU
    /\ \A v \in VM : vm[v].cpus = Arrived(v, 1)
    /\ \A v \in VM : \A c \in CPU : vm_id[c] = v =>
           /\ c \in Arrived(v, 0) /\ is_master[c] => vm[v].master = c
           /\ c \in Arrived(v, 3) /\ is_master[c] => vm[v].prot
           /\ c \in Arrived(v, 4) /\ is_master[c] => vm[v].built
           /\ c \in Arrived(v, 2) => vcpu[c] = Cardinality({d \in Arrived(v, 1) : d < c})
           /\ c \notin Arrived(v, 2) => vcpu[c] = INVALID
    /\ \A c \in CPU : vm_id[c] \notin VM => vcpu[c] = INVALID

(* The inductive invariant behind InitialisedBeforeUse.                     *)
BarrierInv == BarrierTypes /\ Counted /\ Waits /\ Passed

(* The places by their rank.                                                *)
LEMMA Ranks ==
    /\ \A p : Rank(p) \in -1 .. 6
    /\ Rank("master_init") = 0 /\ Rank("cpu_init") = 1 /\ Rank("vcpu_init") = 2
    /\ Rank("mem_prot") = 3 /\ Rank("build") = 4 /\ Rank("done") = 5 /\ Rank("run") = 6
    /\ \A p \in {"setup", "affinity", "remaining", "install", "powerdown", "error"} : Rank(p) = -1
  BY DEF Rank

(* When the barriers before the k-th are complete and the later ones are    *)
(* empty, the counter is in the k-th round.                                 *)
LEMMA SumOfRounds ==
    ASSUME NEW N \in Nat, NEW a \in [1 .. 5 -> Nat],
           \A j \in 1 .. 5 : a[j] <= N,
           NEW k \in 1 .. 5, \A j \in 1 .. 5 : j > k => a[j] = 0
    PROVE  /\ a[1] + a[2] + a[3] + a[4] + a[5] <= (k - 1) * N + a[k]
           /\ (\A j \in 1 .. 5 : j < k => a[j] = N) =>
                  a[1] + a[2] + a[3] + a[4] + a[5] = (k - 1) * N + a[k]
<1>0. k = 1 \/ k = 2 \/ k = 3 \/ k = 4 \/ k = 5
  OBVIOUS
<1>1. CASE k = 1
  BY <1>1
<1>2. CASE k = 2
  BY <1>2
<1>3. CASE k = 3
  BY <1>3
<1>4. CASE k = 4
  BY <1>4
<1>5. CASE k = 5
  BY <1>5
<1> QED BY ONLY <1>0, <1>1, <1>2, <1>3, <1>4, <1>5, Zenon

(* The CPUs that arrived are CPUs of the VM, which has no more than it      *)
(* asked for.                                                               *)
LEMMA ArrivedSize ==
    ASSUME AInv, NEW v \in VM, NEW k
    PROVE  /\ Arrived(v, k) \subseteq assign[v].cpus
           /\ IsFiniteSet(Arrived(v, k)) /\ IsFiniteSet(assign[v].cpus)
           /\ Size(v, k) \in Nat /\ config[v].cpu_num \in Nat /\ config[v].cpu_num > 0
           /\ Size(v, k) <= config[v].cpu_num
           /\ Size(v, k) = config[v].cpu_num =>
                  Arrived(v, k) = assign[v].cpus /\ assign[v].ncpus = config[v].cpu_num
           /\ assign[v].cpus # Arrived(v, k) => Size(v, k) < config[v].cpu_num
<1>1. /\ assign[v].cpus = {c \in CPU : vm_id[c] = v}
      /\ assign[v].ncpus = Cardinality(assign[v].cpus)
      /\ assign[v].ncpus <= config[v].cpu_num
  BY Zenon DEF AInv, AssignmentConsistent
<1>2. Arrived(v, k) \subseteq assign[v].cpus
  BY <1>1 DEF Arrived
<1>3. IsFiniteSet(assign[v].cpus)
  BY <1>1, Sorts, FS_Subset
<1>4. config[v].cpu_num \in Nat /\ config[v].cpu_num > 0
  BY Sorts DEF AInv, AssignTypes
<1>5. /\ IsFiniteSet(Arrived(v, k)) /\ Size(v, k) <= assign[v].ncpus
      /\ Size(v, k) = assign[v].ncpus => Arrived(v, k) = assign[v].cpus
  BY <1>1, <1>2, <1>3, FS_Subset DEF Size
<1>6. Size(v, k) \in Nat /\ assign[v].ncpus \in Nat
  BY <1>1, <1>3, <1>5, FS_CardinalityType DEF Size
<1> QED BY <1>1, <1>2, <1>3, <1>4, <1>5, <1>6

(* Nobody is at a barrier after one that is not complete.                   *)
LEMMA NobodyLater ==
    ASSUME AInv, Passed, NEW v \in VM, NEW k \in 0 .. 5, Size(v, k) # config[v].cpu_num,
           NEW j \in 0 .. 5, j > k
    PROVE  Arrived(v, j) = {} /\ Size(v, j) = 0
<1>1. \A c \in CPU : vm_id[c] = v => ~(Rank(pc[c]) > k)
  BY DEF Passed
<1>2. \A c \in CPU : Rank(pc[c]) \in Int
  BY Ranks
<1>3. Arrived(v, j) = {}
  BY <1>1, <1>2 DEF Arrived
<1> QED BY <1>3, FS_EmptySet DEF Size

(* The token of the k-th barrier.                                           *)
Tok(v, k) == IF k = 0 THEN <<"root", v>> ELSE <<"vm", v>>

(* The counter of the barrier k that v has not completed yet.               *)
LEMMA CounterInRound ==
    ASSUME AInv, BarrierInv, NEW v \in VM, NEW k \in 0 .. 5, Size(v, k) # config[v].cpu_num
    PROVE  /\ count[Tok(v, k)] + config[v].cpu_num <= Target(v, k) + Size(v, k)
           /\ (\A j \in 0 .. 5 : j < k => Size(v, j) = config[v].cpu_num) =>
                  count[Tok(v, k)] + config[v].cpu_num = Target(v, k) + Size(v, k)
<1> DEFINE N == config[v].cpu_num
<1> DEFINE a == [j \in 1 .. 5 |-> Size(v, j)]
<1>1. /\ N \in Nat /\ \A j : Size(v, j) \in Nat /\ Size(v, j) <= N
  BY ArrivedSize
<1>2. CASE k = 0
  <2>1. count[Tok(v, k)] = Size(v, 0) /\ Target(v, k) = N
    BY <1>2 DEF BarrierInv, Counted, Tok, Target
  <2> QED BY <1>1, <1>2, <2>1
<1>3. CASE k # 0
  <2>1. k \in 1 .. 5 /\ Tok(v, k) = <<"vm", v>> /\ Target(v, k) = k * N
    BY <1>3 DEF Tok, Target
  <2>2. \A j \in 1 .. 5 : j > k => a[j] = 0
    BY NobodyLater DEF BarrierInv
  <2>3. /\ a \in [1 .. 5 -> Nat] /\ a[k] = Size(v, k)
        /\ a[1] = Size(v, 1) /\ a[2] = Size(v, 2) /\ a[3] = Size(v, 3)
        /\ a[4] = Size(v, 4) /\ a[5] = Size(v, 5) /\ \A j \in 1 .. 5 : a[j] = Size(v, j)
    BY <1>1, <2>1
  <2>4. count[<<"vm", v>>] = Size(v, 1) + Size(v, 2) + Size(v, 3) + Size(v, 4) + Size(v, 5)
    BY DEF BarrierInv, Counted
  <2> HIDE DEF a, N
  <2>5. \A j \in 1 .. 5 : a[j] <= N
    BY <1>1, <2>3
  <2>6. /\ count[<<"vm", v>>] <= (k - 1) * N + a[k]
        /\ (\A j \in 1 .. 5 : j < k => a[j] = N) => count[<<"vm", v>>] = (k - 1) * N + a[k]
    <3>1. N \in Nat
      BY <1>1
    <3>2. /\ a[1] + a[2] + a[3] + a[4] + a[5] <= (k - 1) * N + a[k]
          /\ (\A j \in 1 .. 5 : j < k => a[j] = N) =>
                 a[1] + a[2] + a[3] + a[4] + a[5] = (k - 1) * N + a[k]
      BY <2>1, <2>2, <2>3, <2>5, <3>1, SumOfRounds
    <3> QED BY <2>3, <2>4, <3>2, Zenon
  <2>7. (k - 1) * N + N = k * N /\ (k - 1) * N \in Nat /\ k * N \in Nat
    BY <1>1, <2>1
  <2>8. count[<<"vm", v>>] \in Nat
    BY <1>1, <2>4
  <2>9. count[<<"vm", v>>] + N <= k * N + Size(v, k)
    BY <1>1, <2>3, <2>6, <2>7, <2>8
  <2>10. ASSUME \A j \in 0 .. 5 : j < k => Size(v, j) = N
         PROVE  count[<<"vm", v>>] + N = k * N + Size(v, k)
    BY <1>1, <2>3, <2>6, <2>7, <2>8, <2>10
  <2> QED BY <2>1, <2>9, <2>10 DEF N
<1> QED BY <1>2, <1>3

(* What a step does at the barriers of v: it arrives at one ...             *)
Arrives(c, v, k) ==
    /\ vm_id[c] = v /\ Rank(pc[c]) = k /\ next_count[c] = 0
    /\ count' = [count EXCEPT ![Tok(v, k)] = @ + 1]
    /\ next_count' = [next_count EXCEPT ![c] = ALIGN(count[Tok(v, k)] + 1, config[v].cpu_num)]
    /\ UNCHANGED <<config, assign, vm_id, is_master, pc>>

(* ... leaves one for the next place ...                                    *)
Departs(c, v, k) ==
    /\ vm_id[c] = v /\ Rank(pc[c]) = k
    /\ next_count[c] > 0 /\ count[Tok(v, k)] >= next_count[c]
    /\ next_count' = [next_count EXCEPT ![c] = 0]
    /\ \A d \in CPU : d # c => pc'[d] = pc[d]
    /\ Rank(pc'[c]) = k + 1
    /\ UNCHANGED <<config, assign, vm_id, is_master, count, vm, vcpu>>

(* ... or is by a CPU that is not at any of them yet.                       *)
Away(c) ==
    /\ Rank(pc[c]) = -1
    /\ Rank(pc'[c]) = -1 \/ (Rank(pc'[c]) = 0 /\ next_count'[c] = 0)
    /\ Rank(pc'[c]) = 0 \/ pc'[c] = "install" => vm_id'[c] \in VM
    /\ vm_id[c] \in VM => vm_id'[c] = vm_id[c] /\ is_master'[c] = is_master[c]
    /\ \A d \in CPU : d # c => /\ pc'[d] = pc[d] /\ next_count'[d] = next_count[d]
                               /\ vm_id'[d] = vm_id[d] /\ is_master'[d] = is_master[d]
    /\ \A v \in VM : count'[<<"root", v>>] = count[<<"root", v>>]
                     /\ count'[<<"vm", v>>] = count[<<"vm", v>>]
    /\ count' \in [Token -> Nat] /\ next_count' \in [CPU -> Nat]
    /\ UNCHANGED <<config, vm, vcpu>>

(* The tokens of a VM are two, and no other VM's.                           *)
LEMMA TokenKinds ==
    /\ Glb \in Token
    /\ \A v \in VM, k \in 0 .. 5 : Tok(v, k) \in Token /\ Tok(v, k) # Glb /\ n(Tok(v, k)) = config[v].cpu_num
    /\ \A v, w \in VM, j, k \in 0 .. 5 : Tok(v, k) = Tok(w, j) <=> v = w /\ (j = 0 <=> k = 0)
  BY DEF Token, Tok, Glb, n

(* The steps that arrive at a barrier ...                                   *)
LEMMA ArriveShape ==
    ASSUME AInv, BarrierTypes, NEW c \in CPU,
           \/ MasterInit(c) \/ vm_cpu_init(c) \/ vm_vcpu_init(c) \/ MemProt(c) \/ Build(c)
           \/ LastArrive(c)
    PROVE  /\ vm_id[c] \in VM
           /\ \E k \in 0 .. 5 : Arrives(c, vm_id[c], k)
<1> USE DEF At, Arrive, Count, locals
<1> DEFINE v == vm_id[c]
<1>1. pc[c] \in {"master_init", "cpu_init", "vcpu_init", "mem_prot", "build", "done"}
  BY DEF MasterInit, vm_cpu_init, vm_vcpu_init, MemProt, Build, LastArrive
<1>2. v \in VM
  <2>1. Rank(pc[c]) >= 0
    BY <1>1, Ranks
  <2> QED BY <2>1 DEF BarrierTypes
<1>3. n(<<"root", v>>) = config[v].cpu_num /\ n(<<"vm", v>>) = config[v].cpu_num
  BY DEF n
<1>4. UNCHANGED <<config, assign, vm_id, is_master, pc>> /\ next_count[c] = 0
  BY DEF MasterInit, vm_cpu_init, vm_vcpu_init, MemProt, Build, LastArrive
<1>5. CASE MasterInit(c)
  <2>1. Arrives(c, v, 0)
    BY <1>3, <1>4, <1>5, Ranks, Zenon DEF MasterInit, Arrives, Tok
  <2> QED BY <1>2, <2>1
<1>6. ASSUME NEW k \in 1 .. 5, Rank(pc[c]) = k,
             count' = [count EXCEPT ![<<"vm", v>>] = @ + 1],
             next_count' = [next_count EXCEPT ![c] = ALIGN(count[<<"vm", v>>] + 1, n(<<"vm", v>>))]
      PROVE  \E j \in 0 .. 5 : Arrives(c, v, j)
  <2>1. Tok(v, k) = <<"vm", v>> /\ k \in 0 .. 5
    BY DEF Tok
  <2>2. Arrives(c, v, k)
    BY <1>3, <1>4, <1>6, <2>1, Zenon DEF Arrives
  <2> QED BY <2>1, <2>2
<1>7. CASE vm_cpu_init(c)
  <2>1. Rank(pc[c]) = 1 /\ 1 \in 1 .. 5
    BY <1>7, Ranks DEF vm_cpu_init
  <2> QED BY <1>2, <1>6, <1>7, <2>1, Zenon DEF vm_cpu_init
<1>8. CASE vm_vcpu_init(c)
  <2>1. Rank(pc[c]) = 2 /\ 2 \in 1 .. 5
    BY <1>8, Ranks DEF vm_vcpu_init
  <2> QED BY <1>2, <1>6, <1>8, <2>1, Zenon DEF vm_vcpu_init
<1>9. CASE MemProt(c)
  <2>1. Rank(pc[c]) = 3 /\ 3 \in 1 .. 5
    BY <1>9, Ranks DEF MemProt
  <2> QED BY <1>2, <1>6, <1>9, <2>1, Zenon DEF MemProt
<1>10. CASE Build(c)
  <2>1. Rank(pc[c]) = 4 /\ 4 \in 1 .. 5
    BY <1>10, Ranks DEF Build
  <2> QED BY <1>2, <1>6, <1>10, <2>1, Zenon DEF Build
<1>11. CASE LastArrive(c)
  <2>1. Rank(pc[c]) = 5 /\ 5 \in 1 .. 5
    BY <1>11, Ranks DEF LastArrive
  <2> QED BY <1>2, <1>6, <1>11, <2>1, Zenon DEF LastArrive
<1> QED BY <1>5, <1>7, <1>8, <1>9, <1>10, <1>11

(* ... those that leave one, with the value of the counter reached ...      *)
LEMMA DepartShape ==
    ASSUME AInv, BarrierTypes, NEW c \in CPU,
           \/ MasterInitDone(c) \/ CpuInitDone(c) \/ VcpuInitDone(c) \/ MemProtDone(c)
           \/ BuildDone(c) \/ RunVcpu(c)
    PROVE  /\ vm_id[c] \in VM
           /\ \E k \in 0 .. 5 : Departs(c, vm_id[c], k)
<1> USE DEF Depart, Goto, locals
<1> DEFINE v == vm_id[c]
<1>0. DOMAIN pc = CPU
  BY DEF AInv, AssignTypes
<1>1. pc[c] \in {"master_init", "cpu_init", "vcpu_init", "mem_prot", "build", "done"}
  BY DEF MasterInitDone, CpuInitDone, VcpuInitDone, MemProtDone, BuildDone, RunVcpu
<1>2. v \in VM
  <2>1. Rank(pc[c]) >= 0
    BY <1>1, Ranks
  <2> QED BY <2>1 DEF BarrierTypes
<1>3. /\ next_count[c] > 0 /\ next_count' = [next_count EXCEPT ![c] = 0]
      /\ \A d \in CPU : d # c => pc'[d] = pc[d]
      /\ UNCHANGED <<config, assign, vm_id, is_master, count, vm, vcpu>>
  BY <1>0 DEF MasterInitDone, CpuInitDone, VcpuInitDone, MemProtDone, BuildDone, RunVcpu
<1>4. ASSUME NEW k \in 0 .. 5, Rank(pc[c]) = k, count[Tok(v, k)] >= next_count[c],
             Rank(pc'[c]) = k + 1
      PROVE  \E j \in 0 .. 5 : Departs(c, v, j)
  BY <1>3, <1>4, Zenon DEF Departs
<1>5. CASE MasterInitDone(c)
  <2>1. Rank(pc[c]) = 0 /\ Rank(pc'[c]) = 0 + 1
    BY <1>0, <1>5, Ranks DEF MasterInitDone
  <2>2. count[Tok(v, 0)] >= next_count[c]
    BY <1>5 DEF MasterInitDone, Tok
  <2> QED BY <1>2, <1>4, <2>1, <2>2
<1>6. CASE CpuInitDone(c)
  <2>1. Rank(pc[c]) = 1 /\ Rank(pc'[c]) = 1 + 1
    BY <1>0, <1>6, Ranks DEF CpuInitDone
  <2>2. count[Tok(v, 1)] >= next_count[c]
    BY <1>6 DEF CpuInitDone, Tok
  <2> QED BY <1>2, <1>4, <2>1, <2>2
<1>7. CASE VcpuInitDone(c)
  <2>1. Rank(pc[c]) = 2 /\ Rank(pc'[c]) = 2 + 1
    BY <1>0, <1>7, Ranks DEF VcpuInitDone
  <2>2. count[Tok(v, 2)] >= next_count[c]
    BY <1>7 DEF VcpuInitDone, Tok
  <2> QED BY <1>2, <1>4, <2>1, <2>2
<1>8. CASE MemProtDone(c)
  <2>1. Rank(pc[c]) = 3 /\ Rank(pc'[c]) = 3 + 1
    BY <1>0, <1>8, Ranks DEF MemProtDone
  <2>2. count[Tok(v, 3)] >= next_count[c]
    BY <1>8 DEF MemProtDone, Tok
  <2> QED BY <1>2, <1>4, <2>1, <2>2
<1>9. CASE BuildDone(c)
  <2>1. Rank(pc[c]) = 4 /\ Rank(pc'[c]) = 4 + 1
    BY <1>0, <1>9, Ranks DEF BuildDone
  <2>2. count[Tok(v, 4)] >= next_count[c]
    BY <1>9 DEF BuildDone, Tok
  <2> QED BY <1>2, <1>4, <2>1, <2>2
<1>10. CASE RunVcpu(c)
  <2>1. Rank(pc[c]) = 5 /\ Rank(pc'[c]) = 5 + 1
    BY <1>0, <1>10, Ranks DEF RunVcpu
  <2>2. count[Tok(v, 5)] >= next_count[c]
    BY <1>10 DEF RunVcpu, Tok
  <2> QED BY <1>2, <1>4, <2>1, <2>2
<1> QED BY <1>5, <1>6, <1>7, <1>8, <1>9, <1>10

(* ALIGN in cpu_sync_barrier: the end of the round in progress.             *)
LEMMA AlignUp ==
    ASSUME NEW x \in Nat, NEW to \in Nat, to > 0
    PROVE  /\ ALIGN(x, to) \in Nat
           /\ \A p \in Nat, s \in 1 .. to : x + to = p * to + s => ALIGN(x, to) = p * to
<1>1. (x + to - 1) \div to \in Nat
  OBVIOUS
<1>2. ALIGN(x, to) \in Nat
  BY <1>1 DEF ALIGN
<1>3. ASSUME NEW p \in Nat, NEW s \in 1 .. to, x + to = p * to + s
      PROVE  ALIGN(x, to) = p * to
  <2>1. x + to - 1 = p * to + (s - 1) /\ p * to \in Nat /\ p * to = to * p
    BY <1>3
  <2>2. (to * p + (s - 1)) \div to = p
    OBVIOUS
  <2> QED BY <2>1, <2>2 DEF ALIGN
<1> QED BY <1>2, <1>3

(* ... and those of a CPU that has no VM yet or is about to enter vm_init.  *)
LEMMA AwayShape ==
    ASSUME AInv, BarrierTypes, NEW c \in CPU,
           \/ VmmSetup(c) \/ SetupDone(c) \/ Affinity(c) \/ AffinityArrive(c) \/ AffinityDone(c)
           \/ Remaining(c) \/ Assigned(c) \/ Alloc(c) \/ Install(c) \/ AllocFails(c)
    PROVE  Away(c)
<1> USE DEF Goto, locals, tokens, At
<1>0. /\ DOMAIN pc = CPU /\ next_count \in [CPU -> Nat] /\ count \in [Token -> Nat]
      /\ vm_id \in [CPU -> VM \cup {INVALID}] /\ is_master \in [CPU -> BOOLEAN]
      /\ INVALID \notin VM
  BY Sorts DEF AInv, AssignTypes, BarrierTypes
<1>1. Rank(pc[c]) = -1
  <2>1. pc[c] \in {"setup", "affinity", "remaining", "install"}
    BY DEF VmmSetup, SetupDone, Affinity, AffinityArrive, AffinityDone, Remaining, Assigned, Alloc,
           Install, AllocFails
  <2> QED BY <2>1, Ranks
<1>2. Rank(pc'[c]) = -1 \/ (Rank(pc'[c]) = 0 /\ next_count'[c] = 0)
  <2>1. \/ pc'[c] \in {"setup", "affinity", "remaining", "install", "powerdown", "error"}
        \/ pc'[c] = "master_init" /\ next_count'[c] = 0
    BY <1>0 DEF VmmSetup, SetupDone, Affinity, AffinityArrive, AffinityDone, Remaining, Assigned,
                Alloc, Install, AllocFails, Depart
  <2> QED BY <2>1, Ranks
<1>3. Rank(pc'[c]) = 0 \/ pc'[c] = "install" => vm_id'[c] \in VM
  <2>1. CASE Alloc(c) \/ Install(c) \/ AllocFails(c)
    BY <1>0, <2>1 DEF Alloc, Install, AllocFails, BarrierTypes
  <2>2. CASE Assigned(c)
    <3>1. pc'[c] = "powerdown" \/ vm_id'[c] \in VM
      BY <1>0, <2>2 DEF Assigned
    <3> QED BY <3>1, Ranks
  <2>3. CASE ~(Alloc(c) \/ Install(c) \/ AllocFails(c) \/ Assigned(c))
    <3>1. pc'[c] \in {"setup", "affinity", "remaining"}
      BY <1>0, <2>3 DEF VmmSetup, SetupDone, Affinity, AffinityArrive, AffinityDone, Remaining,
                        Depart
    <3> QED BY <3>1, Ranks
  <2> QED BY <2>1, <2>2, <2>3
<1>4. CASE Affinity(c) \/ Remaining(c)
  <2>1. vm_id[c] \notin VM
    BY <1>0, <1>4 DEF Affinity, Remaining, Scanning
  <2>2. /\ UNCHANGED <<config, vm, vcpu, pc, count, next_count>>
        /\ \A d \in CPU : d # c => vm_id'[d] = vm_id[d] /\ is_master'[d] = is_master[d]
    BY <1>0, <1>4 DEF Affinity, Remaining, Join, Skip
  <2> QED BY <1>0, <1>1, <1>2, <1>3, <2>1, <2>2, Zenon DEF Away
<1>5. CASE ~(Affinity(c) \/ Remaining(c))
  <2>1. UNCHANGED <<config, vm, vcpu, vm_id, is_master>>
    BY <1>5 DEF VmmSetup, SetupDone, AffinityArrive, AffinityDone, Assigned, Alloc, Install,
                AllocFails, Depart
  <2>2. \A d \in CPU : d # c => pc'[d] = pc[d] /\ next_count'[d] = next_count[d]
    BY <1>0, <1>5 DEF VmmSetup, SetupDone, AffinityArrive, AffinityDone, Assigned, Alloc, Install,
                      AllocFails, Depart, Arrive, Count
  <2>3. \/ UNCHANGED <<count, next_count>>
        \/ next_count' = [next_count EXCEPT ![c] = 0] /\ UNCHANGED count
        \/ Count(c, Glb)
    BY <1>5 DEF VmmSetup, SetupDone, AffinityArrive, AffinityDone, Assigned, Alloc, Install,
                AllocFails, Depart, Arrive
  <2>4. ASSUME Count(c, Glb)
        PROVE  /\ count' \in [Token -> Nat] /\ next_count' \in [CPU -> Nat]
               /\ \A t \in Token : t # Glb => count'[t] = count[t]
    <3>1. Glb \in Token /\ n(Glb) = NCPU
      BY DEF Glb, Token, n
    <3>2. NCPU \in Nat /\ NCPU > 0
      BY BootAssumption DEF CPU
    <3>3. count[Glb] + 1 \in Nat
      BY <1>0, <3>1
    <3>4. ALIGN(count[Glb] + 1, n(Glb)) \in Nat
      BY <3>1, <3>2, <3>3, AlignUp
    <3> QED BY <1>0, <2>4, <3>1, <3>3, <3>4 DEF Count
  <2>5. \A v \in VM : /\ <<"root", v>> \in Token /\ <<"root", v>> # Glb
                      /\ <<"vm", v>> \in Token /\ <<"vm", v>> # Glb
    BY DEF Token, Glb
  <2>6. /\ count' \in [Token -> Nat] /\ next_count' \in [CPU -> Nat]
        /\ \A t \in Token : t # Glb => count'[t] = count[t]
    BY <1>0, <2>3, <2>4
  <2>7. \A v \in VM : count'[<<"root", v>>] = count[<<"root", v>>]
                      /\ count'[<<"vm", v>>] = count[<<"vm", v>>]
    BY <2>5, <2>6
  <2> QED BY <1>1, <1>2, <1>3, <2>1, <2>2, <2>6, <2>7, Zenon DEF Away
<1> QED BY <1>4, <1>5

(* There is no other step.                                                  *)
LEMMA StepShape ==
    ASSUME AInv, BarrierTypes, NEW c \in CPU, Step(c) \/ AllocFails(c)
    PROVE  \/ Away(c)
           \/ /\ vm_id[c] \in VM
              /\ \E k \in 0 .. 5 : Arrives(c, vm_id[c], k) \/ Departs(c, vm_id[c], k)
  BY ArriveShape, DepartShape, AwayShape, Zenon DEF Step

(* Who has arrived where changes only by an arrival.                        *)
LEMMA ArrivedKept ==
    ASSUME AInv, BarrierTypes, NEW c \in CPU
    PROVE  /\ Away(c) => \A v \in VM : \A j \in 0 .. 5 : Arrived(v, j)' = Arrived(v, j)
           /\ \A v \in VM : \A k \in 0 .. 5 : Departs(c, v, k) =>
                  \A w \in VM : \A j \in 0 .. 5 : Arrived(w, j)' = Arrived(w, j)
           /\ \A v \in VM : \A k \in 0 .. 5 : Arrives(c, v, k) /\ next_count'[c] > 0 =>
                  /\ Arrived(v, k)' = Arrived(v, k) \cup {c}
                  /\ c \in assign[v].cpus /\ c \notin Arrived(v, k)
                  /\ \A w \in VM : \A j \in 0 .. 5 : w # v \/ j # k => Arrived(w, j)' = Arrived(w, j)
<1>0. /\ \A d \in CPU : Rank(pc[d]) \in -1 .. 6 /\ Rank(pc'[d]) \in -1 .. 6
      /\ next_count \in [CPU -> Nat]
  BY Ranks DEF BarrierTypes
<1>1. ASSUME Away(c), NEW v \in VM, NEW j \in 0 .. 5
      PROVE  Arrived(v, j)' = Arrived(v, j)
  BY <1>0, <1>1 DEF Arrived, Away
<1>2. ASSUME NEW v \in VM, NEW k \in 0 .. 5, Departs(c, v, k), NEW w \in VM, NEW j \in 0 .. 5
      PROVE  Arrived(w, j)' = Arrived(w, j)
  <2>1. \A d \in CPU : /\ vm_id'[d] = vm_id[d]
                       /\ d # c => Rank(pc'[d]) = Rank(pc[d]) /\ next_count'[d] = next_count[d]
    BY <1>0, <1>2 DEF Departs
  <2>2. /\ Rank(pc[c]) = k /\ Rank(pc'[c]) = k + 1
        /\ next_count[c] > 0 /\ next_count'[c] = 0
    BY <1>0, <1>2 DEF Departs
  <2> QED BY <1>0, <2>1, <2>2 DEF Arrived
<1>3. ASSUME NEW v \in VM, NEW k \in 0 .. 5, Arrives(c, v, k), next_count'[c] > 0
      PROVE  /\ Arrived(v, k)' = Arrived(v, k) \cup {c}
             /\ c \in assign[v].cpus /\ c \notin Arrived(v, k)
             /\ \A w \in VM : \A j \in 0 .. 5 : w # v \/ j # k => Arrived(w, j)' = Arrived(w, j)
  <2>1. \A d \in CPU : /\ vm_id'[d] = vm_id[d]
                       /\ Rank(pc'[d]) = Rank(pc[d])
                       /\ d # c => next_count'[d] = next_count[d]
    BY <1>0, <1>3 DEF Arrives
  <2>2. Rank(pc[c]) = k /\ vm_id[c] = v /\ next_count[c] = 0
    BY <1>3 DEF Arrives
  <2>3. c \in assign[v].cpus
    BY <2>2 DEF AInv, AssignmentConsistent
  <2>4. c \notin Arrived(v, k)
    BY <2>2 DEF Arrived
  <2>5. Arrived(v, k)' = Arrived(v, k) \cup {c}
    BY <1>0, <1>3, <2>1, <2>2 DEF Arrived
  <2>6. ASSUME NEW w \in VM, NEW j \in 0 .. 5, w # v \/ j # k
        PROVE  Arrived(w, j)' = Arrived(w, j)
    BY <1>0, <1>3, <2>1, <2>2, <2>6 DEF Arrived
  <2> QED BY <2>3, <2>4, <2>5, <2>6
<1> QED BY <1>1, <1>2, <1>3

(* A CPU arrives in the round its VM is in, and waits for its end.          *)
LEMMA ArriveValue ==
    ASSUME AInv, BarrierInv, NEW c \in CPU, NEW v \in VM, NEW k \in 0 .. 5, Arrives(c, v, k)
    PROVE  /\ \A j \in 0 .. 5 : j < k => Size(v, j) = config[v].cpu_num
           /\ \A j \in 0 .. 5 : j > k => Arrived(v, j) = {}
           /\ next_count'[c] = Target(v, k) /\ next_count'[c] > 0
<1> DEFINE N == config[v].cpu_num
<1>1. vm_id[c] = v /\ Rank(pc[c]) = k /\ next_count[c] = 0
  BY DEF Arrives
<1>2. c \in assign[v].cpus /\ c \notin Arrived(v, k)
  BY <1>1 DEF AInv, AssignmentConsistent, Arrived
<1>3. Size(v, k) \in Nat /\ N \in Nat /\ N > 0 /\ Size(v, k) < N
  BY <1>2, ArrivedSize
<1>4. \A j \in 0 .. 5 : j < k => Size(v, j) = N
  BY <1>1 DEF BarrierInv, Passed
<1>5. \A j \in 0 .. 5 : j > k => Arrived(v, j) = {}
  BY <1>3, NobodyLater DEF BarrierInv
<1>6. count[Tok(v, k)] + N = Target(v, k) + Size(v, k)
  BY <1>3, <1>4, CounterInRound
<1>7. PICK p \in Nat : Target(v, k) = p * N /\ p * N > 0
  <2>1. CASE k = 0
    <3>1. Target(v, k) = 1 * N
      BY <1>3, <2>1 DEF Target
    <3> QED BY <1>3, <3>1
  <2>2. CASE k # 0
    <3>1. Target(v, k) = k * N
      BY <2>2 DEF Target
    <3>2. k \in Nat /\ k * N > 0
      BY <1>3, <2>2
    <3> QED BY <3>1, <3>2
  <2> QED BY <2>1, <2>2
<1>8. count[Tok(v, k)] \in Nat
  BY TokenKinds DEF BarrierInv, BarrierTypes
<1>9. ALIGN(count[Tok(v, k)] + 1, N) = Target(v, k)
  <2> HIDE DEF N
  <2>1. count[Tok(v, k)] + 1 \in Nat /\ Size(v, k) + 1 \in 1 .. N
    BY <1>3, <1>8
  <2>2. p * N \in Nat
    BY <1>3
  <2>3. (count[Tok(v, k)] + 1) + N = p * N + (Size(v, k) + 1)
    BY <1>3, <1>6, <1>7, <1>8, <2>2
  <2>4. N \in Nat /\ N > 0 /\ p \in Nat
    BY <1>3
  <2>5. ALIGN(count[Tok(v, k)] + 1, N) = p * N
    BY <2>1, <2>3, <2>4, AlignUp
  <2> QED BY <1>7, <2>5
<1>10. next_count'[c] = Target(v, k)
  BY <1>9 DEF Arrives, BarrierInv, BarrierTypes
<1> QED BY <1>4, <1>5, <1>7, <1>10

(* Who leaves a barrier leaves it complete.                                 *)
LEMMA DepartComplete ==
    ASSUME AInv, BarrierInv, NEW c \in CPU, NEW v \in VM, NEW k \in 0 .. 5, Departs(c, v, k)
    PROVE  \A j \in 0 .. 5 : j <= k => Size(v, j) = config[v].cpu_num
<1> DEFINE N == config[v].cpu_num
<1>1. vm_id[c] = v /\ Rank(pc[c]) = k /\ next_count[c] > 0 /\ count[Tok(v, k)] >= next_count[c]
  BY DEF Departs
<1>2. \A j \in 0 .. 5 : j < k => Size(v, j) = N
  BY <1>1 DEF BarrierInv, Passed
<1>3. next_count[c] = Target(v, k)
  BY <1>1 DEF BarrierInv, Waits
<1>4. Size(v, k) = N
  <2> SUFFICES ASSUME Size(v, k) # N PROVE FALSE
    OBVIOUS
  <2>1. Size(v, k) \in Nat /\ N \in Nat /\ Size(v, k) < N
    BY ArrivedSize
  <2>2. count[Tok(v, k)] + N <= Target(v, k) + Size(v, k)
    BY CounterInRound
  <2>3. count[Tok(v, k)] \in Nat /\ next_count[c] \in Nat
    BY TokenKinds DEF BarrierInv, BarrierTypes
  <2> QED BY <1>1, <1>3, <2>1, <2>2, <2>3
<1> QED BY <1>2, <1>4

(* Every step keeps the counters, what is waited for and who has passed.    *)
LEMMA NextBarrier ==
    ASSUME AInv, BarrierInv, NEW c \in CPU, Step(c) \/ AllocFails(c)
    PROVE  BarrierInv'
<1>0. /\ BarrierTypes /\ Counted /\ Waits /\ Passed
      /\ \A d \in CPU : Rank(pc[d]) \in -1 .. 6 /\ Rank(pc'[d]) \in -1 .. 6
      /\ next_count \in [CPU -> Nat] /\ count \in [Token -> Nat]
  BY Ranks DEF BarrierInv, BarrierTypes
<1>1. CASE Away(c)
  <2>1. \A v \in VM : \A j \in 0 .. 5 : Size(v, j)' = Size(v, j)
    BY <1>0, <1>1, ArrivedKept DEF Size
  <2>2. UNCHANGED config /\ \A v \in VM : Target(v, 0)' = Target(v, 0)
    BY <1>1 DEF Away, Target
  <2>3. BarrierTypes'
    <3>1. ASSUME NEW d \in CPU, Rank(pc'[d]) >= 0 \/ pc'[d] = "install" PROVE vm_id'[d] \in VM
      BY <1>0, <1>1, <3>1 DEF Away, BarrierTypes
    <3> QED BY <1>1, <3>1, Zenon DEF Away, BarrierTypes
  <2>4. Counted'
    <3>1. \A v \in VM : Size(v, 0)' = Size(v, 0) /\ Size(v, 1)' = Size(v, 1) /\ Size(v, 2)' = Size(v, 2)
                        /\ Size(v, 3)' = Size(v, 3) /\ Size(v, 4)' = Size(v, 4) /\ Size(v, 5)' = Size(v, 5)
      BY <2>1
    <3> QED BY <1>0, <1>1, <3>1 DEF Away, Counted
  <2>5. Waits'
    <3> SUFFICES ASSUME NEW w \in VM, NEW j \in 0 .. 5, NEW d \in CPU,
                        vm_id'[d] = w, Rank(pc'[d]) = j, next_count'[d] > 0
                 PROVE  next_count'[d] = Target(w, j)'
      BY DEF Waits
    <3>1. d # c
      BY <1>0, <1>1 DEF Away
    <3>2. pc'[d] = pc[d] /\ next_count'[d] = next_count[d] /\ vm_id'[d] = vm_id[d]
      BY <1>1, <3>1 DEF Away
    <3>3. next_count[d] = Target(w, j)
      BY <1>0, <3>2 DEF Waits
    <3> QED BY <2>2, <3>2, <3>3 DEF Target
  <2>6. Passed'
    <3> SUFFICES ASSUME NEW w \in VM, NEW j \in 0 .. 5, NEW d \in CPU,
                        vm_id'[d] = w, Rank(pc'[d]) > j
                 PROVE  Size(w, j)' = config'[w].cpu_num
      BY DEF Passed
    <3>1. d # c
      BY <1>0, <1>1 DEF Away
    <3>2. pc'[d] = pc[d] /\ vm_id'[d] = vm_id[d]
      BY <1>1, <3>1 DEF Away
    <3> QED BY <1>0, <2>1, <2>2, <3>2 DEF Passed
  <2> QED BY <2>3, <2>4, <2>5, <2>6 DEF BarrierInv
<1>2. ASSUME NEW v \in VM, NEW k \in 0 .. 5, Departs(c, v, k) PROVE BarrierInv'
  <2>1. \A w \in VM : \A j \in 0 .. 5 : Size(w, j)' = Size(w, j)
    BY <1>0, <1>2, ArrivedKept DEF Size
  <2>2. /\ UNCHANGED <<config, vm_id, count>>
        /\ \A d \in CPU : d # c => pc'[d] = pc[d] /\ next_count'[d] = next_count[d]
        /\ next_count'[c] = 0 /\ Rank(pc[c]) = k /\ Rank(pc'[c]) = k + 1 /\ vm_id[c] = v
    BY <1>0, <1>2 DEF Departs
  <2>3. BarrierTypes'
    <3>1. next_count' \in [CPU -> Nat]
      BY <1>0, <1>2 DEF Departs
    <3>2. ASSUME NEW d \in CPU, Rank(pc'[d]) >= 0 \/ pc'[d] = "install" PROVE vm_id'[d] \in VM
      <4>1. CASE d = c
        BY <2>2, <4>1
      <4>2. CASE d # c
        BY <1>0, <2>2, <3>2, <4>2 DEF BarrierTypes
      <4> QED BY <4>1, <4>2
    <3> QED BY <1>0, <2>2, <3>1, <3>2, Zenon DEF BarrierTypes
  <2>4. Counted'
    <3>1. \A w \in VM : Size(w, 0)' = Size(w, 0) /\ Size(w, 1)' = Size(w, 1) /\ Size(w, 2)' = Size(w, 2)
                        /\ Size(w, 3)' = Size(w, 3) /\ Size(w, 4)' = Size(w, 4) /\ Size(w, 5)' = Size(w, 5)
      BY <2>1
    <3> QED BY <1>0, <2>2, <3>1 DEF Counted
  <2>5. Waits'
    <3> SUFFICES ASSUME NEW w \in VM, NEW j \in 0 .. 5, NEW d \in CPU,
                        vm_id'[d] = w, Rank(pc'[d]) = j, next_count'[d] > 0
                 PROVE  next_count'[d] = Target(w, j)'
      BY DEF Waits
    <3>1. d # c
      BY <1>0, <2>2
    <3>3. next_count[d] = Target(w, j)
      BY <1>0, <2>2, <3>1 DEF Waits
    <3> QED BY <2>2, <3>1, <3>3 DEF Target
  <2>6. Passed'
    <3> SUFFICES ASSUME NEW w \in VM, NEW j \in 0 .. 5, NEW d \in CPU,
                        vm_id'[d] = w, Rank(pc'[d]) > j
                 PROVE  Size(w, j)' = config'[w].cpu_num
      BY DEF Passed
    <3>1. CASE d = c
      <4>1. j <= k
        BY <1>0, <2>2, <3>1
      <4> QED BY <1>2, <2>1, <2>2, <3>1, <4>1, DepartComplete
    <3>2. CASE d # c
      <4>1. pc'[d] = pc[d]
        BY <2>2, <3>2
      <4> QED BY <1>0, <2>1, <2>2, <4>1 DEF Passed
    <3> QED BY <3>1, <3>2
  <2> QED BY <2>3, <2>4, <2>5, <2>6 DEF BarrierInv
<1>3. ASSUME NEW v \in VM, NEW k \in 0 .. 5, Arrives(c, v, k) PROVE BarrierInv'
  <2>0. /\ next_count'[c] = Target(v, k) /\ next_count'[c] > 0
        /\ \A j \in 0 .. 5 : j < k => Size(v, j) = config[v].cpu_num
    BY <1>3, ArriveValue
  <2>1. /\ Arrived(v, k)' = Arrived(v, k) \cup {c} /\ c \notin Arrived(v, k)
        /\ \A w \in VM : \A j \in 0 .. 5 : w # v \/ j # k => Arrived(w, j)' = Arrived(w, j)
    BY <1>0, <1>3, <2>0, ArrivedKept
  <2>2. /\ Size(v, k)' = Size(v, k) + 1
        /\ \A w \in VM : \A j \in 0 .. 5 : w # v \/ j # k => Size(w, j)' = Size(w, j)
    BY <2>1, ArrivedSize, FS_AddElement DEF Size
  <2>3. /\ UNCHANGED <<config, vm_id, pc>>
        /\ \A d \in CPU : d # c => next_count'[d] = next_count[d]
        /\ Rank(pc[c]) = k /\ vm_id[c] = v
        /\ count' = [count EXCEPT ![Tok(v, k)] = @ + 1]
    BY <1>0, <1>3 DEF Arrives
  <2>4. BarrierTypes'
    <3>1. next_count' \in [CPU -> Nat]
      <4>1. DOMAIN next_count' = CPU /\ next_count' = [next_count EXCEPT ![c] = next_count'[c]]
        BY <1>0, <1>3 DEF Arrives
      <4>2. next_count'[c] \in Nat
        <5>1. config[v].cpu_num \in Nat
          BY ArrivedSize
        <5> QED BY <2>0, <5>1 DEF Target
      <4> QED BY <1>0, <4>1, <4>2
    <3>2. count' \in [Token -> Nat]
      BY <1>0, <2>3, TokenKinds
    <3> QED BY <1>0, <2>3, <3>1, <3>2 DEF BarrierTypes
  <2>5. Counted'
    <3> SUFFICES ASSUME NEW w \in VM
                 PROVE  /\ count'[<<"root", w>>] = Size(w, 0)'
                        /\ count'[<<"vm", w>>] = Size(w, 1)' + Size(w, 2)' + Size(w, 3)'
                                                 + Size(w, 4)' + Size(w, 5)'
      BY DEF Counted
    <3>1. /\ count[<<"root", w>>] = Size(w, 0)
          /\ count[<<"vm", w>>] = Size(w, 1) + Size(w, 2) + Size(w, 3) + Size(w, 4) + Size(w, 5)
          /\ \A j : Size(w, j) \in Nat
      BY <1>0, ArrivedSize DEF Counted
    <3>2. <<"root", w>> = Tok(w, 0) /\ <<"vm", w>> = Tok(w, 1)
      BY DEF Tok
    <3>3. \A t \in Token : count'[t] = IF t = Tok(v, k) THEN count[t] + 1 ELSE count[t]
      BY <1>0, <2>3
    <3>4. CASE w # v
      <4>1. Tok(w, 0) # Tok(v, k) /\ Tok(w, 1) # Tok(v, k)
        BY <3>4, TokenKinds
      <4>2. \A j \in 0 .. 5 : Size(w, j)' = Size(w, j)
        BY <2>2, <3>4
      <4> QED BY <3>1, <3>2, <3>3, <4>1, <4>2, TokenKinds
    <3>5. CASE w = v /\ k = 0
      <4>1. Tok(w, 0) = Tok(v, k) /\ Tok(w, 1) # Tok(v, k)
        BY <3>5, TokenKinds
      <4>2. \A j \in 1 .. 5 : Size(w, j)' = Size(w, j)
        BY <2>2, <3>5
      <4>3. Size(w, 0)' = Size(w, 0) + 1
        BY <2>2, <3>5
      <4> QED BY <3>1, <3>2, <3>3, <4>1, <4>2, <4>3, TokenKinds
    <3>6. CASE w = v /\ k # 0
      <4>1. Tok(w, 0) # Tok(v, k) /\ Tok(w, 1) = Tok(v, k)
        BY <3>6, TokenKinds
      <4>2. \A j \in 0 .. 5 : Size(w, j)' = IF j = k THEN Size(w, j) + 1 ELSE Size(w, j)
        BY <2>2, <3>6
      <4>3. count'[<<"root", w>>] = Size(w, 0)'
        BY <3>1, <3>2, <3>3, <3>6, <4>1, <4>2, TokenKinds
      <4>4. count'[<<"vm", w>>] = count[<<"vm", w>>] + 1
        BY <3>2, <3>3, <4>1, TokenKinds
      <4>5. Size(w, 1)' + Size(w, 2)' + Size(w, 3)' + Size(w, 4)' + Size(w, 5)'
              = Size(w, 1) + Size(w, 2) + Size(w, 3) + Size(w, 4) + Size(w, 5) + 1
        <5>1. k = 1 \/ k = 2 \/ k = 3 \/ k = 4 \/ k = 5
          BY <3>6
        <5>2. Size(w, 1) \in Nat /\ Size(w, 2) \in Nat /\ Size(w, 3) \in Nat
              /\ Size(w, 4) \in Nat /\ Size(w, 5) \in Nat
          BY <3>1
        <5> QED BY <4>2, <5>1, <5>2
      <4> QED BY <3>1, <4>3, <4>4, <4>5
    <3> QED BY <3>4, <3>5, <3>6
  <2>6. Waits'
    <3> SUFFICES ASSUME NEW w \in VM, NEW j \in 0 .. 5, NEW d \in CPU,
                        vm_id'[d] = w, Rank(pc'[d]) = j, next_count'[d] > 0
                 PROVE  next_count'[d] = Target(w, j)'
      BY DEF Waits
    <3>1. CASE d = c
      BY <2>0, <2>3, <3>1 DEF Target
    <3>2. CASE d # c
      <4>1. next_count[d] = Target(w, j)
        BY <1>0, <2>3, <3>2 DEF Waits
      <4> QED BY <2>3, <3>2, <4>1 DEF Target
    <3> QED BY <3>1, <3>2
  <2>7. Passed'
    <3> SUFFICES ASSUME NEW w \in VM, NEW j \in 0 .. 5, NEW d \in CPU,
                        vm_id[d] = w, Rank(pc[d]) > j
                 PROVE  Size(w, j)' = config[w].cpu_num
      BY <2>3 DEF Passed
    <3>1. Size(w, j) = config[w].cpu_num
      BY <1>0 DEF Passed
    <3>2. c \in assign[v].cpus /\ Size(v, k) # config[v].cpu_num
      <4>1. c \in assign[v].cpus
        BY <2>3 DEF AInv, AssignmentConsistent
      <4>2. assign[v].cpus # Arrived(v, k)
        BY <2>1, <4>1
      <4> QED BY <4>1, <4>2, ArrivedSize
    <3>3. w # v \/ j # k
      BY <3>1, <3>2
    <3> QED BY <2>2, <3>1, <3>3
  <2> QED BY <2>4, <2>5, <2>6, <2>7 DEF BarrierInv
<1> QED BY <1>0, <1>1, <1>2, <1>3, StepShape

(* What a CPU initialises when it arrives at the k-th barrier of v.         *)
Writes(c, v, k) ==
    /\ vm' \in VmType
    /\ DOMAIN vcpu' = CPU
    /\ \A w \in VM :
           /\ vm'[w].cpus = IF w = v /\ k = 1 THEN vm[w].cpus \cup {c} ELSE vm[w].cpus
           /\ vm'[w].master = IF w = v /\ k = 0 /\ is_master[c] THEN c ELSE vm[w].master
           /\ vm'[w].prot = IF w = v /\ k = 3 /\ is_master[c] THEN TRUE ELSE vm[w].prot
           /\ vm'[w].built = IF w = v /\ k = 4 /\ is_master[c] THEN TRUE ELSE vm[w].built
    /\ \A d \in CPU : vcpu'[d] = IF d = c /\ k = 2
                                 THEN Cardinality({e \in vm[v].cpus : e < c}) ELSE vcpu[d]

(* What the writes of the master make of the VMs.                           *)
LEMMA VmUpdates ==
    ASSUME vm \in VmType, NEW v \in VM, NEW c \in CPU
    PROVE  /\ [vm EXCEPT ![v].master = c] \in VmType
           /\ [vm EXCEPT ![v].cpus = @ \cup {c}] \in VmType
           /\ [vm EXCEPT ![v].prot = TRUE] \in VmType
           /\ [vm EXCEPT ![v].built = TRUE] \in VmType
<1> DEFINE R == [master : CPU \cup {INVALID}, cpus : SUBSET CPU, prot : BOOLEAN, built : BOOLEAN]
<1>1. vm \in [VM -> R] /\ VmType = [VM -> R]
  BY DEF VmType
<1>2. vm[v] \in R /\ vm[v].cpus \cup {c} \in SUBSET CPU /\ c \in CPU \cup {INVALID}
  BY <1>1
<1>3. /\ [vm[v] EXCEPT !.master = c] \in R
      /\ [vm[v] EXCEPT !.cpus = @ \cup {c}] \in R
      /\ [vm[v] EXCEPT !.prot = TRUE] \in R
      /\ [vm[v] EXCEPT !.built = TRUE] \in R
  BY <1>2
<1> HIDE DEF R
<1> QED BY <1>1, <1>3

(* A CPU initialises its part on the way to each barrier.                   *)
LEMMA ArriveWrites ==
    ASSUME AInv, BarrierTypes, Initialised, NEW c \in CPU, Step(c) \/ AllocFails(c),
           NEW v \in VM, NEW k \in 0 .. 5, Arrives(c, v, k)
    PROVE  Writes(c, v, k)
<1> USE DEF At, Arrive, locals
<1>0. /\ vm \in VmType
      /\ DOMAIN vcpu = CPU /\ is_master \in [CPU -> BOOLEAN] /\ DOMAIN pc = CPU
      /\ vm_id[c] = v /\ Rank(pc[c]) = k /\ pc' = pc
  BY DEF AInv, AssignTypes, Initialised, Arrives
<1>t. /\ vm' \in VmType /\ DOMAIN vcpu' = CPU
      /\ \A w \in VM :
            /\ vm'[w].cpus = IF w = v /\ k = 1 THEN vm[w].cpus \cup {c} ELSE vm[w].cpus
            /\ vm'[w].master = IF w = v /\ k = 0 /\ is_master[c] THEN c ELSE vm[w].master
            /\ vm'[w].prot = IF w = v /\ k = 3 /\ is_master[c] THEN TRUE ELSE vm[w].prot
            /\ vm'[w].built = IF w = v /\ k = 4 /\ is_master[c] THEN TRUE ELSE vm[w].built
      /\ \A d \in CPU : vcpu'[d] = IF d = c /\ k = 2
                             THEN Cardinality({e \in vm[v].cpus : e < c}) ELSE vcpu[d]
      => Writes(c, v, k)
  BY Zenon DEF Writes
<1>1. CASE MasterInit(c)
  <2>1. k = 0
    BY <1>0, <1>1, Ranks DEF MasterInit
  <2>2. vm' = IF is_master[c] THEN [vm EXCEPT ![v].master = c] ELSE vm
    BY <1>0, <1>1 DEF MasterInit
  <2>3. vcpu' = vcpu
    BY <1>1 DEF MasterInit
  <2>4. vm' \in VmType /\ DOMAIN vcpu' = CPU
    BY <1>0, <2>1, <2>2, <2>3, VmUpdates
  <2> QED BY <1>0, <1>t, <2>1, <2>2, <2>3, <2>4 DEF VmType
<1>2. CASE vm_cpu_init(c)
  <2>1. k = 1
    BY <1>0, <1>2, Ranks DEF vm_cpu_init
  <2>2. vm' = [vm EXCEPT ![v].cpus = @ \cup {c}] /\ vcpu' = vcpu
    BY <1>0, <1>2 DEF vm_cpu_init
  <2>4. vm' \in VmType /\ DOMAIN vcpu' = CPU
    BY <1>0, <2>1, <2>2, VmUpdates
  <2>5. \A d \in CPU : vcpu'[d] = IF d = c /\ k = 2
                                  THEN Cardinality({e \in vm[v].cpus : e < c}) ELSE vcpu[d]
    BY <2>1, <2>2
  <2>6. \A w \in VM :
            /\ vm'[w].cpus = IF w = v /\ k = 1 THEN vm[w].cpus \cup {c} ELSE vm[w].cpus
            /\ vm'[w].master = IF w = v /\ k = 0 /\ is_master[c] THEN c ELSE vm[w].master
            /\ vm'[w].prot = IF w = v /\ k = 3 /\ is_master[c] THEN TRUE ELSE vm[w].prot
            /\ vm'[w].built = IF w = v /\ k = 4 /\ is_master[c] THEN TRUE ELSE vm[w].built
    <3>1. \A w \in VM : w # v => vm'[w] = vm[w]
      BY <1>0, <2>2 DEF VmType
    <3>2. /\ vm'[v].cpus = vm[v].cpus \cup {c} /\ vm'[v].master = vm[v].master
          /\ vm'[v].prot = vm[v].prot /\ vm'[v].built = vm[v].built
      BY <1>0, <2>2 DEF VmType
    <3> QED BY <2>1, <3>1, <3>2
  <2> QED BY <1>t, <2>4, <2>5, <2>6, Zenon
<1>3. CASE vm_vcpu_init(c)
  <2>1. k = 2
    BY <1>0, <1>3, Ranks DEF vm_vcpu_init
  <2>2. vm' = vm /\ vcpu' = [vcpu EXCEPT ![c] = Cardinality({e \in vm[v].cpus : e < c})]
    BY <1>0, <1>3 DEF vm_vcpu_init, vm_calc_vcpu_id
  <2>4. vm' \in VmType /\ DOMAIN vcpu' = CPU
    BY <1>0, <2>1, <2>2, VmUpdates
  <2>5. \A d \in CPU : vcpu'[d] = IF d = c /\ k = 2
                                  THEN Cardinality({e \in vm[v].cpus : e < c}) ELSE vcpu[d]
    BY <1>0, <2>1, <2>2
  <2>6. \A w \in VM :
            /\ vm'[w].cpus = IF w = v /\ k = 1 THEN vm[w].cpus \cup {c} ELSE vm[w].cpus
            /\ vm'[w].master = IF w = v /\ k = 0 /\ is_master[c] THEN c ELSE vm[w].master
            /\ vm'[w].prot = IF w = v /\ k = 3 /\ is_master[c] THEN TRUE ELSE vm[w].prot
            /\ vm'[w].built = IF w = v /\ k = 4 /\ is_master[c] THEN TRUE ELSE vm[w].built
    BY <2>1, <2>2
  <2> QED BY <1>t, <2>4, <2>5, <2>6, Zenon
<1>4. CASE MemProt(c)
  <2>1. k = 3
    BY <1>0, <1>4, Ranks DEF MemProt
  <2>2. vm' = (IF is_master[c] THEN [vm EXCEPT ![v].prot = TRUE] ELSE vm) /\ vcpu' = vcpu
    BY <1>0, <1>4 DEF MemProt
  <2>4. vm' \in VmType /\ DOMAIN vcpu' = CPU
    BY <1>0, <2>1, <2>2, VmUpdates
  <2>5. CASE is_master[c]
    <3>1. vm' = [vm EXCEPT ![v].prot = TRUE]
      BY <2>2, <2>5
    <3> QED BY <1>0, <1>t, <2>1, <2>2, <2>4, <2>5, <3>1 DEF VmType
  <2>6. CASE ~is_master[c]
    <3>1. vm' = vm
      BY <2>2, <2>6
    <3> QED BY <1>0, <1>t, <2>1, <2>2, <2>4, <2>6, <3>1 DEF VmType
  <2> QED BY <2>5, <2>6
<1>5. CASE Build(c)
  <2>1. k = 4
    BY <1>0, <1>5, Ranks DEF Build
  <2>2. vm' = (IF is_master[c] THEN [vm EXCEPT ![v].built = TRUE] ELSE vm) /\ vcpu' = vcpu
    BY <1>0, <1>5 DEF Build
  <2>4. vm' \in VmType /\ DOMAIN vcpu' = CPU
    BY <1>0, <2>1, <2>2, VmUpdates
  <2>5. CASE is_master[c]
    <3>1. vm' = [vm EXCEPT ![v].built = TRUE]
      BY <2>2, <2>5
    <3> QED BY <1>0, <1>t, <2>1, <2>2, <2>4, <2>5, <3>1 DEF VmType
  <2>6. CASE ~is_master[c]
    <3>1. vm' = vm
      BY <2>2, <2>6
    <3> QED BY <1>0, <1>t, <2>1, <2>2, <2>4, <2>6, <3>1 DEF VmType
  <2> QED BY <2>5, <2>6
<1>6. CASE LastArrive(c)
  <2>1. k = 5
    BY <1>0, <1>6, Ranks DEF LastArrive
  <2>2. vm' = vm /\ vcpu' = vcpu
    BY <1>6 DEF LastArrive
  <2>4. vm' \in VmType /\ DOMAIN vcpu' = CPU
    BY <1>0, <2>1, <2>2, VmUpdates
  <2> QED BY <1>0, <1>t, <2>1, <2>2, <2>4 DEF VmType
<1>7. CASE ~(\/ MasterInit(c) \/ vm_cpu_init(c) \/ vm_vcpu_init(c) \/ MemProt(c) \/ Build(c)
             \/ LastArrive(c))
  <2>1. \/ MasterInitDone(c) \/ CpuInitDone(c) \/ VcpuInitDone(c) \/ MemProtDone(c)
        \/ BuildDone(c) \/ RunVcpu(c)
        \/ VmmSetup(c) \/ SetupDone(c) \/ Affinity(c) \/ AffinityArrive(c) \/ AffinityDone(c)
        \/ Remaining(c) \/ Assigned(c) \/ Alloc(c) \/ Install(c) \/ AllocFails(c)
    BY <1>7, Zenon DEF Step
  <2>2. CASE \/ MasterInitDone(c) \/ CpuInitDone(c) \/ VcpuInitDone(c) \/ MemProtDone(c)
             \/ BuildDone(c) \/ RunVcpu(c)
    <3>1. next_count[c] > 0
      BY <2>2 DEF MasterInitDone, CpuInitDone, VcpuInitDone, MemProtDone, BuildDone, RunVcpu,
                  Depart
    <3> QED BY <3>1 DEF Arrives
  <2>3. CASE \/ VmmSetup(c) \/ SetupDone(c) \/ Affinity(c) \/ AffinityArrive(c) \/ AffinityDone(c)
             \/ Remaining(c) \/ Assigned(c) \/ Alloc(c) \/ Install(c) \/ AllocFails(c)
    BY <1>0, <2>3, AwayShape DEF Away
  <2> QED BY <2>1, <2>2, <2>3
<1> QED BY <1>1, <1>2, <1>3, <1>4, <1>5, <1>6, <1>7

(* What was initialised stays so, and nothing else is written.              *)
LEMMA NextInitialised ==
    ASSUME AInv, BarrierInv, Initialised, NEW c \in CPU, Step(c) \/ AllocFails(c)
    PROVE  Initialised'
<1>0. BarrierTypes
  BY DEF BarrierInv
<1>1. ASSUME vm' = vm, vcpu' = vcpu,
             \A v \in VM : \A j \in 0 .. 5 : Arrived(v, j)' = Arrived(v, j),
             \A d \in CPU : vm_id[d] \in VM => vm_id'[d] = vm_id[d] /\ is_master'[d] = is_master[d]
      PROVE  Initialised'
  <2>1. \A v \in VM : vm'[v].cpus = Arrived(v, 1)'
    BY <1>1 DEF Initialised
  <2>2. ASSUME NEW v \in VM, NEW d \in CPU, vm_id'[d] = v
        PROVE  /\ d \in Arrived(v, 0)' /\ is_master'[d] => vm'[v].master = d
               /\ d \in Arrived(v, 3)' /\ is_master'[d] => vm'[v].prot
               /\ d \in Arrived(v, 4)' /\ is_master'[d] => vm'[v].built
               /\ d \in Arrived(v, 2)' => vcpu'[d] = Cardinality({e \in Arrived(v, 1)' : e < d})
               /\ d \notin Arrived(v, 2)' => vcpu'[d] = INVALID
    <3>1. /\ Arrived(v, 0)' = Arrived(v, 0) /\ Arrived(v, 1)' = Arrived(v, 1)
          /\ Arrived(v, 2)' = Arrived(v, 2) /\ Arrived(v, 3)' = Arrived(v, 3)
          /\ Arrived(v, 4)' = Arrived(v, 4)
      BY <1>1
    <3>2. CASE vm_id[d] \in VM
      <4>1. vm_id[d] = v /\ is_master'[d] = is_master[d]
        BY <1>1, <2>2, <3>2
      <4>2. /\ d \in Arrived(v, 0) /\ is_master[d] => vm[v].master = d
            /\ d \in Arrived(v, 3) /\ is_master[d] => vm[v].prot
            /\ d \in Arrived(v, 4) /\ is_master[d] => vm[v].built
            /\ d \in Arrived(v, 2) => vcpu[d] = Cardinality({e \in Arrived(v, 1) : e < d})
            /\ d \notin Arrived(v, 2) => vcpu[d] = INVALID
        BY <4>1 DEF Initialised
      <4>3. {e \in Arrived(v, 1)' : e < d} = {e \in Arrived(v, 1) : e < d}
        BY <3>1
      <4> QED BY <1>1, <3>1, <4>1, <4>2, <4>3
    <3>3. CASE vm_id[d] \notin VM
      <4>1. /\ d \notin Arrived(v, 0) /\ d \notin Arrived(v, 2) /\ d \notin Arrived(v, 3)
            /\ d \notin Arrived(v, 4)
        BY <3>3 DEF Arrived
      <4>2. vcpu'[d] = INVALID
        BY <1>1, <3>3 DEF Initialised
      <4> QED BY <3>1, <4>1, <4>2
    <3> QED BY <3>2, <3>3
  <2>3. \A d \in CPU : vm_id'[d] \notin VM => vcpu'[d] = INVALID
    BY <1>1 DEF Initialised
  <2> QED BY <1>1, <2>1, <2>2, <2>3 DEF Initialised
<1>2. CASE Away(c)
  BY <1>0, <1>1, <1>2, ArrivedKept DEF Away
<1>3. ASSUME NEW v \in VM, NEW k \in 0 .. 5, Departs(c, v, k) PROVE Initialised'
  BY <1>0, <1>1, <1>3, ArrivedKept DEF Departs
<1>4. ASSUME NEW v \in VM, NEW k \in 0 .. 5, Arrives(c, v, k) PROVE Initialised'
  <2>0. /\ next_count'[c] > 0
        /\ \A j \in 0 .. 5 : j > k => Arrived(v, j) = {}
    BY <1>4, ArriveValue
  <2>1. /\ Arrived(v, k)' = Arrived(v, k) \cup {c} /\ c \in assign[v].cpus
        /\ \A w \in VM : \A j \in 0 .. 5 : w # v \/ j # k => Arrived(w, j)' = Arrived(w, j)
    BY <1>0, <1>4, <2>0, ArrivedKept
  <2>2. UNCHANGED <<vm_id, is_master>> /\ vm_id[c] = v
    BY <1>4 DEF Arrives
  <2>3. Writes(c, v, k)
    BY <1>0, <1>4, ArriveWrites
  <2>4. ASSUME NEW w \in VM PROVE vm'[w].cpus = Arrived(w, 1)'
    <3>1. Arrived(w, 1)' = IF w = v /\ k = 1 THEN Arrived(w, 1) \cup {c} ELSE Arrived(w, 1)
      BY <2>1
    <3>2. vm[w].cpus = Arrived(w, 1)
      BY DEF Initialised
    <3> QED BY <2>3, <3>1, <3>2 DEF Writes
  <2>5. ASSUME NEW w \in VM, NEW d \in CPU, vm_id[d] = w
        PROVE  /\ d \in Arrived(w, 0)' /\ is_master[d] => vm'[w].master = d
               /\ d \in Arrived(w, 3)' /\ is_master[d] => vm'[w].prot
               /\ d \in Arrived(w, 4)' /\ is_master[d] => vm'[w].built
               /\ d \in Arrived(w, 2)' => vcpu'[d] = Cardinality({e \in Arrived(w, 1)' : e < d})
               /\ d \notin Arrived(w, 2)' => vcpu'[d] = INVALID
    <3>1. /\ d \in Arrived(w, 0) /\ is_master[d] => vm[w].master = d
          /\ d \in Arrived(w, 3) /\ is_master[d] => vm[w].prot
          /\ d \in Arrived(w, 4) /\ is_master[d] => vm[w].built
          /\ d \in Arrived(w, 2) => vcpu[d] = Cardinality({e \in Arrived(w, 1) : e < d})
          /\ d \notin Arrived(w, 2) => vcpu[d] = INVALID
      BY <2>5 DEF Initialised
    <3>0. \A j \in 0 .. 5 : d \in Arrived(w, j)' <=>
              d \in Arrived(w, j) \/ (w = v /\ j = k /\ d = c)
      BY <2>1
    <3>2. /\ d \in Arrived(w, 0)' <=> d \in Arrived(w, 0) \/ (w = v /\ 0 = k /\ d = c)
          /\ d \in Arrived(w, 2)' <=> d \in Arrived(w, 2) \/ (w = v /\ 2 = k /\ d = c)
          /\ d \in Arrived(w, 3)' <=> d \in Arrived(w, 3) \/ (w = v /\ 3 = k /\ d = c)
          /\ d \in Arrived(w, 4)' <=> d \in Arrived(w, 4) \/ (w = v /\ 4 = k /\ d = c)
      BY <3>0
    <3>3. d \in Arrived(w, 0)' /\ is_master[d] => vm'[w].master = d
      <4>1. CASE w = v /\ k = 0 /\ is_master[c] /\ is_master[d]
        <5>1. c \in assign[v].cpus /\ d \in assign[v].cpus
          BY <2>1, <2>5, <4>1 DEF AInv, AssignmentConsistent
        <5>2. PICK m \in assign[v].cpus : {e \in assign[v].cpus : is_master[e]} = {m}
          BY <5>1, Zenon DEF AInv, AssignmentConsistent
        <5>3. c = d
          BY <4>1, <5>1, <5>2
        <5> QED BY <2>3, <4>1, <5>3 DEF Writes
      <4>2. CASE ~(w = v /\ k = 0 /\ is_master[c] /\ is_master[d])
        BY <2>3, <3>1, <3>2, <4>2 DEF Writes
      <4> QED BY <4>1, <4>2
    <3>4. d \in Arrived(w, 3)' /\ is_master[d] => vm'[w].prot
      BY <2>3, <3>1, <3>2 DEF Writes
    <3>5. d \in Arrived(w, 4)' /\ is_master[d] => vm'[w].built
      BY <2>3, <3>1, <3>2 DEF Writes
    <3>6. d \in Arrived(w, 2)' => vcpu'[d] = Cardinality({e \in Arrived(w, 1)' : e < d})
      <4>1. CASE d = c /\ k = 2
        <5>1. w = v /\ Arrived(w, 1)' = Arrived(v, 1) /\ vm[v].cpus = Arrived(v, 1)
          BY <2>1, <2>2, <2>5, <4>1 DEF Initialised
        <5> QED BY <2>3, <4>1, <5>1 DEF Writes
      <4>2. CASE ~(d = c /\ k = 2)
        <5>1. vcpu'[d] = vcpu[d]
          BY <2>3, <4>2 DEF Writes
        <5>2. d \in Arrived(w, 2)' => d \in Arrived(w, 2)
          BY <3>2, <4>2
        <5>3. d \in Arrived(w, 2) => Arrived(w, 1)' = Arrived(w, 1)
          BY <2>0, <2>1
        <5> QED BY <3>1, <5>1, <5>2, <5>3
      <4> QED BY <4>1, <4>2
    <3>7. d \notin Arrived(w, 2)' => vcpu'[d] = INVALID
      BY <2>2, <2>3, <2>5, <3>1, <3>2 DEF Writes
    <3> QED BY <3>3, <3>4, <3>5, <3>6, <3>7
  <2>6. ASSUME NEW d \in CPU, vm_id[d] \notin VM PROVE vcpu'[d] = INVALID
    BY <2>2, <2>3, <2>6 DEF Initialised, Writes
  <2>7. /\ vm' \in VmType
        /\ DOMAIN vcpu' = CPU
    BY <2>3, Zenon DEF Writes
  <2> QED BY <2>2, <2>4, <2>5, <2>6, <2>7 DEF Initialised
<1> QED BY <1>0, <1>2, <1>3, <1>4, StepShape

(* At reset nobody has arrived anywhere.                                    *)
LEMMA InitBarrier ==
    ASSUME Init PROVE BarrierInv /\ Initialised
<1>1. \A c \in CPU : /\ Rank(pc[c]) = -1 /\ pc[c] = "setup" /\ next_count[c] = 0
                     /\ vm_id[c] = INVALID /\ vcpu[c] = INVALID
  BY Ranks DEF Init
<1>2. \A v \in VM : \A k \in 0 .. 5 : Arrived(v, k) = {}
  BY <1>1 DEF Arrived
<1>3. \A v \in VM : \A k \in 0 .. 5 : Size(v, k) = 0
  BY <1>2, FS_EmptySet DEF Size
<1>4. BarrierTypes
  BY <1>1 DEF Init, BarrierTypes
<1>5. Counted
  <2>1. \A v \in VM : <<"root", v>> \in Token /\ <<"vm", v>> \in Token
    BY DEF Token
  <2>2. \A v \in VM : count[<<"root", v>>] = 0 /\ count[<<"vm", v>>] = 0
    BY <2>1 DEF Init
  <2>3. \A v \in VM : /\ Size(v, 0) = 0 /\ Size(v, 1) = 0 /\ Size(v, 2) = 0
                      /\ Size(v, 3) = 0 /\ Size(v, 4) = 0 /\ Size(v, 5) = 0
    BY <1>3
  <2>4. ASSUME NEW v \in VM
        PROVE  /\ count[<<"root", v>>] = Size(v, 0)
               /\ count[<<"vm", v>>] = Size(v, 1) + Size(v, 2) + Size(v, 3) + Size(v, 4) + Size(v, 5)
    <3>1. count[<<"root", v>>] = 0 /\ count[<<"vm", v>>] = 0
      BY <2>2
    <3> QED BY <2>3, <3>1
  <2> QED BY <2>4, Zenon DEF Counted
<1>6. Waits /\ Passed
  BY <1>1 DEF Waits, Passed
<1>7. vm \in VmType /\ DOMAIN vcpu = CPU /\ \A v \in VM : vm[v].cpus = {}
  BY DEF Init, VmType
<1>8. \A v \in VM : Arrived(v, 1) = {}
  BY <1>2
<1>9. Initialised
  BY <1>1, <1>7, <1>8, Sorts DEF Initialised
<1> QED BY <1>4, <1>5, <1>6, <1>9 DEF BarrierInv

(* The barriers of vm_init (cpu_sync_barrier on root_sync and on vm->sync)  *)
(* keep the CPUs of a VM in step: AInv, BarrierInv and Initialised are      *)
(* inductive together.                                                      *)
THEOREM BarriersHold == Spec => [](BarrierInv /\ Initialised)
<1>1. Init => BarrierInv /\ Initialised
  BY InitBarrier
<1>2. AInv /\ BarrierInv /\ Initialised /\ [Next]_vars => (BarrierInv /\ Initialised)'
  <2> SUFFICES ASSUME AInv, BarrierInv, Initialised, [Next]_vars
               PROVE  (BarrierInv /\ Initialised)'
    OBVIOUS
  <2>1. CASE Next
    BY <2>1, NextBarrier, NextInitialised, Zenon DEF Next
  <2>2. CASE UNCHANGED vars
    <3>1. UNCHANGED <<config, vm, vcpu, is_master, vm_id, pc, count, next_count>>
      BY <2>2 DEF vars, locals, tokens
    <3>2. \A v, k : Arrived(v, k)' = Arrived(v, k) /\ Size(v, k)' = Size(v, k)
                    /\ Target(v, k)' = Target(v, k)
      BY <3>1, Zenon DEF Arrived, Size, Target
    <3>3. BarrierTypes' /\ Counted'
      BY <3>1, <3>2, Zenon DEF BarrierInv, BarrierTypes, Counted
    <3>4. Waits' /\ Passed'
      BY <3>1, <3>2, Zenon DEF BarrierInv, Waits, Passed
    <3>5. Initialised'
      BY <3>1, <3>2, Zenon DEF Initialised
    <3> QED BY <3>3, <3>4, <3>5 DEF BarrierInv
  <2> QED BY <2>1, <2>2
<1> QED
  BY <1>1, <1>2, BootInvariant, PTL DEF Spec

(* The places of vm_init in the order of their barriers.                    *)
LEMMA ReachedRank ==
    ASSUME NEW c \in CPU
    PROVE  /\ c \in Reached("cpu_init") => Rank(pc[c]) > 0
           /\ c \in Reached("vcpu_init") => Rank(pc[c]) > 1
           /\ c \in Reached("build") => Rank(pc[c]) > 3
           /\ c \in Reached("run") => Rank(pc[c]) > 5
<1> DEFINE order == <<"install", "master_init", "cpu_init", "vcpu_init", "mem_prot",
                      "build", "done", "run">>
<1> DEFINE index(p) == CHOOSE k \in 1 .. 8 : order[k] = p
<1>1. \A j, k \in 1 .. 8 : order[j] = order[k] => j = k
  OBVIOUS
<1>2. \A k \in 1 .. 8 : index(order[k]) = k
  <2> TAKE k \in 1 .. 8
  <2>1. index(order[k]) \in 1 .. 8 /\ order[index(order[k])] = order[k]
    <3> HIDE DEF order
    <3> QED OBVIOUS
  <2> HIDE DEF order, index
  <2> QED BY <1>1, <2>1
<1>3. /\ order[3] = "cpu_init" /\ order[4] = "vcpu_init" /\ order[6] = "build"
      /\ order[8] = "run"
  OBVIOUS
<1>4. index("cpu_init") = 3 /\ index("vcpu_init") = 4 /\ index("build") = 6 /\ index("run") = 8
  <2> HIDE DEF order, index
  <2>1. index(order[3]) = 3 /\ index(order[4]) = 4 /\ index(order[6]) = 6 /\ index(order[8]) = 8
    BY <1>2
  <2> QED BY <1>3, <2>1
<1>5. \A k \in 1 .. 8 : Rank(order[k]) = k - 2
  BY Ranks
<1>6. ASSUME NEW where, c \in Reached(where)
      PROVE  \E k \in 1 .. 8 : order[k] = pc[c] /\ k >= index(where)
  <2>1. /\ \E k \in 1 .. 8 : order[k] = pc[c]
        /\ index(pc[c]) >= index(where)
    BY <1>6 DEF Reached
  <2> HIDE DEF order, index
  <2> QED BY <1>2, <2>1
<1> HIDE DEF order, index
<1>7. ASSUME c \in Reached("cpu_init") PROVE Rank(pc[c]) > 0
  <2>1. PICK k \in 1 .. 8 : order[k] = pc[c] /\ k >= 3
    BY <1>4, <1>6, <1>7
  <2> QED BY <1>5, <2>1
<1>8. ASSUME c \in Reached("vcpu_init") PROVE Rank(pc[c]) > 1
  <2>1. PICK k \in 1 .. 8 : order[k] = pc[c] /\ k >= 4
    BY <1>4, <1>6, <1>8
  <2> QED BY <1>5, <2>1
<1>9. ASSUME c \in Reached("build") PROVE Rank(pc[c]) > 3
  <2>1. PICK k \in 1 .. 8 : order[k] = pc[c] /\ k >= 6
    BY <1>4, <1>6, <1>9
  <2> QED BY <1>5, <2>1
<1>10. ASSUME c \in Reached("run") PROVE Rank(pc[c]) > 5
  <2>1. PICK k \in 1 .. 8 : order[k] = pc[c] /\ k >= 8
    BY <1>4, <1>6, <1>10
  <2> QED BY <1>5, <2>1
<1> QED BY <1>7, <1>8, <1>9, <1>10

(* Past a barrier every CPU of the VM has done what it did before it, its   *)
(* master too.                                                              *)
LEMMA PastBarrier ==
    ASSUME AInv, BarrierInv, NEW c \in CPU, NEW k \in 0 .. 5, Rank(pc[c]) > k
    PROVE  /\ vm_id[c] \in VM
           /\ Arrived(vm_id[c], k) = assign[vm_id[c]].cpus
           /\ assign[vm_id[c]].ncpus = config[vm_id[c]].cpu_num
           /\ \E m \in Arrived(vm_id[c], k) : is_master[m]
<1>1. Rank(pc[c]) \in -1 .. 6
  BY Ranks
<1>2. vm_id[c] \in VM
  BY <1>1 DEF BarrierInv, BarrierTypes
<1>3. PICK v \in VM : v = vm_id[c]
  BY <1>2
<1>4. Size(v, k) = config[v].cpu_num
  BY <1>3 DEF BarrierInv, Passed
<1>5. Arrived(v, k) = assign[v].cpus /\ assign[v].ncpus = config[v].cpu_num
  BY <1>4, ArrivedSize
<1>6. c \in assign[v].cpus
  BY <1>3 DEF AInv, AssignmentConsistent
<1>7. PICK m \in assign[v].cpus : {d \in assign[v].cpus : is_master[d]} = {m}
  BY <1>6, Zenon DEF AInv, AssignmentConsistent
<1> QED BY <1>3, <1>5, <1>7

(* vm_init: under every interleaving, and for VMs that never get all their  *)
(* CPUs too, nothing is used before the master and the other CPUs of the VM *)
(* have initialised it.                                                     *)
THEOREM NothingUsedEarly == Spec => []InitialisedBeforeUse
<1>1. AInv /\ BarrierInv /\ Initialised => InitialisedBeforeUse
  <2> SUFFICES ASSUME AInv, BarrierInv, Initialised, NEW c \in CPU
               PROVE  /\ c \in Reached("cpu_init") => is_master[vm[vm_id[c]].master]
                      /\ c \in Reached("vcpu_init") =>
                             /\ vm[vm_id[c]].cpus = assign[vm_id[c]].cpus
                             /\ assign[vm_id[c]].ncpus = config[vm_id[c]].cpu_num
                      /\ c \in Reached("build") => vm[vm_id[c]].prot
                      /\ c \in Reached("run") =>
                             /\ vm[vm_id[c]].built
                             /\ \A d \in assign[vm_id[c]].cpus : vcpu[d] # INVALID
    BY DEF InitialisedBeforeUse
  <2>0. /\ Rank(pc[c]) \in -1 .. 6
        /\ \A k \in 0 .. 5 : \A m \in Arrived(vm_id[c], k) : m \in CPU /\ vm_id[m] = vm_id[c]
    BY Ranks DEF Arrived
  <2> DEFINE v == vm_id[c]
  <2>i. ASSUME v \in VM, NEW m \in CPU, vm_id[m] = v, is_master[m]
        PROVE  /\ m \in Arrived(v, 0) => vm[v].master = m
               /\ m \in Arrived(v, 3) => vm[v].prot
               /\ m \in Arrived(v, 4) => vm[v].built
    <3> HIDE DEF v
    <3> QED BY <2>i DEF Initialised
  <2>1. ASSUME c \in Reached("cpu_init") PROVE is_master[vm[vm_id[c]].master]
    <3>1. Rank(pc[c]) > 0
      BY <2>1, ReachedRank
    <3>2. vm_id[c] \in VM /\ \E m \in Arrived(vm_id[c], 0) : is_master[m]
      BY <3>1, PastBarrier
    <3>3. PICK m \in CPU : m \in Arrived(v, 0) /\ vm_id[m] = v /\ is_master[m]
      BY <2>0, <3>2
    <3>4. vm[v].master = m
      BY <2>i, <3>2, <3>3
    <3> QED BY <3>3, <3>4
  <2>2. ASSUME c \in Reached("vcpu_init")
        PROVE  /\ vm[vm_id[c]].cpus = assign[vm_id[c]].cpus
               /\ assign[vm_id[c]].ncpus = config[vm_id[c]].cpu_num
    <3>1. Rank(pc[c]) > 1
      BY <2>2, ReachedRank
    <3> QED BY <3>1, PastBarrier DEF Initialised
  <2>3. ASSUME c \in Reached("build") PROVE vm[vm_id[c]].prot
    <3>1. Rank(pc[c]) > 3
      BY <2>3, ReachedRank
    <3>2. vm_id[c] \in VM /\ \E m \in Arrived(vm_id[c], 3) : is_master[m]
      BY <3>1, PastBarrier
    <3>3. PICK m \in CPU : m \in Arrived(v, 3) /\ vm_id[m] = v /\ is_master[m]
      BY <2>0, <3>2
    <3> QED BY <2>i, <3>2, <3>3
  <2>4. ASSUME c \in Reached("run")
        PROVE  vm[vm_id[c]].built /\ \A d \in assign[vm_id[c]].cpus : vcpu[d] # INVALID
    <3>1. Rank(pc[c]) > 4 /\ Rank(pc[c]) > 2
      BY <2>0, <2>4, ReachedRank
    <3>2. vm_id[c] \in VM /\ \E m \in Arrived(vm_id[c], 4) : is_master[m]
      BY <3>1, PastBarrier
    <3>3. vm[vm_id[c]].built
      <4>1. PICK m \in CPU : m \in Arrived(v, 4) /\ vm_id[m] = v /\ is_master[m]
        BY <2>0, <3>2
      <4> QED BY <2>i, <3>2, <4>1
    <3>4. ASSUME NEW d \in assign[vm_id[c]].cpus PROVE vcpu[d] # INVALID
      <4>1. d \in Arrived(vm_id[c], 2) /\ d \in CPU /\ vm_id[d] = vm_id[c]
        BY <2>0, <3>1, PastBarrier
      <4>2. vcpu[d] = Cardinality({e \in Arrived(vm_id[c], 1) : e < d})
        BY <3>2, <4>1 DEF Initialised
      <4>3. IsFiniteSet({e \in Arrived(vm_id[c], 1) : e < d})
        BY <3>2, ArrivedSize, FS_Subset
      <4> QED BY <4>2, <4>3, FS_CardinalityType, BootAssumption
    <3> QED BY <3>3, <3>4
  <2> QED BY <2>1, <2>2, <2>3, <2>4
<1> QED
  BY <1>1, BarriersHold, BootInvariant, PTL

(* vm_calc_vcpu_id: the vCPUs of a VM are numbered from 0 in the order of   *)
(* the physical CPUs, so no two share a structure.                          *)
THEOREM IdentifiersExact == Spec => []VcpuIdsExact
<1>1. AInv /\ BarrierInv /\ Initialised => VcpuIdsExact
  <2> SUFFICES ASSUME AInv, BarrierInv, Initialised, NEW v \in VM
               PROVE  LET mine == {c \in assign[v].cpus : vcpu[c] # INVALID}
                      IN  /\ \A c, d \in mine : c < d => vcpu[c] < vcpu[d]
                          /\ \A c \in mine : vcpu[c] \in 0 .. config[v].cpu_num - 1
    BY Zenon DEF VcpuIdsExact
  <2> DEFINE below(c) == {e \in Arrived(v, 1) : e < c}
  <2>0. /\ CPU \subseteq Int /\ Arrived(v, 1) \subseteq CPU /\ IsFiniteSet(Arrived(v, 1))
        /\ config[v].cpu_num \in Nat
    <3>1. CPU \subseteq Int
      BY BootAssumption DEF CPU
    <3>2. Arrived(v, 1) \subseteq CPU
      BY DEF Arrived
    <3> QED BY <3>1, <3>2, ArrivedSize
  <2>1. ASSUME NEW c \in assign[v].cpus, vcpu[c] # INVALID
        PROVE  /\ c \in Arrived(v, 1) /\ Size(v, 1) = config[v].cpu_num
               /\ vcpu[c] = Cardinality(below(c))
    <3>1. c \in CPU /\ vm_id[c] = v
      BY DEF AInv, AssignmentConsistent
    <3>2. c \in Arrived(v, 2)
      BY <2>1, <3>1 DEF Initialised
    <3>3. Rank(pc[c]) > 1 /\ Rank(pc[c]) \in -1 .. 6
      BY <3>2, Ranks DEF Arrived
    <3>4. c \in Arrived(v, 1) /\ Size(v, 1) = config[v].cpu_num
      BY <3>1, <3>3 DEF Arrived, BarrierInv, Passed
    <3> QED BY <3>1, <3>2, <3>4 DEF Initialised
  <2>2. \A c : IsFiniteSet(below(c)) /\ Cardinality(below(c)) \in Nat
    <3> TAKE c
    <3>1. below(c) \subseteq Arrived(v, 1)
      OBVIOUS
    <3> QED BY <2>0, <3>1, FS_Subset, FS_CardinalityType
  <2>3. ASSUME NEW c \in assign[v].cpus, vcpu[c] # INVALID,
               NEW S \in SUBSET Arrived(v, 1), c \in S, below(c) \subseteq S
        PROVE  Cardinality(below(c)) < Cardinality(S)
    <3>1. c \in Arrived(v, 1) /\ c \in Int
      BY <2>0, <2>1, <2>3
    <3>2. IsFiniteSet(S) /\ c \notin below(c)
      BY <2>0, <3>1, FS_Subset
    <3>3. below(c) # S
      BY <2>3, <3>2
    <3> QED BY <2>2, <2>3, <3>2, <3>3, FS_Subset, FS_CardinalityType
  <2>4. ASSUME NEW c \in assign[v].cpus, vcpu[c] # INVALID,
               NEW d \in assign[v].cpus, vcpu[d] # INVALID, c < d
        PROVE  vcpu[c] < vcpu[d]
    <3>1. c \in Arrived(v, 1) /\ d \in Arrived(v, 1) /\ c \in Int /\ d \in Int
      BY <2>0, <2>1, <2>4
    <3>2. c \in below(d) /\ below(d) \in SUBSET Arrived(v, 1)
      BY <2>4, <3>1
    <3>3. below(c) \subseteq below(d)
      <4>1. \A e \in Arrived(v, 1) : e \in Int
        BY <2>0
      <4>2. \A e \in Arrived(v, 1) : e < c => e < d
        BY <2>4, <3>1, <4>1
      <4> QED BY <4>2
    <3>4. Cardinality(below(c)) < Cardinality(below(d))
      BY <2>3, <2>4, <3>2, <3>3
    <3> QED BY <2>1, <2>4, <3>4
  <2>5. ASSUME NEW c \in assign[v].cpus, vcpu[c] # INVALID
        PROVE  vcpu[c] \in 0 .. config[v].cpu_num - 1
    <3>1. Cardinality(below(c)) < Size(v, 1)
      <4>1. c \in Arrived(v, 1) /\ below(c) \subseteq Arrived(v, 1)
        BY <2>1, <2>5
      <4> QED BY <2>3, <2>5, <4>1 DEF Size
    <3>2. Cardinality(below(c)) \in Nat
      BY <2>2
    <3> HIDE DEF below
    <3> QED BY <2>0, <2>1, <2>5, <3>1, <3>2
  <2> QED BY <2>4, <2>5
<1> QED
  BY <1>1, BarriersHold, BootInvariant, PTL

=============================================================================
