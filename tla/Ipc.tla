-------------------------------- MODULE Ipc --------------------------------
(***************************************************************************)
(* Inter-VM communication (core/ipc.c, core/shmem.c and vm_init_ipc in      *)
(* core/vm.c).  A VM is configured with IPC objects, each a shared memory   *)
(* and the interrupts it wants for its events.  At set-up its master CPU    *)
(* signs up with the shared memories; a ring by a guest is a message to the *)
(* masters signed up there except its own, and injects into the VM of the   *)
(* receiver the interrupt that VM has configured for the event.             *)
(*                                                                          *)
(* Messages go through the queues of cpu.c, one per CPU and in order        *)
(* (module MsgFifo); a CPU takes one when its VM is set up.  Messages and   *)
(* injected interrupts carry the number of their ring, which tells two of   *)
(* the same content apart.  RINGS bounds the rings.                         *)
(***************************************************************************)
EXTENDS Integers, FiniteSets, Sequences, SequencesExt

CONSTANTS
    VM,        \* the VMs
    Cpus,      \* Cpus[v]: the CPUs of VM v
    Shmems,    \* shmem_table_size: the shared memories are 0 .. Shmems - 1
    Event,     \* the events guests may ring
    RINGS

Cpu == UNION {Cpus[v] : v \in VM}

(* No two objects of a VM are over the same shared memory: of those that    *)
(* are, ipc_find_by_shmemid only ever finds the first.                      *)
Distinct(objects) ==
    \A j, k \in DOMAIN objects :
        objects[j].shmem_id = objects[k].shmem_id /\ objects[j].shmem_id < Shmems => j = k

VARIABLES
    ipcs,      \* ipcs[v]: the IPC objects of VM v: shmem_id and interrupts
    ipcat,     \* ipcat[v]: how many of them vm_init_ipc is done with
    master,    \* master[v]: the CPU that became v's master
    cpu_masters, \* cpu_masters[s]: the CPUs signed up with shared memory s
    mail,      \* mail[c]: the IPC_NOTIFY messages of CPU c, oldest first
    injected,  \* injected[v]: the interrupts injected into v, in order, with
               \* the ring each one is for
    rung       \* the rings so far: the VM, the shared memory, the event and the
               \* VMs that were set up then

vars == <<ipcs, ipcat, master, cpu_masters, mail, injected, rung>>

Init ==
    /\ ipcat = [v \in VM |-> 0]
    /\ cpu_masters = [s \in 0 .. Shmems - 1 |-> {}]
    /\ mail = [c \in Cpu |-> <<>>]
    /\ injected = [v \in VM |-> <<>>]
    /\ rung = <<>>

Unset(v) == ipcat[v] < Len(ipcs[v])

NextIpc(v) == ipcs[v][ipcat[v] + 1]

(* One object of vm_init_ipc; a shared memory that does not exist is        *)
(* skipped.                                                                 *)
vm_init_ipc(v) ==
    /\ Unset(v)
    /\ cpu_masters' = [s \in DOMAIN cpu_masters |->
                          IF s = NextIpc(v).shmem_id THEN cpu_masters[s] \cup {master[v]}
                          ELSE cpu_masters[s]]
    /\ ipcat' = [ipcat EXCEPT ![v] = @ + 1]
    /\ UNCHANGED <<ipcs, master, mail, injected, rung>>

(* Mutant: the VM that rings is told as well.                               *)
RingEveryone(v, s) == cpu_masters[s]

(* Whom a ring of v on shared memory s goes to.                             *)
RingTargets(v, s) == cpu_masters[s] \ Cpus[v]

(* ipc_hypercall with the arguments ipc_id, from 0, and ipc_event.  With an *)
(* ipc_id out of range, or an object without shared memory, it returns      *)
(* -HC_E_INVAL_ARGS.  ready: the VMs that are set up.                       *)
ipc_hypercall(v, ipc_id, event, ready) ==
    /\ Len(rung) < RINGS
    /\ ipc_id < Len(ipcs[v])
    /\ LET s == ipcs[v][ipc_id + 1].shmem_id
           note == [shmem_id |-> s, event_id |-> event, ring |-> Len(rung) + 1]
       IN  /\ s < Shmems
           /\ mail' = [c \in Cpu |-> IF c \in RingTargets(v, s) THEN Append(mail[c], note)
                                     ELSE mail[c]]
           /\ rung' = Append(rung, [vm |-> v, shmem_id |-> s, event_id |-> event, ready |-> ready])
    /\ UNCHANGED <<ipcs, ipcat, master, cpu_masters, injected>>

(* ipc_find_by_shmemid: the first object of v with that shared memory.      *)
ipc_find_by_shmemid(v, s) == SelectInSeq(ipcs[v], LAMBDA o : o.shmem_id = s)

(* The interrupt v has for a message: none, or one in a sequence.           *)
NotifiedIrq(v, note) ==
    LET i == ipc_find_by_shmemid(v, note.shmem_id)
    IN  IF i # 0 /\ note.event_id < Len(ipcs[v][i].interrupts)
        THEN <<[irq |-> ipcs[v][i].interrupts[note.event_id + 1], ring |-> note.ring]>>
        ELSE <<>>

(* ipc_handler on the master of v.                                          *)
ipc_notify(v) ==
    /\ mail[master[v]] # <<>>
    /\ mail' = [mail EXCEPT ![master[v]] = Tail(@)]
    /\ injected' = [injected EXCEPT ![v] = @ \o NotifiedIrq(v, Head(mail[master[v]]))]
    /\ UNCHANGED <<ipcs, ipcat, master, cpu_masters, rung>>

----------------------------------------------------------------------------
(* The interrupts VM v has configured for a ring on memory it shares, of    *)
(* another VM.                                                              *)
Due(v, r) ==
    {o.interrupts[r.event_id + 1] :
        o \in {o \in ToSet(ipcs[v]) : /\ r.vm # v /\ r.shmem_id = o.shmem_id
                                      /\ r.event_id < Len(o.interrupts)}}

(* The rings VM v was told of: those it had an interrupt for, and those in  *)
(* the queue of its master.                                                 *)
Told(v) == [k \in DOMAIN injected[v] |-> injected[v][k].ring]
           \o [k \in DOMAIN mail[master[v]] |-> mail[master[v]][k].ring]

(* A VM gets, once each and in order, the interrupts of its own             *)
(* configuration for the rings of the others on memory it shares with them, *)
(* and no others; it misses at most rings from before it was set up.        *)
RingsReachPeers ==
    \A v \in VM :
        /\ \A j, k \in DOMAIN Told(v) : j < k => Told(v)[j] < Told(v)[k]
        /\ \A k \in DOMAIN injected[v] :
              injected[v][k].irq \in Due(v, rung[injected[v][k].ring])
        /\ \A n \in DOMAIN rung : v \in rung[n].ready =>
              \A i \in Due(v, rung[n]) :
                  \/ [irq |-> i, ring |-> n] \in ToSet(injected[v])
                  \/ \E k \in DOMAIN mail[master[v]] :
                        NotifiedIrq(v, mail[master[v]][k]) = <<[irq |-> i, ring |-> n]>>

=============================================================================
