----------------------------- MODULE RemIOBoot -----------------------------
(***************************************************************************)
(* How the Remote I/O devices come up (core/remio.c): remio_init links the  *)
(* frontends and backends the VMs configure, on the platform's master CPU;  *)
(* later the master CPU of each VM runs remio_assign_vm_cpus, with nothing  *)
(* that keeps two of them apart.  Every write and every evaluation of the   *)
(* flags there is a step.                                                   *)
(*                                                                          *)
(* The device pool has as many slots as the configuration has backends      *)
(* (CONFIG_REMIO_DEV_NUM), and one if it has none.  ERROR stops the CPU.    *)
(***************************************************************************)
EXTENDS Integers, Sequences, FiniteSets

CONSTANTS
    VM,        \* the VMs, numbered from 0
    Key,       \* bind keys
    Shmem,     \* shared memory regions: base, size and identifier as one
    NoShmem,   \* the zeroed region
    Configs,   \* configurations: the remio_devs of each VM
    Cpus       \* Cpus[v]: the CPUs of VM v

Side == {"backend", "frontend"}

Entry == [bind_key : Key, type : Side, shmem : Shmem]

Other(side) == IF side = "backend" THEN "frontend" ELSE "backend"

(* (cpuid_t)-1, larger than any CPU.                                        *)
NoCpu == 1 + CHOOSE m \in UNION {Cpus[v] : v \in VM} :
                \A c \in UNION {Cpus[v] : v \in VM} : c <= m

NoVm == -1

VARIABLES
    vmlist,    \* vmlist[v]: config.vmlist[v].platform.remio_devs
    master,    \* master[v]: the CPU that became v's master
    todo,      \* the places of the entries remio_init has yet to link
    device,    \* remio_device_list, in the order of creation
    phase,     \* of the platform's master: "link", "run" or "error"
    pc,        \* pc[v]: where the master of v is
    at,        \* at[v]: the device its loop is at
    flag       \* flag[v]: the value it is about to store in dev->ready

vars == <<vmlist, master, todo, device, phase, pc, at, flag>>

(* The entries of the configuration, by VM and position.                    *)
Places == UNION {{v} \X (1 .. Len(vmlist[v])) : v \in VM}

EntryAt(p) == vmlist[p[1]][p[2]]

Halves(side) == {p \in Places : EntryAt(p).type = side}

(* Mutant: the pool has room for every entry of the configuration.          *)
PoolOfEntries == Cardinality(Places) + 1

(* The size of remio_device_pool: CONFIG_REMIO_DEV_NUM, which               *)
(* scripts/config_defs_gen.c computes, and one if that is zero.             *)
PoolSize == IF Halves("backend") = {} THEN 1 ELSE Cardinality(Halves("backend"))

(* The order of the two loops of remio_init: VM by VM, and in each entry by *)
(* entry.                                                                   *)
Before(p, q) == p[1] < q[1] \/ (p[1] = q[1] /\ p[2] < q[2])

Init ==
    /\ vmlist \in Configs
    /\ master \in {m \in [VM -> UNION {Cpus[v] : v \in VM}] : \A v \in VM : m[v] \in Cpus[v]}
    /\ todo = Places
    /\ device = <<>>
    /\ phase = "link"
    /\ pc = [v \in VM |-> "mark"]
    /\ at = [v \in VM |-> 1]
    /\ flag = [v \in VM |-> FALSE]

Stop == phase' = "error" /\ UNCHANGED <<todo, device>>

NoHalf == [bound |-> FALSE, shmem |-> NoShmem, vm |-> NoVm, cpu_id |-> NoCpu, ready |-> FALSE]

(* The devices a new entry finds taken on its own side, and the ones that   *)
(* wait for its side.                                                       *)
Taken(e) == {k \in 1 .. Len(device) : device[k].bind_key = e.bind_key /\ device[k][e.type].bound}

Waiting(e) == {k \in 1 .. Len(device) :
                   device[k].bind_key = e.bind_key /\ device[k][Other(e.type)].bound}

Half(v, e) == [NoHalf EXCEPT !.bound = TRUE, !.shmem = e.shmem, !.vm = v]

NewDevice(v, e) ==
    [[bind_key |-> e.bind_key, ready |-> FALSE, backend |-> NoHalf, frontend |-> NoHalf]
        EXCEPT ![e.type] = Half(v, e)]

(* An entry for which there is no device yet gets one from the pool.        *)
Add(p) ==
    IF Len(device) = PoolSize THEN Stop
    ELSE /\ device' = Append(device, NewDevice(p[1], EntryAt(p)))
         /\ todo' = todo \ {p}
         /\ UNCHANGED phase

(* One entry of the first loop of remio_init: an error if its side of the   *)
(* device is taken, or it joins the device that waits for it, or a new one. *)
Link ==
    \E p \in todo :
        LET e == EntryAt(p)
        IN  /\ phase = "link"
            /\ \A q \in todo : ~Before(q, p)
            /\ \/ Taken(e) # {} /\ Stop
               \/ /\ Taken(e) = {}
                  /\ \E k \in Waiting(e) :
                         /\ device' = [device EXCEPT ![k][e.type] = Half(p[1], e)]
                         /\ todo' = todo \ {p}
                         /\ UNCHANGED phase
               \/ Taken(e) = {} /\ Waiting(e) = {} /\ Add(p)
            /\ UNCHANGED <<vmlist, master, pc, at, flag>>

(* The two checks that follow.                                              *)
Check ==
    /\ phase = "link"
    /\ todo = {}
    /\ phase' = IF /\ Cardinality(Halves("frontend")) = Cardinality(Halves("backend"))
                   /\ \A k \in 1 .. Len(device) :
                          device[k].backend.shmem = device[k].frontend.shmem
                THEN "run" ELSE "error"
    /\ UNCHANGED <<vmlist, master, todo, device, pc, at, flag>>

----------------------------------------------------------------------------
(* remio_assign_vm_cpus, one loop turn in three steps.  A VM without        *)
(* Remote I/O devices does not get there (vm_init_remio).                   *)
InLoop(v) ==
    /\ phase = "run"
    /\ vmlist[v] # <<>>
    /\ at[v] <= Len(device)

Assign(half, c) == [half EXCEPT !.cpu_id = IF c < @ THEN c ELSE @, !.ready = TRUE]

(* The VM's half of the device, the backend first: CPU and flag.            *)
Mark(v) ==
    LET k == at[v]
        c == master[v]
    IN  /\ InLoop(v)
        /\ pc[v] = "mark"
        /\ device' = CASE device[k].backend.vm = v ->
                              [device EXCEPT ![k].backend = Assign(@, c)]
                       [] device[k].backend.vm # v /\ device[k].frontend.vm = v ->
                              [device EXCEPT ![k].frontend = Assign(@, c)]
                       [] OTHER -> device
        /\ pc' = [pc EXCEPT ![v] = "load"]
        /\ UNCHANGED <<vmlist, master, todo, phase, at, flag>>

Load(v) ==
    /\ InLoop(v)
    /\ pc[v] = "load"
    /\ flag' = [flag EXCEPT ![v] = device[at[v]].backend.ready /\ device[at[v]].frontend.ready]
    /\ pc' = [pc EXCEPT ![v] = "store"]
    /\ UNCHANGED <<vmlist, master, todo, device, phase, at>>

Store(v) ==
    /\ InLoop(v)
    /\ pc[v] = "store"
    /\ device' = [device EXCEPT ![at[v]].ready = flag[v]]
    /\ at' = [at EXCEPT ![v] = @ + 1]
    /\ pc' = [pc EXCEPT ![v] = IF at[v] = Len(device) THEN "done" ELSE "mark"]
    /\ UNCHANGED <<vmlist, master, todo, phase, flag>>

Next == Link \/ Check \/ \E v \in VM : Mark(v) \/ Load(v) \/ Store(v)

Spec == Init /\ [][Next]_vars

----------------------------------------------------------------------------
(* A configuration that remio_init accepts pairs every frontend with one    *)
(* backend of the same key and of the same shared memory.  The code only    *)
(* compares the totals: that no device lacks a half rests on the size of    *)
(* the pool, which is computed elsewhere.                                   *)
AcceptedMeansPaired ==
    phase = "run" =>
        \A p \in Places :
            LET e == EntryAt(p)
                partners == {q \in Halves(Other(e.type)) : EntryAt(q).bind_key = e.bind_key}
            IN  Cardinality(partners) = 1 /\ \A q \in partners : EntryAt(q).shmem = e.shmem

(* A frontend that finds a device ready may send to its backend: both       *)
(* halves have the CPU that interrupts are sent to.                         *)
ReadyMeansAssigned ==
    \A k \in 1 .. Len(device) :
        device[k].ready => \A side \in Side : device[k][side].cpu_id \in Cpus[device[k][side].vm]

Finished == phase = "run" /\ \A v \in VM : vmlist[v] # <<>> => pc[v] = "done"

(* The ready flag of a device (remio.c: "Remote I/O device ready flag")     *)
(* says that both halves are: once every VM has run remio_assign_vm_cpus,   *)
(* a device with a backend and a frontend VM is ready.                      *)
ReadyWhenBothAre ==
    Finished => \A k \in 1 .. Len(device) :
        device[k].backend.ready /\ device[k].frontend.ready => device[k].ready

=============================================================================
