---------------------------- MODULE VmSetupProofs ----------------------------
(****************************************************************************)
(* The set-up of the VMs for any number of VMs, CPUs, lines, devices and    *)
(* shared memories and any configuration. Seven promises, each with an      *)
(* inductive invariant of its own, since no two of the parts behind them    *)
(* share state.                                                             *)
(*                                                                          *)
(* Interrupt lines: ExclusiveLine is not inductive, for the code tests a    *)
(* bitmap and not the owners; LinesInv adds that the bitmap covers them.    *)
(* Remote I/O: that the counts remio_init compares show a pairing needs to  *)
(* know that devices have different keys and that entries and halves match  *)
(* (LinkInv); that a ready device has its CPUs needs to know what a master  *)
(* that has read the flags still holds (ReadyInv). RISC-V IOMMU: DdtInv     *)
(* ties the entries of the directory to the bitmap and to the loop of each  *)
(* VM, FqInv the fault queue to the steps of its handler. SMMU: SmmuInv     *)
(* ties the stream match entries to the requests: a bound entry is one of a *)
(* request of the VM it names, every request done is covered by one, those  *)
(* of a VM do not meet, and one given up is the next to be allocated.       *)
(* Inter-VM communication: IpcInv says that masters have signed up for what *)
(* they are done with and that the messages under way are those of the      *)
(* rings, in their order.                                                   *)
(* Traps: the outcome is a function of the instruction, and the tables of   *)
(* the decoders are compared with its meaning row by row (TrapInv).         *)
(****************************************************************************)
EXTENDS VmSetup, FiniteSetTheorems, FunctionTheorems, SequenceTheorems, WellFoundedInduction,
        TLAPS

(* rv_iommu_fq_irq_handler step by step: while it is between two steps with *)
(* records or an overflow still to look at, the pending bit is or will be   *)
(* seen.                                                                    *)
FqInv ==
    /\ fqpc \in {"idle", "clear", "ack", "read", "report"}
    /\ fqpc = "idle" => fip \/ (fqh = fqt /\ ~fqof)
    /\ fqpc \in {"clear", "ack"} => fip
    /\ fqpc = "read" => fip \/ ~fqof
    /\ fqpc = "report" => fip \/ (fqt = fqseen /\ ~fqof)

(* rv_iommu_init leaves the fault queue empty and nothing pending.          *)
LEMMA InitFq == SetupInit => FqInv
  BY DEF SetupInit, Io!InitUnit, Io!rv_iommu_init, FqInv

(* Every step keeps it; only the faults and the handler touch the queue.    *)
LEMMA NextFq == FqInv /\ [SetupNext]_<<vars, remio, master, io, ipc, served, guest>> => FqInv'
<1> SUFFICES ASSUME FqInv, [SetupNext]_<<vars, remio, master, io, ipc, served, guest>>
             PROVE  FqInv'
  OBVIOUS
<1> DEFINE Same == UNCHANGED <<fqh, fqt, fqof, fip, fqpc, fqseen>>
<1>1. Same => FqInv'
  BY DEF FqInv
<1>2. ASSUME UNCHANGED io PROVE Same
  BY <1>2 DEF io
<1>3. CASE IoFaults
  <2>1. CASE Io!DeviceFault
    BY <2>1 DEF Io!DeviceFault, FqInv
  <2>2. CASE Io!FqErrors
    BY <2>2 DEF Io!FqErrors, FqInv
  <2>3. CASE Io!FqClearErrors
    BY <2>3 DEF Io!FqClearErrors, FqInv
  <2>4. CASE Io!FqAcknowledge
    BY <2>4 DEF Io!FqAcknowledge, FqInv
  <2>5. CASE Io!FqRead
    BY <2>5 DEF Io!FqRead, FqInv
  <2>6. CASE Io!FqReport
    BY <2>6 DEF Io!FqReport, FqInv
  <2> QED
    BY <1>3, <2>1, <2>2, <2>3, <2>4, <2>5, <2>6 DEF IoFaults, Io!rv_iommu_fq_irq_handler
<1>4. ASSUME NEW v \in VM, vm_init_dev(v) PROVE Same
  BY <1>4 DEF vm_init_dev, Io!io_vm_add, Io!queue
<1>5. ASSUME NEW v \in VM,
             vm_assign_line(v) \/ vm_init_ipc(v) \/ vm_init_remio(v) \/ Rings(v) \/ GuestTraps(v)
                \/ \E id \in Line : Fires(v, id)
      PROVE  UNCHANGED io
  BY <1>5 DEF vm_assign_line, vm_init_ipc, vm_init_remio, Rings, GuestTraps, Fires
<1>6. ASSUME remio_init PROVE UNCHANGED io
  BY <1>6 DEF remio_init
<1> QED
  BY <1>1, <1>2, <1>3, <1>4, <1>5, <1>6 DEF SetupNext

(* When rv_iommu_fq_irq_handler has returned and the interrupt is not       *)
(* pending, no fault record waits in the queue and no overflow is left      *)
(* unreported: the handler clears the pending bit before it reads the       *)
(* queue.                                                                   *)
THEOREM FaultsAreReported == SetupSpec => []FaultsReported
<1>1. FqInv => FaultsReported
  BY DEF FqInv, FaultsReported, Io!FaultsReported
<1> QED
  BY InitFq, NextFq, <1>1, PTL DEF SetupSpec

----------------------------------------------------------------------------
(* What remio_init makes of half a device, and of a device.                 *)
HalfRec ==
    [bound : BOOLEAN, shmem : Shmem \cup {NoShmem}, vm : VM \cup {Remio!NoVm},
     cpu_id : {Remio!NoCpu}, ready : {FALSE}]

DevRec == [bind_key : Key, ready : {FALSE}, backend : HalfRec, frontend : HalfRec]

(* The places of the pool that are in use.                                  *)
Indices == 1 .. Len(device)

(* Device d has entry e as the half of its type.                            *)
Joined(d, e) ==
    d.bind_key = e.bind_key /\ d[e.type].bound /\ d[e.type].shmem = e.shmem

(* What linking an entry makes of the devices: device d gets another half.  *)
WithHalf(d, dd, v, e) ==
    /\ dd \in DevRec
    /\ dd.bind_key = e.bind_key
    /\ dd[e.type] = Remio!Half(v, e)
    /\ dd[Remio!Other(e.type)] = d[Remio!Other(e.type)]

(* The halves remio_init writes are well formed.                            *)
LEMMA HalfType ==
    ASSUME NEW v \in VM, NEW e \in Remio!Entry
    PROVE  /\ Remio!NoHalf \in HalfRec /\ ~Remio!NoHalf.bound
           /\ Remio!Half(v, e) \in HalfRec
           /\ Remio!Half(v, e).bound /\ Remio!Half(v, e).shmem = e.shmem
  BY DEF HalfRec, Remio!NoHalf, Remio!Half, Remio!Entry

(* remio_init when the other half came first: one half of one device        *)
(* changes.                                                                 *)
LEMMA JoinShape ==
    ASSUME NEW d \in DevRec, NEW v \in VM, NEW e \in Remio!Entry, d.bind_key = e.bind_key
    PROVE  WithHalf(d, [d EXCEPT ![e.type] = Remio!Half(v, e)], v, e)
<1> DEFINE h == Remio!Half(v, e)
<1>1. h \in HalfRec
  BY HalfType
<1> HIDE DEF h
<1>2. CASE e.type = "backend"
  BY <1>1, <1>2 DEF WithHalf, DevRec, Remio!Other, h
<1>3. CASE e.type = "frontend"
  BY <1>1, <1>3 DEF WithHalf, DevRec, Remio!Other, h
<1> QED
  BY <1>2, <1>3 DEF Remio!Entry, Remio!Side

(* remio_init when it takes a new device from the pool.                     *)
LEMMA AddShape ==
    ASSUME NEW v \in VM, NEW e \in Remio!Entry
    PROVE  /\ Remio!NewDevice(v, e) \in DevRec
           /\ Remio!NewDevice(v, e).bind_key = e.bind_key
           /\ Remio!NewDevice(v, e)[e.type] = Remio!Half(v, e)
           /\ Remio!NewDevice(v, e)[Remio!Other(e.type)] = Remio!NoHalf
<1> DEFINE h == Remio!Half(v, e)
           n == Remio!NoHalf
<1>1. h \in HalfRec /\ n \in HalfRec
  BY HalfType
<1> HIDE DEF h, n
<1>2. CASE e.type = "backend"
  BY <1>1, <1>2 DEF Remio!NewDevice, DevRec, Remio!Other, h, n, Remio!Entry
<1>3. CASE e.type = "frontend"
  BY <1>1, <1>3 DEF Remio!NewDevice, DevRec, Remio!Other, h, n, Remio!Entry
<1> QED
  BY <1>2, <1>3 DEF Remio!Entry, Remio!Side

(* The entries remio_init is done with.                                     *)
Linked == Remio!Places \ todo

(* No two devices of the pool have the same key.                            *)
KeysDiffer == \A i, j \in Indices : device[i].bind_key = device[j].bind_key => i = j

(* A device is taken from the pool only for an entry.                       *)
Somebody == \A k \in Indices : \E side \in Remio!Side : device[k][side].bound

(* Every entry that is done with is a half of a device.                     *)
LinkedHave == \A p \in Linked : \E k \in Indices : Joined(device[k], Remio!EntryAt(p))

(* A half that is there came from an entry.                                 *)
BoundCome ==
    \A k \in Indices : \A side \in Remio!Side : device[k][side].bound =>
        \E p \in Linked : Remio!EntryAt(p).type = side /\ Joined(device[k], Remio!EntryAt(p))

(* No two entries that are done with have the same type and key.            *)
OneEach ==
    \A p, q \in Linked :
        /\ Remio!EntryAt(p).type = Remio!EntryAt(q).type
        /\ Remio!EntryAt(p).bind_key = Remio!EntryAt(q).bind_key
        => p = q

(* What holds between two rounds of the loops of remio_init.                *)
LinkInv ==
    /\ device \in Seq(DevRec)
    /\ todo \subseteq Remio!Places
    /\ IsFiniteSet(Linked)
    /\ Remio!PoolSize \notin 0 .. Len(device) - 1
    /\ KeysDiffer /\ Somebody /\ LinkedHave /\ BoundCome /\ OneEach

(* The inductive invariant behind AcceptedMeansPaired: LinkInv while the    *)
(* entries are linked, and the promise itself from the checks on.           *)
PairInv ==
    /\ vmlist \in [VM -> Seq(Remio!Entry)]
    /\ phase \in {"link", "run", "error"}
    /\ phase = "link" => LinkInv
    /\ AcceptedMeansPaired

(* Places name entries of the configuration.                                *)
LEMMA PlaceType ==
    ASSUME vmlist \in [VM -> Seq(Remio!Entry)], NEW p \in Remio!Places
    PROVE  p[1] \in VM /\ Remio!EntryAt(p) \in Remio!Entry
  BY DEF Remio!Places, Remio!EntryAt

(* One entry linked: device k is the one it joins or the new one.           *)
Links(p, k) ==
    LET e == Remio!EntryAt(p)
    IN  /\ todo' = todo \ {p}
        /\ device' \in Seq(DevRec)
        /\ k \in 1 .. Len(device')
        /\ Remio!Taken(e) = {}
        /\ \A i \in Indices \ {k} : i \in 1 .. Len(device') /\ device'[i] = device[i]
        /\ \A i \in (1 .. Len(device')) \ {k} : i \in Indices
        /\ device'[k].bind_key = e.bind_key
        /\ device'[k][e.type] = Remio!Half(p[1], e)
        /\ \/ /\ k \in Indices /\ device[k].bind_key = e.bind_key
              /\ Len(device') = Len(device)
              /\ device'[k][Remio!Other(e.type)] = device[k][Remio!Other(e.type)]
           \/ /\ k = Len(device) + 1 /\ Len(device') = k
              /\ Remio!Waiting(e) = {}
              /\ Remio!PoolSize # Len(device)
              /\ device'[k][Remio!Other(e.type)] = Remio!NoHalf

(* A round of the loops that does not fail links its entry.                 *)
LEMMA LinkShape ==
    ASSUME vmlist \in [VM -> Seq(Remio!Entry)], LinkInv, Remio!Link, phase' = "link"
    PROVE  \E p \in todo : \E k \in Nat : Links(p, k)
<1> PICK p \in todo :
        LET e == Remio!EntryAt(p)
        IN  \/ Remio!Taken(e) # {} /\ Remio!Stop
            \/ /\ Remio!Taken(e) = {}
               /\ \E k \in Remio!Waiting(e) :
                      /\ device' = [device EXCEPT ![k][e.type] = Remio!Half(p[1], e)]
                      /\ todo' = todo \ {p}
                      /\ UNCHANGED phase
            \/ Remio!Taken(e) = {} /\ Remio!Waiting(e) = {} /\ Remio!Add(p)
  BY DEF Remio!Link
<1> DEFINE e == Remio!EntryAt(p)
<1>1. p[1] \in VM /\ e \in Remio!Entry
  BY PlaceType DEF LinkInv
<1>2. device \in Seq(DevRec)
  BY DEF LinkInv
<1> HIDE DEF e
<1>3. CASE Remio!Taken(e) # {} /\ Remio!Stop
  BY <1>3 DEF Remio!Stop
<1>4. CASE /\ Remio!Taken(e) = {}
           /\ \E k \in Remio!Waiting(e) :
                  /\ device' = [device EXCEPT ![k][e.type] = Remio!Half(p[1], e)]
                  /\ todo' = todo \ {p}
  <2> PICK k \in Remio!Waiting(e) :
          /\ device' = [device EXCEPT ![k][e.type] = Remio!Half(p[1], e)]
          /\ todo' = todo \ {p}
    BY <1>4
  <2>1. k \in Indices /\ device[k].bind_key = e.bind_key /\ device[k] \in DevRec /\ k \in Nat
    BY <1>2 DEF Remio!Waiting, Indices
  <2> DEFINE d == [device[k] EXCEPT ![e.type] = Remio!Half(p[1], e)]
  <2>2. WithHalf(device[k], d, p[1], e)
    BY <1>1, <2>1, JoinShape
  <2>3. device' = [device EXCEPT ![k] = d]
    OBVIOUS
  <2>4. d \in DevRec
    BY <2>2 DEF WithHalf
  <2> HIDE DEF d
  <2>5. device' \in Seq(DevRec) /\ Len(device') = Len(device) /\ device'[k] = d
        /\ \A i \in Indices \ {k} : device'[i] = device[i]
    <3> DEFINE t == [device EXCEPT ![k] = d]
    <3>1. k \in 1 .. Len(device)
      BY <2>1 DEF Indices
    <3>2. /\ t \in Seq(DevRec) /\ Len(t) = Len(device)
          /\ \A i \in 1 .. Len(device) : t[i] = IF i = k THEN d ELSE device[i]
      BY <1>2, <2>4, <3>1, ExceptSeq
    <3> HIDE DEF t
    <3> QED
      BY <2>3, <3>1, <3>2 DEF Indices, t
  <2>6. Links(p, k)
    BY <1>4, <2>1, <2>2, <2>5 DEF Links, WithHalf, Indices, e
  <2> QED
    BY <2>1, <2>6
<1>5. CASE Remio!Taken(e) = {} /\ Remio!Waiting(e) = {} /\ Remio!Add(p)
  <2> DEFINE k == Len(device) + 1
             d == Remio!NewDevice(p[1], e)
  <2>1. device' = Append(device, d) /\ todo' = todo \ {p} /\ Len(device) # Remio!PoolSize
    BY <1>5 DEF Remio!Add, Remio!Stop, e
  <2>2. /\ d \in DevRec /\ d.bind_key = e.bind_key
        /\ d[e.type] = Remio!Half(p[1], e) /\ d[Remio!Other(e.type)] = Remio!NoHalf
    BY <1>1, AddShape
  <2> HIDE DEF d
  <2>3. device' \in Seq(DevRec) /\ Len(device') = k /\ device'[k] = d
        /\ \A i \in Indices : device'[i] = device[i]
    BY <1>2, <2>1, <2>2 DEF Indices
  <2>4. k \in Nat
    BY <1>2
  <2>5. Links(p, k)
    BY <1>2, <1>5, <2>1, <2>2, <2>3 DEF Links, Indices, e
  <2> QED
    BY <2>4, <2>5
<1> QED
  BY <1>3, <1>4, <1>5 DEF e

(* ... and linking keeps LinkInv.                                           *)
LEMMA LinkKeeps ==
    ASSUME vmlist \in [VM -> Seq(Remio!Entry)], UNCHANGED vmlist,
           LinkInv, Remio!Link, phase' = "link"
    PROVE  LinkInv'
<1> PICK p \in todo : \E k \in Nat : Links(p, k)
  BY LinkShape
<1> PICK k \in Nat : Links(p, k)
  OBVIOUS
<1> DEFINE e == Remio!EntryAt(p)
           o == Remio!Other(e.type)
<1>1. /\ p \in Remio!Places /\ p \notin Linked /\ p[1] \in VM /\ e \in Remio!Entry
      /\ e.type \in Remio!Side /\ o \in Remio!Side /\ \A side \in Remio!Side : side \in {e.type, o}
  BY PlaceType DEF LinkInv, Linked, Remio!Entry, Remio!Side, Remio!Other
<1>2. /\ Remio!Places' = Remio!Places
      /\ \A q : Remio!EntryAt(q)' = Remio!EntryAt(q)
      /\ Remio!PoolSize' = Remio!PoolSize
  BY DEF Remio!Places, Remio!EntryAt, Remio!PoolSize, Remio!Halves
<1>3. Linked' = Linked \cup {p}
  BY <1>1, <1>2 DEF Linked, Links, LinkInv
<1>4. /\ Remio!Half(p[1], e).bound /\ Remio!Half(p[1], e).shmem = e.shmem /\ ~Remio!NoHalf.bound
  BY <1>1, HalfType
<1>5. Indices' = 1 .. Len(device') /\ Indices' = Indices \cup {k} /\ k \in Indices'
      /\ Len(device) \in Nat /\ Len(device') \in Nat
  BY DEF Links, Indices, LinkInv
<1>6. \A i \in Indices \ {k} : device'[i] = device[i]
  BY DEF Links
<1>7. /\ device'[k].bind_key = e.bind_key
      /\ device'[k][e.type].bound /\ device'[k][e.type].shmem = e.shmem
  BY <1>4 DEF Links
<1>8. \/ /\ k \in Indices /\ device[k].bind_key = e.bind_key
         /\ device'[k][o] = device[k][o]
      \/ /\ k \notin Indices /\ Remio!Waiting(e) = {} /\ ~device'[k][o].bound
  BY <1>4 DEF Links, Indices
<1>9. \A i \in Indices : device[i].bind_key = e.bind_key => ~device[i][e.type].bound
  BY DEF Links, Remio!Taken, Indices
<1>10. \A i \in Indices : k \notin Indices => device[i].bind_key # e.bind_key
  <2> SUFFICES ASSUME NEW i \in Indices, k \notin Indices, device[i].bind_key = e.bind_key
               PROVE  FALSE
    OBVIOUS
  <2>1. ~device[i][o].bound
    BY <1>8 DEF Remio!Waiting, Indices
  <2> QED
    BY <1>1, <1>9, <2>1 DEF LinkInv, Somebody
<1>11. \A q \in Linked : Remio!EntryAt(q).type \in Remio!Side
  BY PlaceType DEF Linked, Remio!Entry
<1>12. (device \in Seq(DevRec) /\ todo \subseteq Remio!Places)'
  BY <1>2 DEF Links, LinkInv
<1>13. IsFiniteSet(Linked)'
  BY <1>3, FS_AddElement DEF LinkInv
<1>14. (Remio!PoolSize \notin 0 .. Len(device) - 1)'
  BY <1>2, <1>5 DEF Links, LinkInv
<1> HIDE DEF e, o
<1>15. KeysDiffer'
  <2> SUFFICES ASSUME NEW i \in Indices', NEW j \in Indices',
                      device'[i].bind_key = device'[j].bind_key
               PROVE  i = j
    BY DEF KeysDiffer
  <2> QED
    BY <1>5, <1>6, <1>7, <1>8, <1>10 DEF LinkInv, KeysDiffer
<1>16. Somebody'
  BY <1>1, <1>5, <1>6, <1>7 DEF LinkInv, Somebody
<1>17. LinkedHave'
  <2> SUFFICES ASSUME NEW q \in Linked'
               PROVE  \E i \in Indices' : Joined(device'[i], Remio!EntryAt(q))
    BY <1>2 DEF LinkedHave
  <2>1. CASE q = p
    BY <1>5, <1>7, <2>1 DEF Joined, e
  <2>2. CASE q \in Linked
    <3>1. PICK i \in Indices : Joined(device[i], Remio!EntryAt(q))
      BY <2>2 DEF LinkInv, LinkedHave
    <3>2. CASE i # k
      BY <1>5, <1>6, <3>1, <3>2
    <3>3. CASE i = k
      <4>1. device[k].bind_key = e.bind_key /\ device'[k][o] = device[k][o]
        BY <1>8, <3>3
      <4>2. Remio!EntryAt(q).type # e.type
        BY <1>9, <3>1, <3>3, <4>1 DEF Joined
      <4>3. Remio!EntryAt(q).type = o
        BY <1>1, <1>11, <2>2, <4>2
      <4> QED
        BY <1>5, <1>7, <3>1, <3>3, <4>1, <4>3 DEF Joined
    <3> QED
      BY <3>2, <3>3
  <2> QED
    BY <1>3, <2>1, <2>2
<1>18. BoundCome'
  <2> SUFFICES ASSUME NEW i \in Indices', NEW side \in Remio!Side, device'[i][side].bound
               PROVE  \E q \in Linked' : /\ Remio!EntryAt(q).type = side
                                          /\ Joined(device'[i], Remio!EntryAt(q))
    BY <1>2 DEF BoundCome
  <2>1. CASE i # k
    BY <1>3, <1>5, <1>6, <2>1 DEF LinkInv, BoundCome
  <2>2. CASE i = k /\ side = e.type
    BY <1>3, <1>7, <2>2 DEF Joined, e
  <2>3. CASE i = k /\ side = o
    <3>1. k \in Indices /\ device[k].bind_key = e.bind_key /\ device'[k][o] = device[k][o]
      BY <1>8, <2>3
    <3>2. PICK q \in Linked : Remio!EntryAt(q).type = o /\ Joined(device[k], Remio!EntryAt(q))
      BY <1>1, <2>3, <3>1 DEF LinkInv, BoundCome
    <3>3. Joined(device'[k], Remio!EntryAt(q))
      BY <1>7, <3>1, <3>2 DEF Joined
    <3> QED
      BY <1>3, <2>3, <3>2, <3>3
  <2> QED
    BY <1>1, <2>1, <2>2, <2>3
<1>19. OneEach'
  <2>1. ASSUME NEW q \in Linked, Remio!EntryAt(q).type = e.type,
               Remio!EntryAt(q).bind_key = e.bind_key
        PROVE  FALSE
    <3>1. PICK i \in Indices : Joined(device[i], Remio!EntryAt(q))
      BY DEF LinkInv, LinkedHave
    <3> QED
      BY <1>9, <2>1, <3>1 DEF Joined
  <2> QED
    BY <1>2, <1>3, <2>1 DEF LinkInv, OneEach, e
<1> QED
  BY <1>12, <1>13, <1>14, <1>15, <1>16, <1>17, <1>18, <1>19 DEF LinkInv

(* Cardinality inside the instance is the Cardinality of the library.       *)
LEMMA SameCardinality == \A S : Remio!Cardinality(S) = Cardinality(S)
  BY DEF Remio!Cardinality, Cardinality

(* As many entries of a type as devices, and no two of one key: every       *)
(* device has its half of that type.                                        *)
LEMMA SideFull ==
    ASSUME LinkInv, todo = {}, NEW side \in Remio!Side,
           Len(device) <= Cardinality(Remio!Halves(side))
    PROVE  \A k \in Indices : device[k][side].bound
<1> DEFINE H == Remio!Halves(side)
           g == [p \in H |-> CHOOSE k \in Indices : Joined(device[k], Remio!EntryAt(p))]
<1>1. Linked = Remio!Places /\ IsFiniteSet(Remio!Places)
  BY DEF Linked, LinkInv
<1>2. H \subseteq Linked /\ \A p \in H : Remio!EntryAt(p).type = side
  BY <1>1 DEF Remio!Halves
<1>3. IsFiniteSet(H) /\ Cardinality(H) \in Nat
  BY <1>1, <1>2, FS_Subset, FS_CardinalityType
<1>4. Len(device) \in Nat /\ IsFiniteSet(Indices) /\ Cardinality(Indices) = Len(device)
  <2>1. Len(device) \in Nat
    BY DEF LinkInv
  <2>2. IsFiniteSet(1 .. Len(device)) /\ Cardinality(1 .. Len(device)) = Len(device)
    <3> DEFINE n == Len(device)
    <3> HIDE DEF n
    <3>1. n \in Int /\ n >= 0 /\ 1 \in Int
      BY <2>1 DEF n
    <3>2. IsFiniteSet(1 .. n) /\ Cardinality(1 .. n) = IF 1 > n THEN 0 ELSE n - 1 + 1
      BY <3>1, FS_Interval
    <3>3. (IF 1 > n THEN 0 ELSE n - 1 + 1) = n
      BY <3>1
    <3> QED
      BY <3>2, <3>3 DEF n
  <2> QED
    BY <2>1, <2>2 DEF Indices
<1>5. \A p \in H : \E k \in Indices : Joined(device[k], Remio!EntryAt(p))
  BY <1>2 DEF LinkInv, LinkedHave
<1>6. g \in [H -> Indices] /\ \A p \in H : Joined(device[g[p]], Remio!EntryAt(p))
  BY <1>5
<1> HIDE DEF g, H
<1>7. \A p, q \in H : g[p] = g[q] => p = q
  BY <1>2, <1>6 DEF LinkInv, OneEach, Joined
<1>8. g \in Injection(H, Indices)
  BY <1>6, <1>7, Fun_IsInj
<1>9. Cardinality(H) <= Cardinality(Indices)
      /\ (Cardinality(H) = Cardinality(Indices) => g \in Surjection(H, Indices))
  BY <1>4, <1>8, FS_Injection
<1>10. Cardinality(H) = Cardinality(Indices)
  BY <1>3, <1>4, <1>9 DEF H
<1>11. \A k \in Indices : \E p \in H : g[p] = k
  BY <1>9, <1>10, Fun_SurjectionProperties
<1> QED
  BY <1>2, <1>6, <1>11 DEF Joined

(* The two comparisons after the loops (frontends with backends and         *)
(* backends with devices) therefore show that the entries are paired.       *)
LEMMA CheckedPairs ==
    ASSUME vmlist \in [VM -> Seq(Remio!Entry)], LinkInv, Remio!Check, phase' = "run"
    PROVE  AcceptedMeansPaired'
<1>1. /\ todo = {}
      /\ Cardinality(Remio!Halves("frontend")) = Cardinality(Remio!Halves("backend"))
      /\ \A k \in Indices : device[k].backend.shmem = device[k].frontend.shmem
      /\ vmlist' = vmlist
  BY SameCardinality DEF Remio!Check, Indices
<1>2. Linked = Remio!Places /\ IsFiniteSet(Remio!Places)
  BY <1>1 DEF Linked, LinkInv
<1>3. \A side \in Remio!Side : Cardinality(Remio!Halves(side)) = Cardinality(Remio!Halves("backend"))
  BY <1>1 DEF Remio!Side
<1>4. Cardinality(Remio!Halves("backend")) \in Nat /\ IsFiniteSet(Remio!Halves("backend"))
      /\ IsFiniteSet(Remio!Halves("frontend"))
  <2>1. Remio!Halves("backend") \subseteq Remio!Places /\ Remio!Halves("frontend") \subseteq Remio!Places
    BY DEF Remio!Halves
  <2> QED
    BY <1>2, <2>1, FS_Subset, FS_CardinalityType
<1>5. \A p \in Remio!Places : Remio!EntryAt(p).type \in Remio!Side
  BY PlaceType DEF Remio!Entry
<1>6. ASSUME Remio!Halves("backend") = {} PROVE Remio!Places = {}
  <2>1. Remio!Halves("frontend") = {}
    BY <1>1, <1>4, <1>6, FS_EmptySet
  <2> QED
    BY <1>5, <1>6, <2>1 DEF Remio!Halves, Remio!Side
<1>7. ASSUME Remio!Places # {} PROVE Len(device) <= Cardinality(Remio!Halves("backend"))
  <2>1. Remio!PoolSize = Cardinality(Remio!Halves("backend"))
    BY <1>6, <1>7, SameCardinality DEF Remio!PoolSize
  <2>2. Len(device) \in Nat
    BY DEF LinkInv
  <2> QED
    BY <1>4, <2>1, <2>2 DEF LinkInv
<1>8. ASSUME NEW p \in Remio!Places
      PROVE  LET e == Remio!EntryAt(p)
                 partners == {q \in Remio!Halves(Remio!Other(e.type)) :
                                  Remio!EntryAt(q).bind_key = e.bind_key}
             IN  Cardinality(partners) = 1 /\ \A q \in partners : Remio!EntryAt(q).shmem = e.shmem
  <2> DEFINE e == Remio!EntryAt(p)
             o == Remio!Other(e.type)
             partners == {q \in Remio!Halves(o) : Remio!EntryAt(q).bind_key = e.bind_key}
  <2>1. e.type \in Remio!Side /\ o \in Remio!Side /\ {e.type, o} = {"backend", "frontend"}
    BY <1>5 DEF Remio!Side, Remio!Other
  <2>2. PICK k \in Indices : Joined(device[k], e)
    BY <1>2 DEF LinkInv, LinkedHave
  <2>3. device[k][o].bound
    BY <1>1, <1>3, <1>7, <2>1, SideFull
  <2>4. PICK q \in Remio!Places : Remio!EntryAt(q).type = o /\ Joined(device[k], Remio!EntryAt(q))
    BY <1>2, <2>1, <2>3 DEF LinkInv, BoundCome
  <2>5. Remio!EntryAt(q).bind_key = e.bind_key
    BY <2>2, <2>4 DEF Joined
  <2>6. Remio!EntryAt(q).shmem = e.shmem
    <3>1. device[k][e.type].shmem = e.shmem /\ device[k][o].shmem = Remio!EntryAt(q).shmem
      BY <2>2, <2>4 DEF Joined
    <3>2. CASE e.type = "backend" /\ o = "frontend"
      BY <1>1, <3>1, <3>2
    <3>3. CASE e.type = "frontend" /\ o = "backend"
      BY <1>1, <3>1, <3>3
    <3> QED
      BY <2>1, <3>2, <3>3
  <2>7. partners = {q}
    <3>1. q \in partners
      BY <2>4, <2>5 DEF Remio!Halves
    <3>2. \A r \in partners : r = q
      BY <1>2, <2>4, <2>5 DEF Remio!Halves, LinkInv, OneEach
    <3> QED
      BY <3>1, <3>2
  <2>8. Cardinality(partners) = 1
    BY <2>7, FS_Singleton
  <2> QED
    BY <2>6, <2>7, <2>8
<1> QED
  <2>1. \A p \in Remio!Places :
            LET e == Remio!EntryAt(p)
                partners == {q \in Remio!Halves(Remio!Other(e.type)) :
                                 Remio!EntryAt(q).bind_key = e.bind_key}
            IN  Remio!Cardinality(partners) = 1 /\ \A q \in partners : Remio!EntryAt(q).shmem = e.shmem
    BY <1>8, SameCardinality
  <2>2. Remio!Places' = Remio!Places /\ \A p : Remio!EntryAt(p)' = Remio!EntryAt(p)
    BY <1>1 DEF Remio!Places, Remio!EntryAt
  <2>3. \A o : Remio!Halves(o)' = Remio!Halves(o)
    BY <2>2 DEF Remio!Halves
  <2> QED
    BY <2>1, <2>2, <2>3, Zenon DEF AcceptedMeansPaired, Remio!AcceptedMeansPaired

(* Before remio_init nothing is linked.                                     *)
LEMMA InitPair == SetupInit => PairInv
<1> SUFFICES ASSUME SetupInit PROVE PairInv
  OBVIOUS
<1>1. vmlist \in [VM -> Seq(Remio!Entry)]
  BY SetupAssumption DEF SetupInit
<1>2. todo = Remio!Places /\ device = <<>> /\ phase = "link"
  BY DEF SetupInit, Remio!Init
<1>3. Linked = {} /\ Indices = {} /\ device \in Seq(DevRec) /\ Len(device) = 0
  BY <1>2 DEF Linked, Indices
<1>4. IsFiniteSet(Linked)
  BY <1>3, FS_EmptySet
<1>5. LinkInv
  BY <1>2, <1>3, <1>4 DEF LinkInv, KeysDiffer, Somebody, LinkedHave, BoundCome, OneEach
<1> QED
  BY <1>1, <1>2, <1>5 DEF PairInv, AcceptedMeansPaired, Remio!AcceptedMeansPaired

(* Only remio_init changes the pairs; the masters of the VMs change what a  *)
(* half is assigned to.                                                     *)
LEMMA NextPair == PairInv /\ [SetupNext]_<<vars, remio, master, io, ipc, served, guest>> => PairInv'
<1> SUFFICES ASSUME PairInv, [SetupNext]_<<vars, remio, master, io, ipc, served, guest>>
             PROVE  PairInv'
  OBVIOUS
<1>1. vmlist \in [VM -> Seq(Remio!Entry)] /\ phase \in {"link", "run", "error"}
  BY DEF PairInv
<1>2. ASSUME UNCHANGED <<vmlist, phase>>, phase = "link" => UNCHANGED <<todo, device>>
      PROVE  PairInv'
  <2>0. /\ Remio!Places' = Remio!Places
        /\ \A q : Remio!EntryAt(q)' = Remio!EntryAt(q)
        /\ \A side : Remio!Halves(side)' = Remio!Halves(side)
        /\ Remio!PoolSize' = Remio!PoolSize
    BY <1>2 DEF Remio!Places, Remio!EntryAt, Remio!Halves, Remio!PoolSize
  <2>1. AcceptedMeansPaired'
    BY <1>2, <2>0 DEF PairInv, AcceptedMeansPaired, Remio!AcceptedMeansPaired
  <2>2. ASSUME phase = "link" PROVE LinkInv'
    <3>1. LinkInv /\ UNCHANGED <<todo, device>>
      BY <1>2, <2>2 DEF PairInv
    <3>2. Linked' = Linked /\ Indices' = Indices
      BY <2>0, <3>1 DEF Linked, Indices
    <3>3. KeysDiffer' /\ Somebody'
      BY <3>1, <3>2 DEF LinkInv, KeysDiffer, Somebody
    <3>4. LinkedHave' /\ OneEach'
      BY <2>0, <3>1, <3>2 DEF LinkInv, LinkedHave, OneEach
    <3>5. BoundCome'
      BY <2>0, <3>1, <3>2 DEF LinkInv, BoundCome
    <3> QED
      BY <2>0, <3>1, <3>2, <3>3, <3>4, <3>5 DEF LinkInv
  <2> QED
    BY <1>1, <1>2, <2>1, <2>2 DEF PairInv
<1>3. ASSUME UNCHANGED remio PROVE PairInv'
  BY <1>2, <1>3 DEF remio
<1>4. CASE remio_init
  <2>1. CASE Remio!Link
    <3>1. phase = "link" /\ vmlist' = vmlist /\ phase' \in {"link", "error"}
      BY <2>1 DEF Remio!Link, Remio!Stop, Remio!Add
    <3>2. phase' = "link" => LinkInv'
      BY <1>1, <2>1, <3>1, LinkKeeps DEF PairInv
    <3> QED
      BY <1>1, <3>1, <3>2 DEF PairInv, AcceptedMeansPaired, Remio!AcceptedMeansPaired
  <2>2. CASE Remio!Check
    <3>1. phase = "link" /\ vmlist' = vmlist /\ phase' \in {"run", "error"}
      BY <2>2 DEF Remio!Check
    <3>2. phase' = "run" => AcceptedMeansPaired'
      BY <1>1, <2>2, <3>1, CheckedPairs DEF PairInv
    <3> QED
      BY <1>1, <3>1, <3>2 DEF PairInv, AcceptedMeansPaired, Remio!AcceptedMeansPaired
  <2> QED
    BY <1>4, <2>1, <2>2 DEF remio_init
<1>5. ASSUME NEW v \in VM, vm_init_remio(v) PROVE PairInv'
  BY <1>2, <1>5 DEF vm_init_remio, Remio!Mark, Remio!Load, Remio!Store, Remio!InLoop
<1>6. ASSUME NEW v \in VM,
             vm_assign_line(v) \/ vm_init_dev(v) \/ vm_init_ipc(v) \/ Rings(v) \/ GuestTraps(v)
                \/ \E id \in Line : Fires(v, id)
      PROVE  UNCHANGED remio
  BY <1>6 DEF vm_assign_line, vm_init_dev, vm_init_ipc, Rings, GuestTraps, Fires
<1>7. ASSUME IoFaults PROVE UNCHANGED remio
  BY <1>7 DEF IoFaults
<1> QED
  BY <1>3, <1>4, <1>5, <1>6, <1>7 DEF SetupNext

(* A configuration that remio_init accepts has, for every frontend, exactly *)
(* one backend of the same key and shared memory, and the other way around, *)
(* whatever the numbers of VMs and devices: the two counts it compares at   *)
(* the end are enough.                                                      *)
THEOREM AcceptedArePaired == SetupSpec => []AcceptedMeansPaired
<1>1. PairInv => AcceptedMeansPaired
  BY DEF PairInv
<1> QED
  BY InitPair, NextPair, <1>1, PTL DEF SetupSpec

----------------------------------------------------------------------------
(* The CPUs of the platform.                                                *)
AllCpus == UNION {Cpus[v] : v \in VM}

(* A half and a device while the masters of the VMs assign CPUs.            *)
HalfRun ==
    [bound : BOOLEAN, shmem : Shmem \cup {NoShmem}, vm : VM \cup {Remio!NoVm},
     cpu_id : AllCpus \cup {Remio!NoCpu}, ready : BOOLEAN]

DevRun == [bind_key : Key, ready : BOOLEAN, backend : HalfRun, frontend : HalfRun]

(* A half has the CPU of its VM as soon as it is ready, and before it has   *)
(* the number that is larger than all.                                      *)
Assigned(h) ==
    IF h.ready THEN h.vm \in VM /\ h.cpu_id \in Cpus[h.vm] ELSE h.cpu_id = Remio!NoCpu

(* What the ready flag of a device is to stand for.                         *)
BothReady(d) == d.backend.ready /\ d.frontend.ready

(* Every half of every device is as Assigned says.                          *)
HalvesAssigned == \A k \in Indices : \A side \in Remio!Side : Assigned(device[k][side])

(* A device that is ready has two halves that are.                          *)
FlagsTrue == \A k \in Indices : device[k].ready => BothReady(device[k])

(* So has one that a master has read as ready and has yet to mark.          *)
FlagsLoaded ==
    \A v \in VM : pc[v] = "store" /\ flag[v] => at[v] \in Indices /\ BothReady(device[at[v]])

(* The inductive invariant behind ReadyMeansAssigned.                       *)
ReadyInv ==
    /\ master \in [VM -> AllCpus] /\ \A v \in VM : master[v] \in Cpus[v]
    /\ device \in Seq(DevRun)
    /\ pc \in [VM -> {"mark", "load", "store", "done"}]
    /\ at \in [VM -> Nat \ {0}]
    /\ flag \in [VM -> BOOLEAN]
    /\ phase = "link" => \A v \in VM : pc[v] = "mark"
    /\ HalvesAssigned /\ FlagsTrue /\ FlagsLoaded

(* The number for 'no CPU' is larger than that of every CPU.                *)
LEMMA CpusBelow == \A c \in AllCpus : c \in Nat /\ Remio!NoCpu \in Nat /\ c < Remio!NoCpu
<1> DEFINE m == CHOOSE m \in AllCpus : \A c \in AllCpus : c <= m
<1>1. AllCpus \subseteq Nat
  BY SetupAssumption DEF AllCpus
<1>2. ASSUME AllCpus # {} PROVE m \in AllCpus /\ \A c \in AllCpus : c <= m
  <2>1. \E last \in AllCpus : \A v \in VM : \A c \in Cpus[v] : c <= last
    BY <1>2, SetupAssumption DEF AllCpus
  <2>2. \E last \in AllCpus : \A c \in AllCpus : c <= last
    BY <2>1 DEF AllCpus
  <2> QED
    BY <2>2
<1>3. Remio!NoCpu = 1 + m
  BY DEF Remio!NoCpu, AllCpus
<1> HIDE DEF m
<1> SUFFICES ASSUME NEW c \in AllCpus
             PROVE  c \in Nat /\ Remio!NoCpu \in Nat /\ c < Remio!NoCpu
  OBVIOUS
<1>4. c \in Nat /\ m \in Nat /\ c <= m
  BY <1>1, <1>2
<1> QED
  BY <1>3, <1>4

(* What remio_init leaves is a device to be assigned.                       *)
LEMMA Fresh == DevRec \subseteq DevRun /\ HalfRec \subseteq HalfRun
  BY DEF DevRec, DevRun, HalfRec, HalfRun

(* ... and its halves have no CPU yet.                                      *)
LEMMA NewHalves ==
    \A v \in VM, e \in Remio!Entry : Assigned(Remio!Half(v, e)) /\ Assigned(Remio!NoHalf)
  BY DEF Assigned, Remio!Half, Remio!NoHalf

(* What remio_assign_vm_cpus makes of a half of VM v.                       *)
LEMMA MarkHalf ==
    ASSUME NEW v \in VM, NEW h \in HalfRun, NEW c \in Cpus[v], h.vm = v, Assigned(h)
    PROVE  LET g == Remio!Assign(h, c)
           IN  g \in HalfRun /\ Assigned(g) /\ g.ready
<1>1. c \in AllCpus /\ c < Remio!NoCpu
  BY CpusBelow DEF AllCpus
<1>2. (IF c < h.cpu_id THEN c ELSE h.cpu_id) \in Cpus[v]
  BY <1>1 DEF Assigned
<1>3. (IF c < h.cpu_id THEN c ELSE h.cpu_id) \in AllCpus
  BY <1>2 DEF AllCpus
<1> QED
  BY <1>2, <1>3 DEF Remio!Assign, HalfRun, Assigned

(* Before remio_init there is no device.                                    *)
LEMMA InitReady == SetupInit => ReadyInv
<1> SUFFICES ASSUME SetupInit PROVE ReadyInv
  OBVIOUS
<1>1. Indices = {} /\ device \in Seq(DevRun)
  BY DEF SetupInit, Remio!Init, Indices
<1>2. master \in [VM -> AllCpus] /\ \A v \in VM : master[v] \in Cpus[v]
  BY DEF SetupInit, Remio!Init, AllCpus
<1> QED
  BY <1>1, <1>2 DEF SetupInit, Remio!Init, ReadyInv, HalvesAssigned, FlagsTrue, FlagsLoaded

(* remio_init assigns no CPU and makes no device ready.                     *)
LEMMA LinkReady ==
    ASSUME PairInv, ReadyInv, Remio!Link
    PROVE  ReadyInv'
<1>1. /\ phase = "link" /\ UNCHANGED <<vmlist, master, pc, at, flag>>
      /\ (phase' = "error" /\ device' = device) \/ phase' = "link"
  BY DEF Remio!Link, Remio!Stop, Remio!Add
<1>2. \A v \in VM : pc'[v] = "mark"
  BY <1>1 DEF ReadyInv
<1>3. FlagsLoaded'
  BY <1>2 DEF FlagsLoaded
<1>4. CASE phase' = "error" /\ device' = device
  BY <1>1, <1>2, <1>3, <1>4 DEF ReadyInv, HalvesAssigned, FlagsTrue, Indices
<1>5. CASE phase' = "link"
  <2>1. LinkInv /\ vmlist \in [VM -> Seq(Remio!Entry)]
    BY <1>1 DEF PairInv
  <2> PICK p \in todo : \E k \in Nat : Links(p, k)
    BY <1>5, <2>1, LinkShape
  <2> PICK k \in Nat : Links(p, k)
    OBVIOUS
  <2> DEFINE e == Remio!EntryAt(p)
             o == Remio!Other(e.type)
  <2>2. /\ p[1] \in VM /\ e \in Remio!Entry
        /\ e.type \in Remio!Side /\ o \in Remio!Side /\ \A side \in Remio!Side : side \in {e.type, o}
    BY <2>1, PlaceType DEF LinkInv, Remio!Entry, Remio!Side, Remio!Other
  <2>3. device' \in Seq(DevRec) /\ device' \in Seq(DevRun) /\ k \in Indices'
        /\ \A i \in Indices' \ {k} : i \in Indices /\ device'[i] = device[i]
    BY Fresh DEF Links, Indices
  <2>4. Assigned(device'[k][e.type])
    BY <2>2, NewHalves DEF Links
  <2>5. Assigned(device'[k][o])
    <3>1. \/ k \in Indices /\ device'[k][o] = device[k][o]
          \/ device'[k][o] = Remio!NoHalf
      BY DEF Links
    <3> QED
      BY <2>2, <3>1, NewHalves DEF ReadyInv, HalvesAssigned
  <2>6. HalvesAssigned'
    <3> SUFFICES ASSUME NEW i \in Indices', NEW side \in Remio!Side
                 PROVE  Assigned(device'[i][side])
      BY DEF HalvesAssigned
    <3>1. CASE i = k
      BY <2>2, <2>4, <2>5, <3>1
    <3>2. CASE i # k
      BY <2>3, <3>2 DEF ReadyInv, HalvesAssigned
    <3> QED
      BY <3>1, <3>2
  <2>7. FlagsTrue'
    <3>1. \A i \in Indices' : device'[i] \in DevRec
      BY <2>3 DEF Indices
    <3> QED
      BY <3>1 DEF FlagsTrue, DevRec
  <2> QED
    BY <1>1, <1>2, <1>3, <2>3, <2>6, <2>7 DEF ReadyInv
<1> QED
  BY <1>1, <1>4, <1>5

(* A master marks the half of its own VM and lowers its CPU.                *)
LEMMA MarkReady ==
    ASSUME ReadyInv, NEW v \in VM, Remio!Mark(v)
    PROVE  ReadyInv'
<1> DEFINE k == at[v]
<1>1. /\ phase = "run" /\ phase' = "run" /\ UNCHANGED <<vmlist, master, at, flag>>
      /\ pc' = [pc EXCEPT ![v] = "load"] /\ k \in Nat \ {0} /\ k <= Len(device)
      /\ device \in Seq(DevRun)
  BY DEF Remio!Mark, Remio!InLoop, ReadyInv
<1>2. k \in Indices /\ device[k] \in DevRun
  BY <1>1 DEF Indices
<1>3. \E d \in DevRun :
         /\ device' = [device EXCEPT ![k] = d]
         /\ d.ready = device[k].ready
         /\ \A side \in Remio!Side : Assigned(d[side]) /\ (device[k][side].ready => d[side].ready)
  <2>1. CASE device[k].backend.vm = v
    <3> DEFINE h == Remio!Assign(device[k].backend, master[v])
               d == [device[k] EXCEPT !.backend = h]
    <3>1. h \in HalfRun /\ Assigned(h) /\ h.ready
      BY <1>2, <2>1, MarkHalf DEF ReadyInv, HalvesAssigned, Remio!Side, DevRun
    <3>2. device' = [device EXCEPT ![k] = d]
      BY <2>1 DEF Remio!Mark
    <3> HIDE DEF h
    <3>3. d \in DevRun /\ d.ready = device[k].ready /\ d.backend = h
          /\ d.frontend = device[k].frontend
      BY <1>2, <3>1 DEF DevRun
    <3>4. Assigned(device[k].frontend)
      BY <1>2 DEF ReadyInv, HalvesAssigned, Remio!Side
    <3> HIDE DEF d
    <3> QED
      BY <3>1, <3>2, <3>3, <3>4 DEF Remio!Side
  <2>2. CASE device[k].backend.vm # v /\ device[k].frontend.vm = v
    <3> DEFINE h == Remio!Assign(device[k].frontend, master[v])
               d == [device[k] EXCEPT !.frontend = h]
    <3>1. h \in HalfRun /\ Assigned(h) /\ h.ready
      BY <1>2, <2>2, MarkHalf DEF ReadyInv, HalvesAssigned, Remio!Side, DevRun
    <3>2. device' = [device EXCEPT ![k] = d]
      BY <2>2 DEF Remio!Mark
    <3> HIDE DEF h
    <3>3. d \in DevRun /\ d.ready = device[k].ready /\ d.frontend = h
          /\ d.backend = device[k].backend
      BY <1>2, <3>1 DEF DevRun
    <3>4. Assigned(device[k].backend)
      BY <1>2 DEF ReadyInv, HalvesAssigned, Remio!Side
    <3> HIDE DEF d
    <3> QED
      BY <3>1, <3>2, <3>3, <3>4 DEF Remio!Side
  <2>3. CASE device[k].backend.vm # v /\ device[k].frontend.vm # v
    <3>1. device' = [device EXCEPT ![k] = device[k]]
      BY <1>1, <1>2, <2>3 DEF Remio!Mark, Indices
    <3> QED
      BY <1>2, <3>1 DEF ReadyInv, HalvesAssigned
  <2> QED
    BY <2>1, <2>2, <2>3
<1> PICK d \in DevRun :
         /\ device' = [device EXCEPT ![k] = d]
         /\ d.ready = device[k].ready
         /\ \A side \in Remio!Side : Assigned(d[side]) /\ (device[k][side].ready => d[side].ready)
  BY <1>3
<1> DEFINE t == [device EXCEPT ![k] = d]
<1>4. /\ t \in Seq(DevRun) /\ Len(t) = Len(device)
      /\ \A i \in 1 .. Len(device) : t[i] = IF i = k THEN d ELSE device[i]
  BY <1>1, <1>2, ExceptSeq DEF Indices
<1>5. device' = t
  OBVIOUS
<1> HIDE DEF t, k
<1>6. device' \in Seq(DevRun) /\ Indices' = Indices
      /\ \A i \in Indices : device'[i] = IF i = k THEN d ELSE device[i]
  BY <1>4, <1>5 DEF Indices
<1>7. \A i \in Indices : /\ device'[i].ready = device[i].ready
                         /\ BothReady(device[i]) => BothReady(device'[i])
  BY <1>6 DEF BothReady, Remio!Side
<1>8. HalvesAssigned'
  BY <1>6 DEF HalvesAssigned, ReadyInv
<1>9. FlagsTrue'
  BY <1>6, <1>7 DEF FlagsTrue, ReadyInv
<1>10. FlagsLoaded'
  BY <1>1, <1>6, <1>7 DEF FlagsLoaded, ReadyInv
<1> QED
  BY <1>1, <1>6, <1>8, <1>9, <1>10 DEF ReadyInv

(* A master reads the two flags of a device ...                             *)
LEMMA LoadReady ==
    ASSUME ReadyInv, NEW v \in VM, Remio!Load(v)
    PROVE  ReadyInv'
<1>1. /\ phase' = phase /\ phase = "run" /\ UNCHANGED <<vmlist, master, at, device>>
      /\ pc' = [pc EXCEPT ![v] = "store"] /\ flag' = [flag EXCEPT ![v] = BothReady(device[at[v]])]
      /\ at[v] \in Nat \ {0} /\ at[v] <= Len(device) /\ device \in Seq(DevRun)
  BY DEF Remio!Load, Remio!InLoop, ReadyInv, BothReady
<1>2. at[v] \in Indices /\ device[at[v]] \in DevRun /\ Indices' = Indices
  BY <1>1 DEF Indices
<1>3. BothReady(device[at[v]]) \in BOOLEAN
  BY <1>2 DEF BothReady, DevRun, HalfRun
<1>4. pc' \in [VM -> {"mark", "load", "store", "done"}] /\ flag' \in [VM -> BOOLEAN]
  BY <1>1, <1>3 DEF ReadyInv
<1>5. HalvesAssigned' /\ FlagsTrue'
  BY <1>1, <1>2 DEF ReadyInv, HalvesAssigned, FlagsTrue
<1>6. FlagsLoaded'
  <2> SUFFICES ASSUME NEW w \in VM, pc'[w] = "store", flag'[w]
               PROVE  at[w] \in Indices /\ BothReady(device[at[w]])
    BY <1>1, <1>2 DEF FlagsLoaded
  <2>1. CASE w = v
    BY <1>1, <1>2, <2>1 DEF ReadyInv
  <2>2. CASE w # v
    BY <1>1, <2>2 DEF ReadyInv, FlagsLoaded
  <2> QED
    BY <2>1, <2>2
<1> QED
  BY <1>1, <1>4, <1>5, <1>6 DEF ReadyInv

(* ... and stores the result: another master may have changed the flags in  *)
(* between, but only from not ready to ready.                               *)
LEMMA StoreReady ==
    ASSUME ReadyInv, NEW v \in VM, Remio!Store(v)
    PROVE  ReadyInv'
<1> DEFINE k == at[v]
           d == [device[k] EXCEPT !.ready = flag[v]]
           t == [device EXCEPT ![k] = d]
<1>1. /\ phase' = phase /\ phase = "run" /\ UNCHANGED <<vmlist, master, flag>>
      /\ pc[v] = "store" /\ device' = t /\ at' = [at EXCEPT ![v] = @ + 1]
      /\ pc' = [pc EXCEPT ![v] = IF k = Len(device) THEN "done" ELSE "mark"]
      /\ k \in Nat \ {0} /\ k <= Len(device) /\ device \in Seq(DevRun)
  BY DEF Remio!Store, Remio!InLoop, ReadyInv
<1>2. k \in Indices /\ device[k] \in DevRun
  BY <1>1 DEF Indices
<1>3. /\ d \in DevRun /\ d.ready = flag[v]
      /\ \A side \in Remio!Side : d[side] = device[k][side]
  BY <1>2 DEF DevRun, Remio!Side, ReadyInv
<1> HIDE DEF d
<1>4. /\ t \in Seq(DevRun) /\ Len(t) = Len(device)
      /\ \A i \in 1 .. Len(device) : t[i] = IF i = k THEN d ELSE device[i]
  BY <1>1, <1>2, <1>3, ExceptSeq DEF Indices
<1> HIDE DEF t
<1>5. device' \in Seq(DevRun) /\ Indices' = Indices
      /\ \A i \in Indices : device'[i] = IF i = k THEN d ELSE device[i]
  BY <1>1, <1>4 DEF Indices
<1>6. \A i \in Indices : BothReady(device'[i]) = BothReady(device[i])
  BY <1>3, <1>5 DEF BothReady, Remio!Side
<1>7. HalvesAssigned'
  BY <1>3, <1>5 DEF HalvesAssigned, ReadyInv
<1>8. flag[v] => BothReady(device[k])
  BY <1>1 DEF FlagsLoaded, ReadyInv
<1>9. FlagsTrue'
  BY <1>3, <1>5, <1>6, <1>8 DEF FlagsTrue, ReadyInv
<1> HIDE DEF k
<1>10. at' \in [VM -> Nat \ {0}] /\ \A w \in VM \ {v} : at'[w] = at[w] /\ pc'[w] = pc[w]
  BY <1>1 DEF ReadyInv, k
<1>11. pc' \in [VM -> {"mark", "load", "store", "done"}] /\ pc'[v] # "store"
  BY <1>1 DEF ReadyInv
<1>12. FlagsLoaded'
  <2> SUFFICES ASSUME NEW w \in VM, pc'[w] = "store", flag[w]
               PROVE  at'[w] \in Indices /\ BothReady(device'[at'[w]])
    BY <1>1, <1>5 DEF FlagsLoaded
  <2>1. w # v
    BY <1>11
  <2> QED
    BY <1>6, <1>10, <2>1 DEF FlagsLoaded, ReadyInv
<1> QED
  BY <1>1, <1>5, <1>7, <1>9, <1>10, <1>11, <1>12 DEF ReadyInv

(* Nothing else changes the devices.                                        *)
LEMMA NextReady ==
    PairInv /\ ReadyInv /\ [SetupNext]_<<vars, remio, master, io, ipc, served, guest>> => ReadyInv'
<1> SUFFICES ASSUME PairInv, ReadyInv, [SetupNext]_<<vars, remio, master, io, ipc, served, guest>>
             PROVE  ReadyInv'
  OBVIOUS
<1>1. ASSUME UNCHANGED <<master, device, pc, at, flag>>, phase' = phase \/ phase' # "link"
      PROVE  ReadyInv'
  BY <1>1 DEF ReadyInv, HalvesAssigned, FlagsTrue, FlagsLoaded, Indices
<1>2. ASSUME UNCHANGED <<remio, master>> PROVE ReadyInv'
  BY <1>1, <1>2 DEF remio
<1>3. CASE remio_init
  <2>1. CASE Remio!Link
    BY <2>1, LinkReady
  <2>2. CASE Remio!Check
    BY <1>1, <2>2 DEF Remio!Check
  <2> QED
    BY <1>3, <2>1, <2>2 DEF remio_init
<1>4. ASSUME NEW v \in VM, vm_init_remio(v) PROVE ReadyInv'
  BY <1>4, MarkReady, LoadReady, StoreReady DEF vm_init_remio
<1>5. ASSUME NEW v \in VM,
             vm_assign_line(v) \/ vm_init_dev(v) \/ vm_init_ipc(v) \/ Rings(v) \/ GuestTraps(v)
                \/ \E id \in Line : Fires(v, id)
      PROVE  UNCHANGED <<remio, master>>
  BY <1>5 DEF vm_assign_line, vm_init_dev, vm_init_ipc, Rings, GuestTraps, Fires,
              Ipc!vm_init_ipc, Ipc!ipc_hypercall, Ipc!ipc_notify
<1>6. ASSUME IoFaults PROVE UNCHANGED <<remio, master>>
  BY <1>6 DEF IoFaults
<1> QED
  BY <1>2, <1>3, <1>4, <1>5, <1>6 DEF SetupNext

(* Once a device is ready, both its halves have a CPU of their VM, whatever *)
(* the order in which the masters run remio_assign_vm_cpus without a lock:  *)
(* a stale result errs on the side of not ready only.                       *)
THEOREM ReadyAreAssigned == SetupSpec => []ReadyMeansAssigned
<1>1. ReadyInv => ReadyMeansAssigned
  BY DEF ReadyInv, HalvesAssigned, FlagsTrue, BothReady, Assigned, Indices, Remio!Side,
         ReadyMeansAssigned, Remio!ReadyMeansAssigned
<1> QED
  BY InitPair, NextPair, InitReady, NextReady, <1>1, PTL DEF SetupSpec

----------------------------------------------------------------------------
(* The types of what interrupts.c keeps.                                    *)
LineTypes ==
    /\ port \in Ports
    /\ own \in [VM -> SUBSET Line]
    /\ got \in [VM -> SUBSET Line]
    /\ config \in [VM -> Seq(Line)]
    /\ ipcs \in [VM -> Seq([shmem_id : Nat, interrupts : Seq(Line)])]
    /\ ipcat \in [VM -> Nat]

(* The bitmap of all lines, which a reservation and an assignment look at,  *)
(* covers the owners.                                                       *)
Covered == handlers \subseteq global /\ \A v \in VM : own[v] \subseteq global

(* No guest has got an interrupt while the drivers reserve theirs.          *)
NoneYet == wanted # <<>> => \A v \in VM : got[v] = {}

(* The inductive invariant behind ExclusiveLine and                         *)
(* HypervisorKeepsItsLines. On Arm the conflict test lets a shared line     *)
(* through, and only the types hold.                                        *)
LinesInv ==
    /\ LineTypes
    /\ NoneYet
    /\ port # "armv8" => Covered /\ ExclusiveLine /\ HypervisorKeepsItsLines

(* At reset no line has an owner.                                           *)
LEMMA InitLines == SetupInit => LinesInv
<1> SUFFICES ASSUME SetupInit PROVE LinesInv
  OBVIOUS
<1>1. LineTypes
  BY SetupAssumption, InterruptsAssumption DEF SetupInit, Init, Ipc!Init, LineTypes
<1> QED
  BY <1>1 DEF SetupInit, Init, LinesInv, NoneYet, Covered, ExclusiveLine, HypervisorKeepsItsLines

(* interrupts_reserve by a driver.                                          *)
LEMMA ReserveLines ==
    ASSUME LinesInv, Reserve, UNCHANGED <<ipcs, ipcat>>
    PROVE  LinesInv'
<1> DEFINE id == Head(wanted)
<1>1. UNCHANGED <<port, own, config, got>> /\ wanted # <<>> /\ LineTypes'
  BY DEF Reserve, LinesInv, LineTypes
<1>2. CASE UNCHANGED <<global, handlers>>
  BY <1>1, <1>2 DEF LinesInv, NoneYet, Covered, ExclusiveLine, HypervisorKeepsItsLines, Shared
<1>3. CASE /\ id \notin global
           /\ global' = global \cup {id}
           /\ handlers' = handlers \cup {id}
  BY <1>1, <1>3 DEF LinesInv, NoneYet, Covered, ExclusiveLine, HypervisorKeepsItsLines, Shared
<1> QED
  BY <1>2, <1>3 DEF Reserve, interrupts_reserve

(* interrupts_vm_assign by a VM.                                            *)
LEMMA AssignLines ==
    ASSUME LinesInv, NEW v \in VM, interrupts_vm_assign(v), UNCHANGED <<ipcs, ipcat>>
    PROVE  LinesInv'
<1> DEFINE id == Head(config[v])
<1>1. UNCHANGED <<port, handlers, got, wanted>> /\ config' = [config EXCEPT ![v] = Tail(@)]
  BY DEF interrupts_vm_assign
<1>2. id \in Line /\ config' \in [VM -> Seq(Line)]
  BY <1>1 DEF interrupts_vm_assign, LinesInv, LineTypes
<1>3. CASE UNCHANGED <<global, own>>
  BY <1>1, <1>2, <1>3 DEF LinesInv, LineTypes, NoneYet, Covered, ExclusiveLine,
                          HypervisorKeepsItsLines, Shared
<1>4. CASE /\ ~interrupts_arch_conflict(id)
           /\ own' = [own EXCEPT ![v] = @ \cup {id}]
           /\ global' = global \cup {id}
  <2>1. LineTypes' /\ NoneYet' /\ (port # "armv8" => Covered' /\ HypervisorKeepsItsLines')
    BY <1>1, <1>2, <1>4 DEF LinesInv, LineTypes, NoneYet, Covered, HypervisorKeepsItsLines
  <2>2. port # "armv8" => id \notin global \/ id \in Shared
    BY <1>2, <1>4, InterruptsAssumption DEF interrupts_arch_conflict, Shared, LinesInv, LineTypes
  <2>3. Shared' = Shared
    BY <1>1 DEF Shared
  <2>4. ASSUME port # "armv8", NEW k \in Line \ Shared, NEW u \in VM, k \in own'[u]
        PROVE  k \notin handlers' /\ \A w \in VM : k \in own'[w] => w = u
    <3>1. CASE k = id
      BY <2>2, <2>4, <3>1, <1>1, <1>4 DEF LinesInv, LineTypes, Covered
    <3>2. CASE k # id
      BY <2>4, <3>2, <1>1, <1>4 DEF LinesInv, LineTypes, ExclusiveLine
    <3> QED
      BY <3>1, <3>2
  <2> QED
    BY <1>1, <2>1, <2>3, <2>4 DEF LinesInv, ExclusiveLine
<1> QED
  BY <1>3, <1>4 DEF interrupts_vm_assign

(* interrupts_handle takes an interrupt to its owner.                       *)
LEMMA HandleLines ==
    ASSUME LinesInv, NEW v \in VM, NEW id \in Line, interrupts_handle(v, id),
           UNCHANGED <<ipcs, ipcat>>
    PROVE  LinesInv'
<1>1. UNCHANGED <<port, config, wanted, global, handlers, own>> /\ wanted = <<>>
  BY DEF interrupts_handle, Going
<1>2. CASE UNCHANGED got
  BY <1>1, <1>2 DEF LinesInv, LineTypes, NoneYet, Covered, ExclusiveLine, HypervisorKeepsItsLines,
                    Shared
<1>3. CASE /\ id \in own[v] /\ (Forwardable \/ id \notin handlers)
           /\ got' = [got EXCEPT ![v] = @ \cup {id}]
  <2>1. port # "armv8" => id \notin handlers
    BY <1>3, InterruptsAssumption DEF LinesInv, LineTypes, ExclusiveLine, Forwardable, Shared
  <2>2. LineTypes' /\ NoneYet' /\ (port # "armv8" => Covered' /\ ExclusiveLine')
    BY <1>1, <1>3 DEF LinesInv, LineTypes, NoneYet, Covered, ExclusiveLine, Shared
  <2>3. port # "armv8" => HypervisorKeepsItsLines'
    BY <1>1, <1>3, <2>1 DEF LinesInv, LineTypes, HypervisorKeepsItsLines
  <2> QED
    BY <1>1, <2>2, <2>3 DEF LinesInv
<1> QED
  BY <1>2, <1>3 DEF interrupts_handle

(* All steps of the set-up; only these three change the lines.              *)
LEMMA NextLines == LinesInv /\ [SetupNext]_<<vars, remio, master, io, ipc, served, guest>> => LinesInv'
<1> SUFFICES ASSUME LinesInv, [SetupNext]_<<vars, remio, master, io, ipc, served, guest>>
             PROVE  LinesInv'
  OBVIOUS
<1>1. ASSUME UNCHANGED <<port, wanted, global, handlers, own, got>>,
             config' \in [VM -> Seq(Line)], ipcs' = ipcs, ipcat' \in [VM -> Nat]
      PROVE  LinesInv'
  BY <1>1 DEF LinesInv, LineTypes, NoneYet, Covered, ExclusiveLine, HypervisorKeepsItsLines, Shared
<1>2. ASSUME UNCHANGED <<lines, ipc>> PROVE LinesInv'
  BY <1>1, <1>2 DEF lines, ipc, LinesInv, LineTypes
<1>3. CASE Reserve /\ UNCHANGED ipc
  BY <1>3, ReserveLines DEF ipc
<1>4. ASSUME NEW v \in VM, vm_assign_line(v) PROVE LinesInv'
  BY <1>4, AssignLines DEF vm_assign_line, ipc
<1>5. ASSUME NEW v \in VM, vm_init_ipc(v) PROVE LinesInv'
  <2>1. ipcat \in [VM -> Nat] /\ ipcs \in [VM -> Seq([shmem_id : Nat, interrupts : Seq(Line)])]
        /\ config \in [VM -> Seq(Line)]
    BY DEF LinesInv, LineTypes
  <2>2. UNCHANGED <<port, wanted, global, handlers, own, got>> /\ ipcs' = ipcs
    BY <1>5 DEF vm_init_ipc, Ipc!vm_init_ipc
  <2>3. Ipc!NextIpc(v).interrupts \in Seq(Line)
    <3>1. ipcat[v] + 1 \in 1 .. Len(ipcs[v])
      BY <1>5, <2>1 DEF vm_init_ipc, Ipc!Unset
    <3> DEFINE Object == [shmem_id : Nat, interrupts : Seq(Line)]
    <3>2. ipcs[v] \in Seq(Object)
      BY <2>1
    <3>3. \A r \in Object : r.interrupts \in Seq(Line)
      OBVIOUS
    <3> HIDE DEF Object
    <3>4. Ipc!NextIpc(v) \in Object
      BY <3>1, <3>2 DEF Ipc!NextIpc
    <3> QED
      BY <3>3, <3>4
  <2>4. config' \in [VM -> Seq(Line)]
    <3>1. CASE config' = [config EXCEPT ![v] = IF Ipc!NextIpc(v).shmem_id < Shmems
                                               THEN Ipc!NextIpc(v).interrupts ELSE <<>>]
      <4> DEFINE x == IF Ipc!NextIpc(v).shmem_id < Shmems THEN Ipc!NextIpc(v).interrupts ELSE <<>>
      <4>1. x \in Seq(Line)
        BY <2>3
      <4> HIDE DEF x
      <4>2. config' = [config EXCEPT ![v] = x]
        BY <3>1 DEF x
      <4> QED
        BY <2>1, <4>1, <4>2
    <3>2. CASE config' = config
      BY <2>1, <3>2
    <3> QED
      BY <1>5, <3>1, <3>2 DEF vm_init_ipc
  <2>5. ipcat' \in [VM -> Nat]
    BY <1>5, <2>1 DEF vm_init_ipc, Ipc!vm_init_ipc
  <2> QED
    BY <1>1, <2>2, <2>4, <2>5
<1>6. ASSUME NEW v \in VM, NEW id \in Line, Fires(v, id) PROVE LinesInv'
  BY <1>6, HandleLines DEF Fires, ipc
<1>7. ASSUME NEW v \in VM, Rings(v) \/ vm_init_remio(v)
      PROVE  LinesInv'
  <2>1. UNCHANGED <<port, config, wanted, global, handlers, own, got, ipcs, ipcat>>
    BY <1>7 DEF Rings, vm_init_remio, vars, Ipc!ipc_hypercall, Ipc!ipc_notify
  <2> QED
    BY <1>1, <2>1 DEF LinesInv, LineTypes
<1>8. ASSUME remio_init PROVE LinesInv'
  BY <1>2, <1>8 DEF remio_init, vars, lines
<1>9. ASSUME NEW v \in VM, vm_init_dev(v) \/ GuestTraps(v) PROVE UNCHANGED <<lines, ipc>>
  BY <1>9 DEF vm_init_dev, GuestTraps
<1>10. ASSUME IoFaults PROVE UNCHANGED <<lines, ipc>>
  BY <1>10 DEF IoFaults
<1>11. ASSUME UNCHANGED <<vars, ipc>> PROVE LinesInv'
  BY <1>2, <1>11 DEF vars, lines
<1> QED
  BY <1>2, <1>3, <1>4, <1>5, <1>6, <1>7, <1>8, <1>9, <1>10, <1>11 DEF SetupNext

(* No reservation and no assignment (interrupts_reserve,                    *)
(* interrupts_vm_assign) gives a line a second owner, on every port but     *)
(* Arm.                                                                     *)
THEOREM OneOwner == SetupSpec => [](port # "armv8" => ExclusiveLine)
<1>1. LinesInv => (port # "armv8" => ExclusiveLine)
  BY DEF LinesInv
<1> QED
  BY InitLines, NextLines, <1>1, PTL DEF SetupSpec

(* ... and a line the hypervisor reserved never reaches a guest             *)
(* (interrupts_handle, which asks the VM first).                            *)
THEOREM HypervisorKeeps == SetupSpec => [](port # "armv8" => HypervisorKeepsItsLines)
<1>1. LinesInv => (port # "armv8" => HypervisorKeepsItsLines)
  BY DEF LinesInv
<1> QED
  BY InitLines, NextLines, <1>1, PTL DEF SetupSpec

----------------------------------------------------------------------------
(* The identifier VM v asks for as its n-th.                                *)
RequestOf(v, n) == streams[v][n].id

(* The identifiers rv_iommu_add has entered for VM v, and the one it has    *)
(* taken in the bitmap and not yet entered, if it is at that.               *)
Held(v) == {RequestOf(v, n) : n \in 1 .. ioat[v]}

Busy(v) == iopc[v] \in {"enable", "root"}

Taking(v) == {RequestOf(v, n) : n \in {m \in {ioat[v] + 1} : Busy(v)}}

(* The types of what the driver keeps; there are no masks on RISC-V.        *)
DdtTypes ==
    /\ streams \in [VM -> Seq(Io!Request)]
    /\ \A v \in VM : global_mask[v] = {} /\ \A n \in 1 .. Len(streams[v]) : streams[v][n].mask = {}
    /\ ioat \in [VM -> Nat] /\ \A v \in VM : ioat[v] <= Len(streams[v])
    /\ iopc \in [VM -> {"next", "enable", "root", "skipped"}]
    /\ \A v \in VM : Busy(v) => ioat[v] < Len(streams[v])
    /\ ddt \in [Io!Id -> VM \cup {Io!None, Io!Bare}]

(* The bitmap covers what is entered or taken, and no identifier is so for  *)
(* two VMs or twice.                                                        *)
DdtExclusive ==
    /\ \A v \in VM : Held(v) \cup Taking(v) \subseteq ddt_bitmap /\ Held(v) \cap Taking(v) = {}
    /\ \A v, w \in VM : v # w => (Held(v) \cup Taking(v)) \cap (Held(w) \cup Taking(w)) = {}

(* The directory holds exactly what was entered.                            *)
DdtBound ==
    /\ \A d \in Io!Id : ddt[d] \in VM => d \in Held(ddt[d])
    /\ \A v \in VM : \A d \in Held(v) : ddt[d] = v

(* The inductive invariant behind DevicesIsolated on RISC-V.                *)
DdtInv == iommu = "riscv" => DdtTypes /\ DdtExclusive /\ DdtBound

(* rv_iommu_init leaves an empty directory.                                 *)
LEMMA InitDdt == SetupInit => DdtInv
<1> SUFFICES ASSUME SetupInit, iommu = "riscv" PROVE DdtTypes /\ DdtExclusive /\ DdtBound
  BY DEF DdtInv
<1>1. /\ ioat = [v \in VM |-> 0] /\ iopc = [v \in VM |-> "next"] /\ ddt = [d \in Io!Id |-> Io!None]
      /\ ddt_bitmap = {}
  BY DEF SetupInit, Io!InitUnit, Io!rv_iommu_init
<1>2. streams \in [VM -> Seq(Io!Request)]
      /\ \A v \in VM : global_mask[v] = {} /\ \A n \in 1 .. Len(streams[v]) : streams[v][n].mask = {}
  <2>1. PICK s \in Setups : streams = s.streams /\ global_mask = s.global_mask /\ iommu = s.iommu
    BY DEF SetupInit
  <2>2. s.streams \in [VM -> Seq(Io!Request)] /\ \A v \in VM : Io!Exact(s, v)
    BY <2>1, SetupAssumption
  <2> QED
    BY <2>1, <2>2 DEF Io!Exact
<1>3. \A v \in VM : Held(v) = {} /\ Taking(v) = {} /\ ~Busy(v)
  BY <1>1 DEF Held, Taking, Busy
<1>4. \A d \in Io!Id : ddt[d] \notin VM
  BY <1>1, SetupAssumption DEF Io!None
<1> QED
  BY <1>1, <1>2, <1>3, <1>4 DEF DdtTypes, DdtExclusive, DdtBound

(* rv_iommu_add takes the identifier, validates the entry and gives it a    *)
(* page table, in steps that those of other VMs may fall between.           *)
LEMMA AddDdt ==
    ASSUME DdtInv, iommu = "riscv", UNCHANGED <<iommu, streams, global_mask>>,
           NEW v \in VM, Io!smmu_add(v) \/ Io!rv_iommu_add(v)
    PROVE  DdtInv'
<1> DEFINE n == ioat[v] + 1
           d == RequestOf(v, n)
<1>1. /\ streams \in [VM -> Seq(Io!Request)] /\ ioat \in [VM -> Nat]
      /\ iopc \in [VM -> {"next", "enable", "root", "skipped"}]
      /\ ddt \in [Io!Id -> VM \cup {Io!None, Io!Bare}]
  BY DEF DdtInv, DdtTypes
<1>2. ~Io!smmu_add(v)
  BY <1>1 DEF Io!smmu_add, Io!iommu_vm_arch_init_ctx, Io!smmu_compatible_sme_exists, Io!smmu_alloc_sme,
              Io!smmu_write_sme, Io!smmu_write_s2c, Io!Asks
<1>3. ioat[v] < Len(streams[v]) /\ n \in 1 .. Len(streams[v]) /\ Io!Asked(v) = streams[v][n]
      /\ Io!Asked(v).id = d /\ d \in Io!Id
  <2>1. ioat[v] < Len(streams[v])
    BY <1>2 DEF Io!rv_iommu_add, Io!rv_iommu_alloc_did, Io!rv_iommu_write_ddt, Io!Asks
  <2>2. n \in 1 .. Len(streams[v])
    BY <1>1, <2>1
  <2>3. streams[v][n] \in Io!Request
    BY <1>1, <2>2
  <2> QED
    BY <2>1, <2>2, <2>3 DEF Io!Asked, RequestOf, Io!Request
<1>4. \A w \in VM : (ioat'[w] = ioat[w] => Held(w)' = Held(w))
                    /\ (ioat'[w] = ioat[w] /\ iopc'[w] = iopc[w] => Taking(w)' = Taking(w))
  BY DEF Held, Taking, RequestOf, Busy
<1>5. \A w \in VM : (Busy(w) => Taking(w) = {RequestOf(w, ioat[w] + 1)})
                    /\ (~Busy(w) => Taking(w) = {})
  BY DEF Taking
<1>6. \A w \in VM : (Busy(w)' => Taking(w)' = {RequestOf(w, ioat'[w] + 1)})
                    /\ (~Busy(w)' => Taking(w)' = {})
  BY DEF Taking, RequestOf
<1>7. CASE Io!rv_iommu_alloc_did(v)
  <2>1. /\ iopc[v] = "next" /\ ioat' = ioat /\ ddt' = ddt
        /\ \/ /\ d \notin ddt_bitmap /\ ddt_bitmap' = ddt_bitmap \cup {d}
              /\ iopc' = [iopc EXCEPT ![v] = "enable"]
           \/ ddt_bitmap' = ddt_bitmap /\ iopc' \in {iopc, [iopc EXCEPT ![v] = "skipped"]}
    BY <1>3, <1>7 DEF Io!rv_iommu_alloc_did, Io!Asks, Io!Goto, Io!Failed
  <2>2. DdtTypes'
    BY <1>1, <1>3, <2>1 DEF DdtInv, DdtTypes, Busy
  <2>3. \A w \in VM : Held(w)' = Held(w) /\ (w # v => Taking(w)' = Taking(w))
    BY <1>1, <1>4, <2>1
  <2>4. Taking(v) = {} /\ (Taking(v)' = {} \/ (d \notin ddt_bitmap /\ d \in ddt_bitmap' /\ Taking(v)' = {d}))
    BY <1>1, <1>5, <1>6, <2>1 DEF Busy
  <2>5. ddt_bitmap \subseteq ddt_bitmap'
    BY <2>1
  <2>6. DdtExclusive'
    BY <2>3, <2>4, <2>5 DEF DdtInv, DdtExclusive
  <2>7. DdtBound'
    BY <2>1, <2>3 DEF DdtInv, DdtBound
  <2> QED
    BY <2>2, <2>6, <2>7 DEF DdtInv
<1>8. CASE Io!rv_iommu_write_ddt(v) /\ iopc[v] = "enable"
  <2>1. /\ ddt' = [ddt EXCEPT ![d] = Io!Bare] /\ iopc' = [iopc EXCEPT ![v] = "root"] /\ ioat' = ioat
        /\ ddt_bitmap' = ddt_bitmap
    BY <1>3, <1>8 DEF Io!rv_iommu_write_ddt, Io!Asks, Io!Goto
  <2>2. DdtTypes'
    BY <1>1, <1>3, <2>1 DEF DdtInv, DdtTypes, Busy
  <2>3. \A w \in VM : Held(w)' = Held(w) /\ Taking(w)' = Taking(w)
    BY <1>1, <1>4, <1>5, <1>6, <1>8, <2>1 DEF Busy, RequestOf
  <2>4. DdtExclusive'
    BY <2>1, <2>3 DEF DdtInv, DdtExclusive
  <2>5. d \in Taking(v) /\ \A w \in VM : d \notin Held(w)
    BY <1>5, <1>8 DEF Busy, DdtInv, DdtExclusive
  <2>6. Io!Bare \notin VM
    BY SetupAssumption DEF Io!Bare
  <2>7. DdtBound'
    BY <1>1, <1>3, <2>1, <2>3, <2>5, <2>6 DEF DdtInv, DdtBound
  <2> QED
    BY <2>2, <2>4, <2>7 DEF DdtInv
<1>9. CASE Io!rv_iommu_write_ddt(v) /\ iopc[v] = "root"
  <2>1. /\ ddt' = [ddt EXCEPT ![d] = v] /\ iopc' = [iopc EXCEPT ![v] = "next"]
        /\ ioat' = [ioat EXCEPT ![v] = n] /\ ddt_bitmap' = ddt_bitmap
    BY <1>3, <1>9 DEF Io!rv_iommu_write_ddt, Io!Asks, Io!Added
  <2>2. DdtTypes'
    BY <1>1, <1>3, <2>1 DEF DdtInv, DdtTypes, Busy
  <2>3. \A w \in VM \ {v} : Held(w)' = Held(w) /\ Taking(w)' = Taking(w)
    BY <1>1, <1>4, <2>1
  <2>4. Held(v)' = Held(v) \cup {d} /\ Taking(v)' = {} /\ Taking(v) = {d}
    <3>1. 1 .. n = (1 .. ioat[v]) \cup {n}
      BY <1>1
    <3>2. Held(v)' = {RequestOf(v, m) : m \in 1 .. n}
      BY <1>1, <2>1 DEF Held, RequestOf
    <3>3. Held(v)' = Held(v) \cup {d}
      BY <3>1, <3>2 DEF Held
    <3> QED
      BY <1>1, <1>5, <1>6, <1>9, <2>1, <3>3 DEF Busy
  <2>5. DdtExclusive'
    BY <2>1, <2>3, <2>4 DEF DdtInv, DdtExclusive
  <2>6. d \notin Held(v) /\ \A w \in VM \ {v} : d \notin Held(w)
    BY <2>4 DEF DdtInv, DdtExclusive
  <2>7. \A w \in VM : Held(w) \subseteq Io!Id
    <3> SUFFICES ASSUME NEW w \in VM, NEW m \in 1 .. ioat[w] PROVE RequestOf(w, m) \in Io!Id
      BY DEF Held
    <3>1. m \in 1 .. Len(streams[w])
      BY <1>1 DEF DdtInv, DdtTypes
    <3>2. streams[w][m] \in Io!Request
      BY <1>1, <3>1
    <3> QED
      BY <3>2 DEF RequestOf, Io!Request
  <2>8. ddt'[d] = v /\ \A e \in Io!Id \ {d} : ddt'[e] = ddt[e]
    BY <1>1, <1>3, <2>1
  <2>9. \A e \in Io!Id, w \in VM : ddt'[e] = w => e \in Held(w)'
    <3> SUFFICES ASSUME NEW e \in Io!Id, NEW w \in VM, ddt'[e] = w PROVE e \in Held(w)'
      OBVIOUS
    <3>1. CASE e = d
      BY <2>4, <2>8, <3>1
    <3>2. CASE e # d
      <4>1. e \in Held(w)
        BY <2>8, <3>2 DEF DdtInv, DdtBound
      <4> QED
        BY <2>3, <2>4, <4>1
    <3> QED
      BY <3>1, <3>2
  <2>10. \A w \in VM : \A e \in Held(w)' : ddt'[e] = w
    <3> SUFFICES ASSUME NEW w \in VM, NEW e \in Held(w)' PROVE ddt'[e] = w
      OBVIOUS
    <3>1. CASE e = d
      BY <2>3, <2>4, <2>6, <2>8, <3>1
    <3>2. CASE e # d
      <4>1. e \in Held(w)
        BY <2>3, <2>4, <3>2
      <4> QED
        BY <2>7, <2>8, <3>2, <4>1 DEF DdtInv, DdtBound
    <3> QED
      BY <3>1, <3>2
  <2>11. DdtBound'
    BY <2>9, <2>10 DEF DdtBound
  <2> QED
    BY <2>2, <2>5, <2>11 DEF DdtInv
<1> QED
  BY <1>2, <1>7, <1>8, <1>9 DEF Io!rv_iommu_add, Io!rv_iommu_write_ddt, Io!Asks

(* Nothing else changes the directory.                                      *)
LEMMA NextDdt == DdtInv /\ [SetupNext]_<<vars, remio, master, io, ipc, served, guest>> => DdtInv'
<1> SUFFICES ASSUME DdtInv, [SetupNext]_<<vars, remio, master, io, ipc, served, guest>>
             PROVE  DdtInv'
  OBVIOUS
<1>1. ASSUME UNCHANGED <<iommu, streams, global_mask, ioat, iopc, ddt, ddt_bitmap>> PROVE DdtInv'
  <2>1. \A v \in VM : Held(v)' = Held(v) /\ Taking(v)' = Taking(v) /\ Busy(v)' = Busy(v)
    BY <1>1 DEF Held, Taking, Busy, RequestOf
  <2>2. DdtTypes => DdtTypes'
    BY <1>1, <2>1 DEF DdtTypes
  <2>3. DdtExclusive => DdtExclusive'
    BY <1>1, <2>1 DEF DdtExclusive
  <2>4. DdtBound => DdtBound'
    BY <1>1, <2>1 DEF DdtBound
  <2> QED
    BY <1>1, <2>2, <2>3, <2>4 DEF DdtInv
<1>2. ASSUME UNCHANGED io PROVE DdtInv'
  BY <1>1, <1>2 DEF io
<1>3. ASSUME NEW v \in VM, vm_init_dev(v) PROVE DdtInv'
  <2>1. (Io!smmu_add(v) \/ Io!rv_iommu_add(v)) /\ UNCHANGED <<iommu, streams, global_mask>>
    BY <1>3 DEF vm_init_dev, Io!io_vm_add, Io!configured
  <2>2. CASE iommu = "riscv"
    BY <2>1, <2>2, AddDdt
  <2>3. CASE iommu # "riscv"
    BY <2>1, <2>3 DEF DdtInv
  <2> QED
    BY <2>2, <2>3
<1>4. ASSUME IoFaults PROVE DdtInv'
  BY <1>1, <1>4 DEF IoFaults, Io!DeviceFault, Io!rv_iommu_fq_irq_handler, Io!FqErrors,
                    Io!FqClearErrors, Io!FqAcknowledge, Io!FqRead, Io!FqReport, Io!configured, Io!setup
<1>5. ASSUME NEW v \in VM,
             vm_assign_line(v) \/ vm_init_ipc(v) \/ vm_init_remio(v) \/ Rings(v) \/ GuestTraps(v)
                \/ \E id \in Line : Fires(v, id)
      PROVE  UNCHANGED io
  BY <1>5 DEF vm_assign_line, vm_init_ipc, vm_init_remio, Rings, GuestTraps, Fires
<1>6. ASSUME remio_init PROVE UNCHANGED io
  BY <1>6 DEF remio_init
<1> QED
  BY <1>2, <1>3, <1>4, <1>5, <1>6 DEF SetupNext

(* On RISC-V a device is translated by the page table of the VM that is     *)
(* configured with it, and of nobody else, and a VM that has been served    *)
(* has all its devices (iommu_arch_vm_add_device, rv_iommu_write_ddt).      *)
LEMMA RiscvIsolated == DdtInv => (iommu = "riscv" => DevicesIsolated)
<1> SUFFICES ASSUME DdtInv, iommu = "riscv" PROVE DevicesIsolated
  OBVIOUS
<1>1. DdtTypes /\ DdtExclusive /\ DdtBound
  BY DEF DdtInv
<1>2. VM \subseteq Nat /\ Io!Fault = -1 /\ Io!Unbound = -2 /\ Io!None = -1 /\ Io!Bare = -2
  BY SetupAssumption DEF Io!Fault, Io!Unbound, Io!None, Io!Bare
<1>3. \A s \in Io!Id : Io!Target(s) = ddt[s]
  BY <1>1, <1>2 DEF Io!Target, DdtTypes
<1>4. ASSUME NEW v \in VM, NEW s \in Io!Id
      PROVE  Io!Wants(v, s) <=> \E n \in 1 .. Len(streams[v]) : s = RequestOf(v, n)
  <2> SUFFICES ASSUME NEW n \in 1 .. Len(streams[v])
               PROVE  Io!Covers(v, streams[v][n], s) <=> s = RequestOf(v, n)
    BY DEF Io!Wants
  <2>1. streams[v][n].mask = {} /\ global_mask[v] = {}
    BY <1>1 DEF DdtTypes
  <2> QED
    BY <2>1 DEF Io!Covers, Io!SymDiff, RequestOf
<1>5. Io!DmaConfined
  <2> SUFFICES ASSUME NEW s \in Io!Id, ddt[s] \in VM PROVE Io!Wants(ddt[s], s)
    BY <1>3 DEF Io!DmaConfined
  <2>1. PICK n \in 1 .. ioat[ddt[s]] : s = RequestOf(ddt[s], n)
    BY <1>1 DEF DdtBound, Held
  <2>2. n \in 1 .. Len(streams[ddt[s]])
    BY <1>1 DEF DdtTypes
  <2> QED
    BY <1>4, <2>1, <2>2
<1>6. ASSUME NEW v \in VM, ioat[v] = Len(streams[v]), NEW s \in Io!Id, Io!Wants(v, s)
      PROVE  Io!Target(s) = v
  BY <1>1, <1>3, <1>4, <1>6 DEF DdtBound, Held
<1> QED
  BY <1>5, <1>6 DEF DevicesIsolated, Io!DeviceAttached

----------------------------------------------------------------------------
(* The SMMU, where the configuration keeps to what the driver relies on     *)
(* (Reliable): where it does not, the driver loses devices.                 *)

(* What the proofs use of the constants.                                    *)
LEMMA SmConstants ==
    /\ VM \subseteq Nat /\ IsFiniteSet(VM)
    /\ SmeNum \in Nat /\ CtxNum \in Nat
    /\ ResetCtx \subseteq Io!Ctx
  BY SetupAssumption

(* Cardinality inside the instance is the Cardinality of the library.       *)
LEMMA IoCardinality == \A S : Io!Cardinality(S) = Cardinality(S)
  BY DEF Io!Cardinality, Cardinality

(* The entry for the n-th request of v, and for the one it is at.           *)
Ent(v, n) == Io!Entry(streams, global_mask, v, n)
Wanted(v) == Ent(v, ioat[v] + 1)

(* All streams of t match r as well; stream s matches r.                    *)
Includes(r, t) == t.mask \subseteq r.mask /\ Io!SymDiff(r.id, t.id) \subseteq r.mask
Matches(s, r) == Io!SymDiff(s, r.id) \subseteq r.mask

(* v is about to write entry k; entry k names the context bank of v since   *)
(* it was last bound; k is allocated and translates for v.                  *)
Claims(v, k) == iopc[v] \in {"write", "bind"} /\ iosme[v] = k
Claimed(k) == \E v \in VM : Claims(v, k)
Names(k, v) ==
    ctx_id[v] # Io!None /\ s2cr[k] = ctx_id[v] /\ smr[k].valid /\ (Io!Beyond \/ ~Io!InSetup(k))
Live(k, v) == k \in sme_bitmap /\ ~Claimed(k) /\ Names(k, v)

(* v has searched for the request it is at; request b has been searched for. *)
Working(v) == /\ ioat[v] < Len(streams[v])
              /\ iopc[v] \in {"alloc", "write", "bind", "skipped"} \/ v \in stopped
Reached(v, b) == b \in 1 .. ioat[v] \/ (b = ioat[v] + 1 /\ Working(v))

(* The entries that are given up and still match streams.                   *)
Leftover == {k \in Io!Sme \ sme_bitmap : smr[k].valid}

SmTypes ==
    /\ streams \in [VM -> Seq(Io!Request)] /\ global_mask \in [VM -> Io!Id]
    /\ Io!Disciplined(streams, global_mask) /\ (Io!Beyond \/ Io!Separate(streams, global_mask))
    /\ ioat \in [VM -> Nat]
    /\ iopc \in [VM -> {"next", "match", "alloc", "write", "bind", "skipped"}]
    /\ iosme \in [VM -> Io!Sme \cup {Io!None}]
    /\ ctx_id \in [VM -> Io!Ctx \cup {Io!None}] /\ banks \in [Io!Ctx -> VM \cup {Io!None}]
    /\ sme_bitmap \subseteq Io!Sme
    /\ smr \in [Io!Sme -> [mask : Io!Id, id : Io!Id, valid : BOOLEAN]]
    /\ s2cr \in [Io!Sme -> Io!Ctx]
    /\ \A v \in VM : ioat[v] <= Len(streams[v]) /\ (iopc[v] # "next" => ioat[v] < Len(streams[v]))

(* A bank belongs to one VM; those after reset to none.                     *)
SmContexts ==
    /\ \A v \in VM : /\ ctx_id[v] # Io!None => banks[ctx_id[v]] = v
                     /\ iopc[v] \in {"match", "alloc", "write", "bind"} => ctx_id[v] # Io!None
    /\ \A c \in Io!Ctx : banks[c] # Io!None => ctx_id[banks[c]] = c
    /\ Io!Beyond => \A c \in ResetCtx : banks[c] = Io!None

(* What is about to be written is allocated, and for one VM.                *)
SmClaims ==
    /\ \A v \in VM : iopc[v] \in {"write", "bind"} => iosme[v] \in sme_bitmap
    /\ \A v, w \in VM, k \in Io!Sme : Claims(v, k) /\ Claims(w, k) => v = w

(* An entry that is not in the middle of its set-up has not been written    *)
(* since reset, or is one of the VM it names.                               *)
SmContent ==
    /\ \A k \in Io!Sme : ~Io!InSetup(k) =>
           \/ s2cr[k] \in ResetCtx /\ smr[k] = Io!Blank
           \/ \E v \in VM : Names(k, v) /\ \E n \in 1 .. ioat[v] : smr[k] = Ent(v, n)
    /\ Io!Beyond => \A k \in Io!Sme : s2cr[k] \in ResetCtx \/ \E v \in VM : Names(k, v)
    /\ \A v \in VM : iopc[v] = "bind" => smr[iosme[v]] = Wanted(v)
    /\ \A k \in sme_bitmap : ~Claimed(k) => smr[k].valid

(* An entry that names a VM and is not its own any more was replaced by a   *)
(* larger one.                                                              *)
SmGivenUp ==
    \A k \in Io!Sme, v \in VM : (k \notin sme_bitmap \/ Claimed(k)) /\ Names(k, v) =>
        \E a, b \in DOMAIN streams[v] :
            /\ a < b /\ Reached(v, b) /\ Io!Exceeds(Ent(v, b), Ent(v, a))
            /\ ~Io!InSetup(k) => smr[k] = Ent(v, a)

(* What v has asked for is covered by an entry of it, or will be.           *)
SmCover ==
    \A v \in VM : \A n \in 1 .. ioat[v] :
        \/ \E k \in Io!Sme : Live(k, v) /\ Includes(smr[k], Ent(v, n))
        \/ Working(v) /\ Includes(Wanted(v), Ent(v, n))

(* No stream matches two entries of one VM.                                 *)
SmApart ==
    \A v \in VM :
        /\ \A j, k \in Io!Sme : Live(j, v) /\ Live(k, v) /\ j # k => ~Io!Meet(smr[j], smr[k])
        /\ iopc[v] \in {"alloc", "write", "bind"} => \A k \in Io!Sme : Live(k, v) => ~Io!Meet(Wanted(v), smr[k])

(* Entries are used from the first one up, so that whoever has given one up *)
(* takes that, or one that another VM has given up and will not need.       *)
Stands(w, k) == \/ iopc[w] = "alloc"
                \/ sme_held /\ iopc[w] = "match" /\ \E n \in DOMAIN streams[w] : smr[k] = Ent(w, n)
SmHoles ==
    /\ \A k \in sme_bitmap \cup Leftover : \A j \in Io!Sme : j < k => j \in sme_bitmap \cup Leftover
    /\ \E f \in [Leftover -> VM] : /\ \A j, k \in Leftover : f[j] = f[k] => j = k
                                   /\ \A k \in Leftover : Stands(f[k], k)

SmParts ==
    SmTypes /\ SmContexts /\ SmClaims /\ SmContent /\ SmGivenUp /\ SmCover /\ SmApart /\ SmHoles

(* What the relations between entries imply of each other.                  *)
LEMMA Meeting ==
    \A r, t, x, s :
        /\ Io!Meet(r, t) => Io!Meet(t, r)
        /\ Io!Exceeds(r, t) => Includes(r, t)
        /\ Includes(r, t) /\ Includes(t, x) => Includes(r, x)
        /\ Includes(r, t) /\ Io!Meet(t, x) => Io!Meet(r, x)
        /\ Io!Meet(r, t) /\ t.mask \subseteq r.mask => Includes(r, t)
        /\ Matches(s, r) /\ Matches(s, t) => Io!Meet(r, t)
        /\ Matches(s, t) /\ Includes(r, t) => Matches(s, r)
        /\ Includes(r, r)
<1> TAKE r, t, x, s
<1>1. Io!Meet(r, t) => Io!Meet(t, r)
  BY DEF Io!Meet, Io!SymDiff
<1>2. Io!Exceeds(r, t) => Includes(r, t)
  BY DEF Io!Meet, Io!SymDiff, Io!Exceeds, Includes
<1>3. Includes(r, t) /\ Includes(t, x) => Includes(r, x)
  BY DEF Io!SymDiff, Includes
<1>4. Includes(r, t) /\ Io!Meet(t, x) => Io!Meet(r, x)
  BY DEF Io!Meet, Io!SymDiff, Includes
<1>5. Io!Meet(r, t) /\ t.mask \subseteq r.mask => Includes(r, t)
  BY DEF Io!Meet, Io!SymDiff, Includes
<1>6. Matches(s, r) /\ Matches(s, t) => Io!Meet(r, t)
  BY DEF Io!Meet, Io!SymDiff, Matches
<1>7. Matches(s, t) /\ Includes(r, t) => Matches(s, r)
  BY DEF Io!SymDiff, Includes, Matches
<1>8. Includes(r, r)
  BY DEF Io!SymDiff, Includes
<1> QED
  BY <1>1, <1>2, <1>3, <1>4, <1>5, <1>6, <1>7, <1>8

(* What Disciplined says, of the entries.                                   *)
LEMMA Discipline ==
    ASSUME Io!Disciplined(streams, global_mask), NEW v \in VM,
           NEW a \in DOMAIN streams[v], NEW b \in DOMAIN streams[v], NEW c \in DOMAIN streams[v]
    PROVE  /\ a < c /\ b < c /\ Io!Exceeds(Ent(v, c), Ent(v, a)) /\ Io!Exceeds(Ent(v, c), Ent(v, b))
                  => Io!Meet(Ent(v, a), Ent(v, b))
           /\ a < b /\ b < c /\ Io!Exceeds(Ent(v, b), Ent(v, a)) =>
                  /\ ~Io!Exceeds(Ent(v, c), Ent(v, a))
                  /\ \A w \in VM \ {v} : \A m \in DOMAIN streams[w] : ~Io!Meet(Ent(v, c), Ent(w, m))
  BY DEF Io!Disciplined, Ent

(* The first of a set of numbers.                                           *)
LEMMA FirstFree ==
    ASSUME NEW S, S \subseteq Nat, S # {}
    PROVE  Io!Min(S) \in S /\ \A n \in S : Io!Min(S) <= n
<1>1. PICK n \in S : \A m \in S : ~(<<m, n>> \in OpToRel(<, Nat))
  BY NatLessThanWellFounded, WFMin
<1>2. \A m \in S : n <= m
  <2> TAKE m \in S
  <2>1. n \in Nat /\ m \in Nat /\ ~(m < n)
    BY <1>1 DEF OpToRel
  <2> QED
    BY <2>1
<1> QED
  BY <1>2 DEF Io!Min

(* The requests of v, those it is done with and the one it is at, have      *)
(* entries.                                                                 *)
LEMMA Requests ==
    ASSUME SmTypes, NEW v \in VM
    PROVE  /\ \A n \in 1 .. ioat[v] : n \in DOMAIN streams[v]
           /\ ioat[v] < Len(streams[v]) => ioat[v] + 1 \in DOMAIN streams[v] /\ ioat[v] + 1 \in 1 .. ioat[v] + 1
           /\ \A n \in DOMAIN streams[v] :
                  Ent(v, n) \in [mask : Io!Id, id : Io!Id, valid : BOOLEAN] /\ Ent(v, n).valid
           /\ DOMAIN streams[v] = 1 .. Len(streams[v]) /\ ioat[v] \in Nat /\ Len(streams[v]) \in Nat
<1>1. /\ streams[v] \in Seq(Io!Request) /\ ioat[v] \in Nat /\ ioat[v] <= Len(streams[v])
      /\ global_mask[v] \in Io!Id
  BY DEF SmTypes
<1>2. DOMAIN streams[v] = 1 .. Len(streams[v]) /\ Len(streams[v]) \in Nat
  BY <1>1
<1>3. ASSUME NEW n \in DOMAIN streams[v]
      PROVE  Ent(v, n) \in [mask : Io!Id, id : Io!Id, valid : BOOLEAN] /\ Ent(v, n).valid
  <2>1. streams[v][n].mask \in Io!Id /\ streams[v][n].id \in Io!Id
    <3>1. streams[v][n] \in Io!Request
      BY <1>1, <1>2
    <3> QED
      BY <3>1 DEF Io!Request
  <2> QED
    BY <1>1, <2>1 DEF Ent, Io!Entry, Io!Id
<1> QED
  BY <1>1, <1>2, <1>3

(* An entry names at most one VM, and none when it is blank.                *)
LEMMA NamesOne ==
    ASSUME SmTypes, SmContexts, NEW k \in Io!Sme
    PROVE  /\ \A v, w \in VM : Names(k, v) /\ Names(k, w) => v = w
           /\ \A v \in VM : Names(k, v) => smr[k] # Io!Blank /\ banks[s2cr[k]] = v
  BY DEF SmContexts, Names, Io!Blank

(* An entry in the middle of its set-up is claimed; a claimed entry is      *)
(* allocated.                                                               *)
LEMMA ClaimsHeld ==
    ASSUME SmTypes, SmClaims
    PROVE  /\ \A k : Io!InSetup(k) => Claimed(k)
           /\ \A k : Claimed(k) => k \in sme_bitmap
           /\ \A k : Io!InSetup(k) <=> \E w \in VM : Claims(w, k) /\ iopc[w] = "bind"
  BY DEF SmClaims, Claimed, Claims, Io!InSetup

(* What v finds where it names its bank: one of its own entries, which it   *)
(* may have given up before, but then it does not exceed it again.          *)
LEMMA Found ==
    ASSUME SmTypes, SmContexts, SmClaims, SmContent, SmGivenUp,
           NEW v \in VM, v \notin stopped, iopc[v] = "match",
           NEW k \in sme_bitmap, Names(k, v), Io!Meet(Wanted(v), smr[k])
    PROVE  /\ \E n \in 1 .. ioat[v] : smr[k] = Ent(v, n)
           /\ Claimed(k) => ~Io!Exceeds(Wanted(v), smr[k])
<1>0. k \in Io!Sme
  BY DEF SmTypes
<1>1. ioat[v] < Len(streams[v]) /\ ioat[v] + 1 \in DOMAIN streams[v]
  BY Requests DEF SmTypes
<1>2. \A b : Reached(v, b) => b \in 1 .. ioat[v]
  BY DEF Reached, Working
<1>3. ASSUME Claimed(k)
      PROVE  \E a \in 1 .. ioat[v] : smr[k] = Ent(v, a) /\ ~Io!InSetup(k) /\ ~Io!Exceeds(Wanted(v), smr[k])
  <2>1. PICK a \in DOMAIN streams[v], b \in DOMAIN streams[v] :
            /\ a < b /\ Reached(v, b) /\ Io!Exceeds(Ent(v, b), Ent(v, a))
            /\ ~Io!InSetup(k) => smr[k] = Ent(v, a)
    BY <1>0, <1>3 DEF SmGivenUp
  <2>2. b \in 1 .. ioat[v] /\ a \in 1 .. ioat[v] /\ b < ioat[v] + 1
    <3>1. a \in Nat /\ 1 <= a /\ b \in 1 .. ioat[v] /\ ioat[v] \in Nat
      BY <1>2, <2>1, Requests
    <3> QED
      BY <2>1, <3>1
  <2>3. /\ ~Io!Exceeds(Wanted(v), Ent(v, a))
        /\ \A w \in VM \ {v} : \A m \in DOMAIN streams[w] : ~Io!Meet(Wanted(v), Ent(w, m))
    BY <1>1, <2>1, <2>2, Discipline DEF Wanted, SmTypes
  <2>4. ~Io!InSetup(k)
    <3> SUFFICES ASSUME NEW w \in VM, iopc[w] = "bind", iosme[w] = k PROVE FALSE
      BY DEF Io!InSetup
    <3>1. w # v /\ smr[k] = Wanted(w) /\ ioat[w] + 1 \in DOMAIN streams[w]
      BY Requests DEF SmContent, SmTypes
    <3> QED
      BY <2>3, <3>1 DEF Wanted
  <2> QED
    BY <2>1, <2>2, <2>3, <2>4
<1>4. ASSUME ~Claimed(k) PROVE \E n \in 1 .. ioat[v] : smr[k] = Ent(v, n)
  <2>1. ~Io!InSetup(k) /\ smr[k] # Io!Blank
    BY <1>0, <1>4, ClaimsHeld, NamesOne
  <2>2. PICK w \in VM : Names(k, w) /\ \E n \in 1 .. ioat[w] : smr[k] = Ent(w, n)
    BY <1>0, <2>1 DEF SmContent
  <2> QED
    BY <1>0, <2>2, NamesOne
<1> QED
  BY <1>3, <1>4

(* What a step that allocates nothing and writes no entry keeps: v goes on  *)
(* in its loop or stops.                                                    *)
LEMMA SmKept ==
    ASSUME SmTypes, SmContexts, SmClaims, SmContent, SmGivenUp, SmCover, SmApart,
           UNCHANGED <<streams, global_mask, ioat, iosme, smr, s2cr, sme_bitmap>>,
           \A k \in Io!Sme, v \in VM : Names(k, v)' <=> Names(k, v),
           iopc' \in [VM -> {"next", "match", "alloc", "write", "bind", "skipped"}],
           \A v \in VM : \/ iopc'[v] = iopc[v]
                         \/ iopc[v] = "next" /\ iopc'[v] \in {"match", "skipped"}
                         \/ iopc[v] = "alloc" /\ iopc'[v] = "skipped",
           stopped \subseteq stopped'
    PROVE  SmClaims' /\ SmContent' /\ SmGivenUp' /\ SmCover' /\ SmApart'
<1>1. \A v \in VM : \A k : Claims(v, k)' <=> Claims(v, k)
  BY DEF Claims, SmTypes
<1>2. \A k : (Claimed(k)' <=> Claimed(k)) /\ (Io!InSetup(k)' <=> Io!InSetup(k))
  BY <1>1 DEF Claimed, Io!InSetup, Claims
<1>3. \A v \in VM : Working(v) => Working(v)'
  BY DEF Working
<1>4. \A v \in VM : \A n : Ent(v, n)' = Ent(v, n) /\ Wanted(v)' = Wanted(v)
  BY DEF Ent, Wanted, Io!Entry
<1>5. \A v \in VM : \A b : Reached(v, b) => Reached(v, b)'
  BY <1>3 DEF Reached
<1>6. \A v \in VM, k \in Io!Sme : Live(k, v)' <=> Live(k, v)
  BY <1>2 DEF Live
<1>7. \A v \in VM : iopc'[v] \in {"write", "bind", "alloc"} => iopc'[v] = iopc[v]
  OBVIOUS
<1>8. SmClaims'
  BY <1>1, <1>7 DEF SmClaims
<1>9. SmContent'
  <2>1. \A k \in Io!Sme : ~Io!InSetup(k)' =>
           \/ s2cr'[k] \in ResetCtx /\ smr'[k] = Io!Blank
           \/ \E v \in VM : Names(k, v)' /\ \E n \in 1 .. ioat'[v] : smr'[k] = Ent(v, n)'
    BY <1>2, <1>4 DEF SmContent
  <2>2. Io!Beyond => \A k \in Io!Sme : s2cr'[k] \in ResetCtx \/ \E v \in VM : Names(k, v)'
    BY DEF SmContent
  <2>3. \A v \in VM : iopc'[v] = "bind" => smr'[iosme'[v]] = Wanted(v)'
    BY <1>4, <1>7 DEF SmContent
  <2>4. \A k \in sme_bitmap' : ~Claimed(k)' => smr'[k].valid
    BY <1>2 DEF SmContent
  <2> QED
    BY <2>1, <2>2, <2>3, <2>4 DEF SmContent
<1>10. SmGivenUp'
  <2> SUFFICES ASSUME NEW k \in Io!Sme, NEW v \in VM, (k \notin sme_bitmap \/ Claimed(k)), Names(k, v)
               PROVE  \E a, b \in DOMAIN streams[v] :
                          /\ a < b /\ Reached(v, b)' /\ Io!Exceeds(Ent(v, b)', Ent(v, a)')
                          /\ ~Io!InSetup(k)' => smr'[k] = Ent(v, a)'
    BY <1>2 DEF SmGivenUp
  <2> QED
    BY <1>2, <1>4, <1>5 DEF SmGivenUp
<1>11. SmCover'
  <2> SUFFICES ASSUME NEW v \in VM, NEW n \in 1 .. ioat[v]
               PROVE  \/ \E k \in Io!Sme : Live(k, v)' /\ Includes(smr'[k], Ent(v, n)')
                      \/ Working(v)' /\ Includes(Wanted(v)', Ent(v, n)')
    BY DEF SmCover
  <2> QED
    BY <1>3, <1>4, <1>6 DEF SmCover
<1>12. SmApart'
  BY <1>4, <1>6, <1>7 DEF SmApart
<1> QED
  BY <1>8, <1>9, <1>10, <1>11, <1>12

(* A step that touches no entry and nobody who allocates or searches.       *)
LEMMA HolesKept ==
    ASSUME SmHoles, UNCHANGED <<streams, global_mask, smr, sme_bitmap>>,
           \A v \in VM : iopc[v] \in {"alloc", "match"} => iopc'[v] = iopc[v],
           sme_held => sme_held'
    PROVE  SmHoles'
<1>1. Leftover' = Leftover
  BY DEF Leftover
<1>2. \A w \in VM : \A k : Stands(w, k) => Stands(w, k)'
  BY DEF Stands, Ent, Io!Entry
<1> QED
  BY <1>1, <1>2 DEF SmHoles

(* VMs hold different banks, so that a bank that is free is one of the      *)
(* first, which are as many as VMs.                                         *)
LEMMA BankFree ==
    ASSUME SmTypes, SmContexts, Io!Beyond, NEW v \in VM, ctx_id[v] = Io!None,
           NEW c \in Io!Ctx, \A b \in Io!Ctx : banks[b] = Io!None => c <= b
    PROVE  c \notin ResetCtx
<1> SUFFICES ASSUME c \in ResetCtx PROVE FALSE
  OBVIOUS
<1> DEFINE S == 0 .. c - 1
           T == VM \ {v}
           f == [b \in S |-> banks[b]]
<1>0. Cardinality(VM) \in Nat /\ c \in Nat /\ Cardinality(VM) <= c
  BY SmConstants, IoCardinality, FS_CardinalityType DEF Io!Ctx, Io!Beyond
<1>1. ASSUME NEW b \in S PROVE b \in Io!Ctx /\ banks[b] \in T /\ ctx_id[banks[b]] = b
  <2>1. b \in Io!Ctx /\ ~(c <= b)
    BY <1>0, SmConstants DEF Io!Ctx
  <2>2. banks[b] # Io!None /\ banks[b] \in VM
    BY <2>1 DEF SmTypes
  <2>3. ctx_id[banks[b]] = b /\ b # Io!None
    BY <1>0, <2>1, <2>2 DEF SmContexts, Io!None
  <2> QED
    BY <2>1, <2>2, <2>3
<1>2. f \in Injection(S, T)
  <2>1. f \in [S -> T]
    BY <1>1
  <2>2. ASSUME NEW a \in S, NEW b \in S, f[a] = f[b] PROVE a = b
    BY <1>1, <2>2
  <2> QED
    BY <2>1, <2>2 DEF Injection, IsInjective
<1>3. IsFiniteSet(T) /\ Cardinality(T) = Cardinality(VM) - 1
  BY SmConstants, FS_RemoveElement
<1>4. Cardinality(S) = c
  <2>1. Cardinality(S) = IF 0 > c - 1 THEN 0 ELSE c - 1 - 0 + 1
    BY <1>0, FS_Interval
  <2> QED
    BY <1>0, <2>1
<1>5. Cardinality(S) <= Cardinality(T)
  <2> HIDE DEF S, T, f
  <2> QED
    BY <1>2, <1>3, FS_Injection
<1> QED
  BY <1>0, <1>3, <1>4, <1>5

(* iommu_vm_arch_init_ctx                                                   *)
LEMMA SmInitCtx ==
    ASSUME SmParts, UNCHANGED <<streams, global_mask>>,
           NEW v \in VM, Io!iommu_vm_arch_init_ctx(v)
    PROVE  SmParts'
<1> USE DEF SmParts
<1> DEFINE c == Io!smmu_alloc_ctxbnk
           free == {b \in Io!Ctx : banks[b] = Io!None}
<1>1. /\ iopc[v] = "next" /\ ioat[v] < Len(streams[v]) /\ v \notin stopped
      /\ UNCHANGED <<ioat, iosme, sme_held, sme_bitmap, smr, s2cr>>
      /\ \/ iopc' = [iopc EXCEPT ![v] = "match"] /\ stopped' = stopped
         \/ iopc' = [iopc EXCEPT ![v] = "skipped"] /\ stopped' = stopped
         \/ iopc' = iopc /\ stopped' = stopped \cup {v}
  BY DEF Io!iommu_vm_arch_init_ctx, Io!Asks, Io!Goto, Io!Failed
<1>2. \/ /\ UNCHANGED <<ctx_id, banks>>
         /\ iopc' = [iopc EXCEPT ![v] = "match"] => ctx_id[v] # Io!None
      \/ /\ ctx_id[v] = Io!None /\ c \in free /\ \A b \in free : c <= b
         /\ ctx_id' = [ctx_id EXCEPT ![v] = c] /\ banks' = [banks EXCEPT ![c] = v]
  <2>1. CASE ctx_id[v] # Io!None
    BY <2>1 DEF Io!iommu_vm_arch_init_ctx
  <2>2. CASE ctx_id[v] = Io!None /\ c = Io!None
    <3>1. UNCHANGED <<ctx_id, banks>> /\ Io!Failed(v)
      BY <2>2 DEF Io!iommu_vm_arch_init_ctx
    <3>2. iopc' # [iopc EXCEPT ![v] = "match"]
      BY <1>1, <3>1 DEF Io!Failed, Io!Goto, SmTypes
    <3> QED
      BY <3>1, <3>2
  <2>3. CASE ctx_id[v] = Io!None /\ c # Io!None
    <3>1. free # {} /\ c = Io!Min(free) /\ free \subseteq Nat
      BY <2>3 DEF Io!smmu_alloc_ctxbnk, Io!Ctx
    <3>2. c \in free /\ \A b \in free : c <= b
      <4> HIDE DEF free, c
      <4> QED
        BY <3>1, FirstFree
    <3>3. ctx_id' = [ctx_id EXCEPT ![v] = c] /\ banks' = [banks EXCEPT ![c] = v]
      BY <2>3 DEF Io!iommu_vm_arch_init_ctx, Io!smmu_write_ctxbnk
    <3> QED
      BY <2>3, <3>2, <3>3
  <2> QED
    BY <2>1, <2>2, <2>3
<1>0. \A k : Io!InSetup(k)' <=> Io!InSetup(k)
  BY <1>1 DEF Io!InSetup, SmTypes
<1>3. SmContexts' /\ ctx_id' \in [VM -> Io!Ctx \cup {Io!None}] /\ banks' \in [Io!Ctx -> VM \cup {Io!None}]
      /\ \A k \in Io!Sme, w \in VM : Names(k, w)' <=> Names(k, w)
  <2>1. CASE UNCHANGED <<ctx_id, banks>> /\ (iopc' = [iopc EXCEPT ![v] = "match"] => ctx_id[v] # Io!None)
    <3>1. \A k \in Io!Sme, w \in VM : Names(k, w)' <=> Names(k, w)
      BY <1>0, <1>1, <2>1 DEF Names
    <3>2. \A w \in VM : iopc'[w] = iopc[w] \/ iopc'[w] = "skipped" \/ ctx_id[w] # Io!None
      BY <1>1, <2>1 DEF SmTypes
    <3>3. SmContexts'
      BY <2>1, <3>2 DEF SmContexts
    <3> QED
      BY <2>1, <3>1, <3>3 DEF SmTypes
  <2>2. CASE /\ ctx_id[v] = Io!None /\ c \in free /\ \A b \in free : c <= b
             /\ ctx_id' = [ctx_id EXCEPT ![v] = c] /\ banks' = [banks EXCEPT ![c] = v]
    <3>1. /\ c \in Io!Ctx /\ banks[c] = Io!None /\ c # Io!None /\ v # Io!None
          /\ Io!Beyond => c \notin ResetCtx
      <4>1. c \in Io!Ctx /\ banks[c] = Io!None
        BY <2>2
      <4>2. Io!Beyond => c \notin ResetCtx
        <5>1. \A b \in Io!Ctx : banks[b] = Io!None => c <= b
          BY <2>2
        <5> HIDE DEF c
        <5> QED
          BY <2>2, <4>1, <5>1, BankFree
      <4> QED
        BY <4>1, <4>2, SmConstants DEF Io!None, Io!Ctx
    <3> HIDE DEF c, free
    <3>2. ASSUME NEW k \in Io!Sme, NEW w \in VM PROVE Names(k, w)' <=> Names(k, w)
      <4>1. ASSUME s2cr[k] = c, smr[k].valid, Io!Beyond \/ ~Io!InSetup(k) PROVE FALSE
        <5>1. \A u \in VM : ~Names(k, u)
          <6> SUFFICES ASSUME NEW u \in VM, Names(k, u) PROVE FALSE
            OBVIOUS
          <6>1. banks[s2cr[k]] = u
            BY NamesOne
          <6> QED
            BY <3>1, <4>1, <6>1, SmConstants DEF Io!None
        <5>2. CASE Io!Beyond
          BY <3>1, <4>1, <5>1, <5>2 DEF SmContent
        <5>3. CASE ~Io!InSetup(k)
          BY <4>1, <5>1, <5>3 DEF SmContent, Io!Blank
        <5> QED
          BY <4>1, <5>2, <5>3
      <4>2. CASE w = v
        <5>1. ~Names(k, v) /\ ctx_id'[v] = c
          BY <2>2 DEF Names, SmTypes
        <5> QED
          BY <1>0, <1>1, <4>1, <4>2, <5>1 DEF Names
      <4>3. CASE w # v
        <5>1. ctx_id'[w] = ctx_id[w]
          BY <2>2, <4>3 DEF SmTypes
        <5> QED
          BY <1>0, <1>1, <5>1 DEF Names
      <4> QED
        BY <4>2, <4>3
    <3>3. ctx_id' \in [VM -> Io!Ctx \cup {Io!None}] /\ banks' \in [Io!Ctx -> VM \cup {Io!None}]
      BY <2>2, <3>1 DEF SmTypes
    <3>4. /\ ctx_id'[v] = c /\ \A w \in VM \ {v} : ctx_id'[w] = ctx_id[w]
          /\ banks'[c] = v /\ \A b \in Io!Ctx \ {c} : banks'[b] = banks[b]
      BY <2>2, <3>1 DEF SmTypes
    <3>5. \A w \in VM \ {v} : iopc'[w] = iopc[w]
      BY <1>1 DEF SmTypes
    <3>6. ASSUME NEW w \in VM \ {v}, ctx_id[w] # Io!None PROVE banks'[ctx_id[w]] = w
      <4>1. banks[ctx_id[w]] = w /\ ctx_id[w] \in Io!Ctx
        BY <3>6 DEF SmContexts, SmTypes
      <4>2. ctx_id[w] # c
        BY <3>1, <4>1, SmConstants DEF Io!None
      <4> QED
        BY <3>4, <4>1, <4>2
    <3>7. ASSUME NEW b \in Io!Ctx \ {c}, banks[b] # Io!None PROVE ctx_id'[banks[b]] = b
      <4>1. banks[b] \in VM /\ ctx_id[banks[b]] = b
        BY <3>7 DEF SmContexts, SmTypes
      <4>2. banks[b] # v
        BY <2>2, <4>1, SmConstants DEF Io!None, Io!Ctx
      <4> QED
        BY <3>4, <4>1, <4>2
    <3>8. SmContexts'
      <4>1. \A w \in VM : ctx_id'[w] # Io!None => banks'[ctx_id'[w]] = w
        BY <3>4, <3>6
      <4>2. \A w \in VM : iopc'[w] \in {"match", "alloc", "write", "bind"} => ctx_id'[w] # Io!None
        BY <3>1, <3>4, <3>5 DEF SmContexts
      <4>3. \A b \in Io!Ctx : banks'[b] # Io!None => ctx_id'[banks'[b]] = b
        BY <3>4, <3>7
      <4>4. Io!Beyond => \A b \in ResetCtx : banks'[b] = Io!None
        BY <3>1, <3>4, SmConstants DEF SmContexts
      <4> QED
        BY <4>1, <4>2, <4>3, <4>4 DEF SmContexts
    <3> QED
      BY <3>2, <3>3, <3>8
  <2> QED
    BY <1>2, <2>1, <2>2
<1> HIDE DEF c, free
<1>4. iopc' \in [VM -> {"next", "match", "alloc", "write", "bind", "skipped"}]
      /\ (\A w \in VM : iopc'[w] = iopc[w] \/ (iopc[w] = "next" /\ iopc'[w] \in {"match", "skipped"}))
      /\ (\A w \in VM : iopc[w] \in {"alloc", "match"} => iopc'[w] = iopc[w])
      /\ stopped \subseteq stopped'
  BY <1>1 DEF SmTypes
<1>5. SmTypes'
  BY <1>1, <1>3, <1>4 DEF SmTypes
<1>6. SmClaims' /\ SmContent' /\ SmGivenUp' /\ SmCover' /\ SmApart'
  BY <1>1, <1>3, <1>4, SmKept
<1>7. SmHoles'
  BY <1>1, <1>4, HolesKept
<1> QED
  BY <1>3, <1>5, <1>6, <1>7

(* smmu_compatible_sme_exists: at most one entry is given up, one of the    *)
(* VM's own that the request exceeds, and none when the search ends at a    *)
(* compatible entry, which covers the request.                              *)
LEMMA SmSearch ==
    ASSUME SmParts, NEW v \in VM, Io!smmu_compatible_sme_exists(v)
    PROVE  \E past \in SUBSET sme_bitmap :
               /\ sme_bitmap' = sme_bitmap \ past
               /\ \A k \in past : Live(k, v) /\ Io!Exceeds(Wanted(v), smr[k])
               /\ \A j, k \in past : j = k
               /\ \/ /\ iopc' = [iopc EXCEPT ![v] = "alloc"]
                     /\ UNCHANGED <<ioat, stopped, sme_held>>
                     /\ \A k \in sme_bitmap \ past : ~Io!Meet(Wanted(v), smr[k])
                  \/ /\ iopc' = [iopc EXCEPT ![v] = "next"] /\ ioat' = [ioat EXCEPT ![v] = @ + 1]
                     /\ UNCHANGED <<stopped, sme_held>>
                     /\ past = {}
                     /\ \E k \in Io!Sme : Live(k, v) /\ Includes(smr[k], Wanted(v))
                  \/ UNCHANGED <<iopc, ioat>> /\ stopped' = stopped \cup {v} /\ sme_held'
<1> USE DEF SmParts
<1> DEFINE hits == {k \in sme_bitmap : Io!Overlaps(v, k)}
           ends == {k \in hits : ~(Io!Compatible(v, k) /\ Io!Larger(v, k))}
           past == {k \in hits : \A e \in ends : k < e}
           e0 == Io!Min(ends)
<1>1. /\ v \notin stopped /\ iopc[v] = "match" /\ ~sme_held
      /\ ioat[v] < Len(streams[v])
      /\ sme_bitmap' = sme_bitmap \ past
      /\ \/ ends = {} /\ Io!Goto(v, "alloc") /\ UNCHANGED <<stopped, sme_held>>
         \/ ends # {} /\ Io!Compatible(v, e0) /\ Io!Added(v) /\ UNCHANGED <<stopped, sme_held>>
         \/ ends # {} /\ ~Io!Compatible(v, e0) /\ Io!ErrorInLock(v)
  BY DEF Io!smmu_compatible_sme_exists, Io!Asks
<1>2. ctx_id[v] # Io!None /\ ioat[v] + 1 \in DOMAIN streams[v] /\ sme_bitmap \subseteq Nat
  <2>1. sme_bitmap \subseteq Nat
    BY SmConstants DEF SmTypes, Io!Sme
  <2> QED
    BY <1>1, <2>1, Requests DEF SmContexts
<1>3. \A k : Io!Overlaps(v, k) <=> Io!Meet(Wanted(v), smr[k])
  BY DEF Io!Overlaps, Io!Meet, Wanted, Ent, Io!Entry, Io!PrepMask, Io!Asked, Io!SymDiff
<1>4. ASSUME NEW k \in hits, Io!Compatible(v, k)
      PROVE  Names(k, v) /\ (Wanted(v).mask \subseteq smr[k].mask \/ smr[k].mask \subseteq Wanted(v).mask)
  <2>1. /\ k \in Io!Sme /\ Io!Meet(Wanted(v), smr[k]) /\ s2cr[k] = ctx_id[v] /\ banks[s2cr[k]] = v
        /\ Wanted(v).mask \subseteq smr[k].mask \/ smr[k].mask \subseteq Wanted(v).mask
    <3>1. s2cr[k] = ctx_id[v] /\ k \in Io!Sme /\ Io!Meet(Wanted(v), smr[k])
      BY <1>3, <1>4 DEF Io!Compatible, SmTypes
    <3>2. Wanted(v).mask \subseteq smr[k].mask \/ smr[k].mask \subseteq Wanted(v).mask
      BY <1>4 DEF Io!Compatible, Wanted, Ent, Io!Entry, Io!PrepMask, Io!Asked
    <3> QED
      BY <1>2, <3>1, <3>2 DEF SmContexts
  <2>2. Io!Separate(streams, global_mask) => ~Io!InSetup(k) /\ smr[k] # Io!Blank
    <3> SUFFICES ASSUME Io!Separate(streams, global_mask) PROVE ~Io!InSetup(k) /\ smr[k] # Io!Blank
      OBVIOUS
    <3>1. ~Io!Meet(Wanted(v), Io!Blank)
      BY <1>2 DEF Io!Separate, Wanted, Ent
    <3>2. ASSUME NEW w \in VM, iopc[w] = "bind", iosme[w] = k PROVE FALSE
      <4>1. w # v /\ smr[k] = Wanted(w) /\ ioat[w] + 1 \in DOMAIN streams[w]
        BY <1>1, <3>2, Requests DEF SmContent, SmTypes
      <4>2. ~Io!Meet(Wanted(v), Wanted(w))
        BY <1>2, <4>1 DEF Io!Separate, Wanted, Ent
      <4> QED
        BY <2>1, <4>1, <4>2
    <3> QED
      BY <2>1, <3>1, <3>2 DEF Io!InSetup
  <2>3. smr[k].valid
    <3>1. CASE Io!InSetup(k)
      <4>1. PICK w \in VM : iopc[w] = "bind" /\ iosme[w] = k
        BY <3>1 DEF Io!InSetup
      <4>2. smr[k] = Wanted(w) /\ ioat[w] + 1 \in DOMAIN streams[w]
        BY <4>1, Requests DEF SmContent, SmTypes
      <4> QED
        BY <4>2, Requests DEF Wanted
    <3>2. CASE ~Io!InSetup(k)
      <4>1. v # Io!None
        BY SmConstants DEF Io!None
      <4>2. ~(s2cr[k] \in ResetCtx /\ smr[k] = Io!Blank)
        BY <2>1, <2>2, <4>1 DEF SmContexts, SmTypes
      <4> QED
        BY <2>1, <3>2, <4>2 DEF SmContent, Names
    <3> QED
      BY <3>1, <3>2
  <2> QED
    BY <1>2, <2>1, <2>2, <2>3 DEF Names, SmTypes
<1>5. \A k : Io!Overlaps(v, k) /\ Io!Larger(v, k) <=> Io!Exceeds(Wanted(v), smr[k])
  BY <1>3 DEF Io!Exceeds, Io!Larger, Wanted, Ent, Io!Entry, Io!PrepMask, Io!Asked
<1>6. \A k \in hits \ ends : Live(k, v) /\ Io!Exceeds(Wanted(v), smr[k])
  <2> TAKE k \in hits \ ends
  <2>1. k \in sme_bitmap /\ Names(k, v) /\ Io!Meet(Wanted(v), smr[k]) /\ Io!Exceeds(Wanted(v), smr[k])
    BY <1>3, <1>4, <1>5
  <2>2. ~Claimed(k)
    BY <1>1, <2>1, Found
  <2> QED
    BY <2>1, <2>2 DEF Live
<1>7. past \subseteq hits \ ends
  <2> SUFFICES ASSUME NEW k \in ends PROVE k \notin past
    OBVIOUS
  <2>1. k \in Nat /\ ~(k < k)
    BY <1>2
  <2> QED
    BY <2>1
<1>8. \A k \in past : Live(k, v) /\ Io!Exceeds(Wanted(v), smr[k])
  BY <1>6, <1>7
<1>9. ASSUME NEW j \in past, NEW k \in past PROVE j = k
  <2>1. /\ j \in sme_bitmap /\ Names(j, v) /\ Io!Meet(Wanted(v), smr[j])
        /\ k \in sme_bitmap /\ Names(k, v) /\ Io!Meet(Wanted(v), smr[k])
    BY <1>8 DEF Live, Io!Exceeds
  <2>2. PICK a \in 1 .. ioat[v] : smr[j] = Ent(v, a)
    BY <1>1, <2>1, Found
  <2>3. PICK b \in 1 .. ioat[v] : smr[k] = Ent(v, b)
    BY <1>1, <2>1, Found
  <2>4. a \in DOMAIN streams[v] /\ b \in DOMAIN streams[v] /\ a < ioat[v] + 1 /\ b < ioat[v] + 1
    BY Requests
  <2>5. Io!Meet(smr[j], smr[k])
    <3>1. /\ Io!Exceeds(Ent(v, ioat[v] + 1), Ent(v, a)) /\ Io!Exceeds(Ent(v, ioat[v] + 1), Ent(v, b))
          /\ Io!Disciplined(streams, global_mask)
      BY <1>8, <2>2, <2>3 DEF Wanted, SmTypes
    <3>2. Io!Meet(Ent(v, a), Ent(v, b))
      BY <1>2, <2>4, <3>1, Discipline
    <3> QED
      BY <2>2, <2>3, <3>2
  <2> QED
    BY <1>8, <2>5 DEF SmApart, SmTypes
<1>10. ASSUME ends # {}, Io!Compatible(v, e0)
       PROVE  past = {} /\ \E k \in Io!Sme : Live(k, v) /\ Includes(smr[k], Wanted(v))
  <2>1. e0 \in ends
    <3>1. ends \subseteq Nat
      BY <1>2
    <3> HIDE DEF ends
    <3> QED
      BY <1>10, <3>1, FirstFree
  <2>2. e0 \in sme_bitmap /\ Names(e0, v) /\ Io!Meet(Wanted(v), smr[e0]) /\ ~Io!Larger(v, e0)
    BY <1>3, <1>4, <1>10, <2>1
  <2>3. Wanted(v).mask \subseteq smr[e0].mask
    BY <1>10, <2>2 DEF Io!Compatible, Io!Larger, Wanted, Ent, Io!Entry, Io!PrepMask, Io!Asked
  <2>4. Includes(smr[e0], Wanted(v))
    BY <2>2, <2>3, Meeting
  <2>5. PICK k \in Io!Sme : Live(k, v) /\ Includes(smr[k], Wanted(v)) /\ Wanted(v).mask \subseteq smr[k].mask
    <3>1. CASE Claimed(e0)
      <4>1. PICK n \in 1 .. ioat[v] : smr[e0] = Ent(v, n)
        BY <1>1, <2>2, Found
      <4>2. ~Working(v)
        BY <1>1 DEF Working
      <4>3. PICK k \in Io!Sme : Live(k, v) /\ Includes(smr[k], smr[e0])
        BY <4>1, <4>2 DEF SmCover
      <4>4. Includes(smr[k], Wanted(v))
        BY <2>4, <4>3, Meeting
      <4> QED
        BY <4>3, <4>4 DEF Includes
    <3>2. CASE ~Claimed(e0)
      BY <2>2, <2>3, <2>4, <3>2 DEF Live, SmTypes
    <3> QED
      BY <3>1, <3>2
  <2>6. ASSUME NEW j \in past PROVE FALSE
    <3>1. Live(j, v) /\ Io!Exceeds(Wanted(v), smr[j])
      BY <1>8
    <3>2. Io!Meet(smr[k], smr[j])
      BY <2>5, <3>1, Meeting DEF Io!Exceeds
    <3>3. j = k
      BY <2>5, <3>1, <3>2 DEF SmApart, SmTypes, Live
    <3> QED
      BY <2>5, <3>1, <3>3 DEF Io!Exceeds
  <2> QED
    BY <2>5, <2>6
<1>11. CASE ends = {} /\ Io!Goto(v, "alloc") /\ UNCHANGED <<stopped, sme_held>>
  <2>1. \A k \in sme_bitmap \ past : ~Io!Meet(Wanted(v), smr[k])
    BY <1>3, <1>11
  <2> HIDE DEF past
  <2> QED
    BY <1>1, <1>7, <1>8, <1>9, <1>11, <2>1 DEF Io!Goto
<1>12. CASE ends # {} /\ Io!Compatible(v, e0) /\ Io!Added(v) /\ UNCHANGED <<stopped, sme_held>>
  BY <1>1, <1>8, <1>9, <1>10, <1>12 DEF Io!Added
<1>13. CASE ends # {} /\ ~Io!Compatible(v, e0) /\ Io!ErrorInLock(v)
  BY <1>1, <1>8, <1>9, <1>13 DEF Io!ErrorInLock
<1> QED
  BY <1>1, <1>11, <1>12, <1>13

(* smmu_compatible_sme_exists                                               *)
LEMMA SmMatch ==
    ASSUME SmParts, UNCHANGED <<streams, global_mask>>,
           NEW v \in VM, Io!smmu_compatible_sme_exists(v)
    PROVE  SmParts'
<1> USE DEF SmParts
<1>1. /\ iopc[v] = "match" /\ v \notin stopped /\ ~sme_held /\ ioat[v] < Len(streams[v])
      /\ UNCHANGED <<iosme, ctx_id, banks, smr, s2cr>>
  BY DEF Io!smmu_compatible_sme_exists, Io!Asks
<1>2. PICK past \in SUBSET sme_bitmap :
               /\ sme_bitmap' = sme_bitmap \ past
               /\ \A k \in past : Live(k, v) /\ Io!Exceeds(Wanted(v), smr[k])
               /\ \A j, k \in past : j = k
               /\ \/ /\ iopc' = [iopc EXCEPT ![v] = "alloc"]
                     /\ UNCHANGED <<ioat, stopped, sme_held>>
                     /\ \A k \in sme_bitmap \ past : ~Io!Meet(Wanted(v), smr[k])
                  \/ /\ iopc' = [iopc EXCEPT ![v] = "next"] /\ ioat' = [ioat EXCEPT ![v] = @ + 1]
                     /\ UNCHANGED <<stopped, sme_held>>
                     /\ past = {}
                     /\ \E k \in Io!Sme : Live(k, v) /\ Includes(smr[k], Wanted(v))
                  \/ UNCHANGED <<iopc, ioat>> /\ stopped' = stopped \cup {v} /\ sme_held'
  BY SmSearch
<1>3. /\ ioat' \in [VM -> Nat] /\ iopc' \in [VM -> {"next", "match", "alloc", "write", "bind", "skipped"}]
      /\ \A w \in VM \ {v} : iopc'[w] = iopc[w] /\ ioat'[w] = ioat[w]
      /\ ioat[v] \in Nat /\ ioat'[v] \in {ioat[v], ioat[v] + 1} /\ iopc'[v] \in {"match", "alloc", "next"}
      /\ stopped \subseteq stopped'
  <2>1. ioat \in [VM -> Nat] /\ iopc \in [VM -> {"next", "match", "alloc", "write", "bind", "skipped"}]
    BY DEF SmTypes
  <2>2. \/ iopc' = [iopc EXCEPT ![v] = "alloc"] /\ ioat' = ioat /\ stopped' = stopped
        \/ /\ iopc' = [iopc EXCEPT ![v] = "next"] /\ ioat' = [ioat EXCEPT ![v] = @ + 1]
           /\ stopped' = stopped
        \/ iopc' = iopc /\ ioat' = ioat /\ stopped' = stopped \cup {v}
    BY <1>2
  <2>3. CASE iopc' = [iopc EXCEPT ![v] = "alloc"] /\ ioat' = ioat /\ stopped' = stopped
    BY <2>1, <2>3
  <2>4. CASE /\ iopc' = [iopc EXCEPT ![v] = "next"] /\ ioat' = [ioat EXCEPT ![v] = @ + 1]
             /\ stopped' = stopped
    BY <2>1, <2>4
  <2>5. CASE iopc' = iopc /\ ioat' = ioat /\ stopped' = stopped \cup {v}
    BY <1>1, <2>1, <2>5
  <2> QED
    BY <2>2, <2>3, <2>4, <2>5
<1>4. /\ ~Working(v)
      /\ ioat'[v] = ioat[v] => Working(v)'
      /\ \A w \in VM \ {v} : Working(w) => Working(w)'
      /\ iopc'[v] = "next" => ioat'[v] = ioat[v] + 1
  BY <1>1, <1>2, <1>3 DEF Working, SmTypes
<1>5. \A w \in VM : \A n : Ent(w, n)' = Ent(w, n)
  BY DEF Ent, Io!Entry
<1>6. \A w \in VM : ioat'[w] = ioat[w] => Wanted(w)' = Wanted(w)
  BY <1>5 DEF Wanted, Ent, Io!Entry
<1>7. \A w \in VM : \A k : Claims(w, k)' <=> Claims(w, k)
  BY <1>1, <1>3 DEF Claims
<1>8. \A k : (Claimed(k)' <=> Claimed(k)) /\ (Io!InSetup(k)' <=> Io!InSetup(k))
  BY <1>1, <1>3, <1>7 DEF Claimed, Io!InSetup
<1>9. \A w \in VM : \A k : Names(k, w)' <=> Names(k, w)
  BY <1>1, <1>8 DEF Names
<1>10. \A w \in VM : \A k : Live(k, w)' <=> Live(k, w) /\ k \notin past
  BY <1>2, <1>9, <1>8 DEF Live
<1>11. \A w \in VM : \A b : Reached(w, b) => Reached(w, b)'
  <2> TAKE w \in VM
  <2> TAKE b
  <2>1. CASE w = v
    <3>1. 1 .. ioat[v] \subseteq 1 .. ioat'[v]
      BY <1>3
    <3> QED
      BY <1>4, <2>1, <3>1 DEF Reached
  <2>2. CASE w # v
    BY <1>3, <1>4, <2>2 DEF Reached
  <2> QED
    BY <2>1, <2>2
<1>12. \A b : b = ioat[v] + 1 => Reached(v, b)'
  <2>1. CASE ioat'[v] = ioat[v]
    BY <1>4, <2>1 DEF Reached
  <2>2. CASE ioat'[v] = ioat[v] + 1
    BY <1>3, <2>2 DEF Reached
  <2> QED
    BY <1>3, <2>1, <2>2
<1>13. past \subseteq Io!Sme /\ \A k \in past : smr[k].valid /\ ~Claimed(k) /\ Names(k, v)
                               /\ \E n \in 1 .. ioat[v] : smr[k] = Ent(v, n)
  <2>1. past \subseteq Io!Sme
    BY DEF SmTypes
  <2>2. ASSUME NEW k \in past
        PROVE  /\ smr[k].valid /\ ~Claimed(k) /\ Names(k, v)
               /\ \E n \in 1 .. ioat[v] : smr[k] = Ent(v, n)
    BY <1>1, <1>2, Found DEF Live, Io!Exceeds, SmContent
  <2> QED
    BY <2>1, <2>2
<1>14. SmTypes'
  <2>1. \A w \in VM : ioat'[w] <= Len(streams'[w]) /\ (iopc'[w] # "next" => ioat'[w] < Len(streams'[w]))
    <3>1. ioat'[v] <= Len(streams[v]) /\ (iopc'[v] # "next" => ioat'[v] < Len(streams[v]))
      BY <1>1, <1>2, <1>3, Requests DEF SmTypes
    <3> QED
      BY <1>3, <3>1 DEF SmTypes
  <2> QED
    BY <1>1, <1>2, <1>3, <2>1 DEF SmTypes
<1>15. SmContexts'
  BY <1>1, <1>3 DEF SmContexts
<1>16. SmClaims'
  <2>1. \A w \in VM : iopc'[w] \in {"write", "bind"} => iosme'[w] \in sme_bitmap'
    <3> SUFFICES ASSUME NEW w \in VM, iopc'[w] \in {"write", "bind"} PROVE iosme[w] \in sme_bitmap'
      BY <1>1
    <3>1. iopc[w] \in {"write", "bind"} /\ Claims(w, iosme[w])
      BY <1>3 DEF Claims
    <3>2. iosme[w] \in sme_bitmap /\ iosme[w] \notin past
      BY <1>13, <3>1 DEF SmClaims, Claimed
    <3> QED
      BY <1>2, <3>2
  <2> QED
    BY <1>7, <2>1 DEF SmClaims
<1>17. SmContent'
  <2>1. \A w \in VM : \A n \in 1 .. ioat[w] : n \in 1 .. ioat'[w]
    <3>1. 1 .. ioat[v] \subseteq 1 .. ioat'[v]
      BY <1>3
    <3> QED
      BY <1>3, <3>1
  <2>2. \A k \in Io!Sme : ~Io!InSetup(k)' =>
           \/ s2cr'[k] \in ResetCtx /\ smr'[k] = Io!Blank
           \/ \E w \in VM : Names(k, w)' /\ \E n \in 1 .. ioat'[w] : smr'[k] = Ent(w, n)'
    BY <1>1, <1>5, <1>9, <1>8, <2>1 DEF SmContent
  <2>3. Io!Beyond => \A k \in Io!Sme : s2cr'[k] \in ResetCtx \/ \E w \in VM : Names(k, w)'
    BY <1>1, <1>9 DEF SmContent
  <2>4. \A w \in VM : iopc'[w] = "bind" => smr'[iosme'[w]] = Wanted(w)'
    BY <1>1, <1>3, <1>6 DEF SmContent
  <2>5. \A k \in sme_bitmap' : ~Claimed(k)' => smr'[k].valid
    BY <1>1, <1>2, <1>8 DEF SmContent
  <2> QED
    BY <2>2, <2>3, <2>4, <2>5 DEF SmContent
<1>18. SmGivenUp'
  <2> SUFFICES ASSUME NEW k \in Io!Sme, NEW w \in VM, k \notin sme_bitmap' \/ Claimed(k), Names(k, w)
               PROVE  \E a, b \in DOMAIN streams[w] :
                          /\ a < b /\ Reached(w, b)' /\ Io!Exceeds(Ent(w, b), Ent(w, a))
                          /\ ~Io!InSetup(k) => smr[k] = Ent(w, a)
    BY <1>1, <1>5, <1>9, <1>8 DEF SmGivenUp
  <2>1. CASE k \in past
    <3>1. w = v
      BY <1>13, <2>1, NamesOne
    <3>2. PICK n \in 1 .. ioat[v] : smr[k] = Ent(v, n)
      BY <1>13, <2>1
    <3>3. n \in DOMAIN streams[v] /\ ioat[v] + 1 \in DOMAIN streams[v] /\ n < ioat[v] + 1
      BY <1>1, Requests
    <3>4. Io!Exceeds(Ent(v, ioat[v] + 1), Ent(v, n))
      BY <1>2, <2>1, <3>2 DEF Wanted
    <3> QED
      BY <1>12, <3>1, <3>2, <3>3, <3>4
  <2>2. CASE k \notin past
    <3>1. k \notin sme_bitmap \/ Claimed(k)
      BY <1>2, <2>2
    <3> QED
      BY <1>11, <3>1 DEF SmGivenUp
  <2> QED
    BY <2>1, <2>2
<1>19. SmCover'
  <2> SUFFICES ASSUME NEW w \in VM, NEW n \in 1 .. ioat'[w]
               PROVE  \/ \E k \in Io!Sme : Live(k, w)' /\ Includes(smr[k], Ent(w, n))
                      \/ Working(w)' /\ Includes(Wanted(w)', Ent(w, n))
    BY <1>1, <1>5 DEF SmCover
  <2>1. CASE w # v
    BY <1>1, <1>2, <1>3, <1>4, <1>6, <1>10, <2>1, NamesOne DEF SmCover, Live, SmTypes
  <2>2. CASE w = v /\ ioat'[v] = ioat[v]
    <3>1. PICK k \in Io!Sme : Live(k, v) /\ Includes(smr[k], Ent(v, n))
      BY <1>4, <2>2 DEF SmCover
    <3>2. CASE k \in past
      <4>1. Includes(Wanted(v), Ent(v, n))
        BY <1>2, <3>1, <3>2, Meeting
      <4> QED
        BY <1>4, <1>6, <2>2, <4>1
    <3>3. CASE k \notin past
      BY <1>10, <2>2, <3>1, <3>3
    <3> QED
      BY <3>2, <3>3
  <2>3. CASE w = v /\ ioat'[v] # ioat[v]
    <3>1. past = {} /\ ioat'[v] = ioat[v] + 1 /\ \E k \in Io!Sme : Live(k, v) /\ Includes(smr[k], Wanted(v))
      BY <1>2, <1>3, <2>3
    <3>2. CASE n = ioat[v] + 1
      BY <1>10, <2>3, <3>1, <3>2 DEF Wanted
    <3>3. CASE n # ioat[v] + 1
      <4>1. n \in 1 .. ioat[v]
        BY <1>3, <2>3, <3>1, <3>3
      <4> QED
        BY <1>4, <1>10, <2>3, <3>1, <4>1 DEF SmCover
    <3> QED
      BY <3>2, <3>3
  <2> QED
    BY <2>1, <2>2, <2>3
<1>20. SmApart'
  <2> SUFFICES ASSUME NEW w \in VM
               PROVE  /\ \A j, k \in Io!Sme : Live(j, w)' /\ Live(k, w)' /\ j # k => ~Io!Meet(smr[j], smr[k])
                      /\ iopc'[w] \in {"alloc", "write", "bind"} =>
                             \A k \in Io!Sme : Live(k, w)' => ~Io!Meet(Wanted(w)', smr[k])
    BY <1>1 DEF SmApart
  <2>1. CASE w # v
    BY <1>3, <1>6, <1>10, <2>1 DEF SmApart
  <2>2. CASE w = v
    <3>1. \A k \in Io!Sme : iopc'[v] \in {"alloc", "write", "bind"} /\ Live(k, v)' => ~Io!Meet(Wanted(v)', smr[k])
      BY <1>1, <1>2, <1>3, <1>6, <1>10 DEF Live
    <3> QED
      BY <1>10, <2>2, <3>1 DEF SmApart
  <2> QED
    BY <2>1, <2>2
<1>21. SmHoles'
  <2>1. Leftover' = Leftover \cup past /\ sme_bitmap' \cup Leftover' = sme_bitmap \cup Leftover
    BY <1>1, <1>2, <1>13 DEF Leftover
  <2>2. PICK f \in [Leftover -> VM] : /\ \A j, k \in Leftover : f[j] = f[k] => j = k
                                      /\ \A k \in Leftover : Stands(f[k], k)
    BY DEF SmHoles
  <2>3. \A k \in Leftover : f[k] # v /\ Stands(f[k], k)'
    <3> TAKE k \in Leftover
    <3>1. Stands(f[k], k) /\ f[k] \in VM
      BY <2>2
    <3>2. iopc[f[k]] = "alloc"
      BY <1>1, <3>1 DEF Stands
    <3>3. f[k] # v
      BY <1>1, <3>2
    <3> QED
      BY <1>3, <3>1, <3>2, <3>3 DEF Stands
  <2>4. past # {} => \A k \in past : Stands(v, k)'
    <3> SUFFICES ASSUME NEW k \in past PROVE Stands(v, k)'
      OBVIOUS
    <3>1. CASE iopc'[v] = "alloc"
      BY <3>1 DEF Stands
    <3>2. CASE iopc'[v] # "alloc"
      <4>1. sme_held' /\ iopc'[v] = "match"
        BY <1>1, <1>2, <1>3, <3>2 DEF SmTypes
      <4>2. PICK n \in 1 .. ioat[v] : smr[k] = Ent(v, n)
        BY <1>13
      <4>3. n \in DOMAIN streams'[v] /\ smr'[k] = Ent(v, n)'
        BY <1>1, <1>5, <4>2, Requests
      <4> QED
        BY <4>1, <4>3 DEF Stands
    <3> QED
      BY <3>1, <3>2
  <2>5. PICK g : g = [k \in Leftover \cup past |-> IF k \in past THEN v ELSE f[k]]
    OBVIOUS
  <2>6. g \in [Leftover' -> VM] /\ \A j, k \in Leftover' : g[j] = g[k] => j = k
    <3>1. g \in [Leftover' -> VM]
      BY <2>1, <2>5
    <3>2. \A j, k \in Leftover' : g[j] = g[k] => j = k
      BY <1>2, <2>1, <2>2, <2>3, <2>5
    <3> QED
      BY <3>1, <3>2
  <2>7. \A k \in Leftover' : Stands(g[k], k)'
    <3> TAKE k \in Leftover'
    <3>1. CASE k \in past
      <4>1. g[k] = v
        BY <2>5, <3>1
      <4> QED
        BY <2>4, <3>1, <4>1
    <3>2. CASE k \notin past
      <4>1. k \in Leftover /\ g[k] = f[k]
        BY <2>1, <2>5, <3>2
      <4> QED
        BY <2>3, <4>1
    <3> QED
      BY <3>1, <3>2
  <2>8. \A k \in sme_bitmap' \cup Leftover' : \A j \in Io!Sme : j < k => j \in sme_bitmap' \cup Leftover'
    BY <2>1 DEF SmHoles
  <2>9. \E h \in [Leftover' -> VM] : /\ \A j, k \in Leftover' : h[j] = h[k] => j = k
                                     /\ \A k \in Leftover' : Stands(h[k], k)'
    BY <2>6, <2>7
  <2> QED
    BY <2>8, <2>9 DEF SmHoles
<1> QED
  BY <1>14, <1>15, <1>16, <1>17, <1>18, <1>19, <1>20, <1>21

(* smmu_alloc_sme                                                           *)
LEMMA SmAlloc ==
    ASSUME SmParts, UNCHANGED <<streams, global_mask>>, NEW v \in VM, Io!smmu_alloc_sme(v)
    PROVE  SmParts'
<1> USE DEF SmParts
<1> DEFINE free == Io!Sme \ sme_bitmap
           e == Io!Min(free)
<1>1. /\ iopc[v] = "alloc" /\ v \notin stopped /\ ~sme_held /\ ioat[v] < Len(streams[v])
      /\ UNCHANGED <<ctx_id, banks, sme_held, smr, s2cr>>
  BY DEF Io!smmu_alloc_sme, Io!Asks
<1>2. ASSUME free = {}, Io!Failed(v), UNCHANGED <<sme_bitmap, iosme>> PROVE SmParts'
  <2>1. /\ ioat' = ioat /\ stopped \subseteq stopped'
        /\ iopc' = iopc \/ iopc' = [iopc EXCEPT ![v] = "skipped"]
    BY <1>2 DEF Io!Failed, Io!Goto
  <2>2. /\ iopc' \in [VM -> {"next", "match", "alloc", "write", "bind", "skipped"}]
        /\ \A w \in VM : iopc'[w] = iopc[w] \/ (iopc[w] = "alloc" /\ iopc'[w] = "skipped")
    BY <1>1, <2>1 DEF SmTypes
  <2>3. SmTypes'
    BY <1>1, <1>2, <2>1, <2>2 DEF SmTypes
  <2>4. SmContexts'
    BY <1>1, <2>2 DEF SmContexts
  <2>5. \A k \in Io!Sme, w \in VM : Names(k, w)' <=> Names(k, w)
    <3>1. \A k : Io!InSetup(k)' <=> Io!InSetup(k)
      BY <1>1, <1>2, <2>2 DEF Io!InSetup
    <3> QED
      BY <1>1, <3>1 DEF Names
  <2>6. SmClaims' /\ SmContent' /\ SmGivenUp' /\ SmCover' /\ SmApart'
    BY <1>1, <1>2, <2>1, <2>2, <2>5, SmKept
  <2>7. Leftover = {} /\ Leftover' = {}
    BY <1>2 DEF Leftover
  <2>8. SmHoles'
    <3> DEFINE f == [k \in {} |-> v]
    <3>1. f \in [Leftover' -> VM]
      BY <2>7
    <3>2. \E h \in [Leftover' -> VM] : /\ \A j, k \in Leftover' : h[j] = h[k] => j = k
                                       /\ \A k \in Leftover' : Stands(h[k], k)'
      BY <2>7, <3>1
    <3>3. \A k \in sme_bitmap' \cup Leftover' : \A j \in Io!Sme : j < k => j \in sme_bitmap' \cup Leftover'
      BY <1>2, <2>7 DEF SmHoles
    <3> QED
      BY <3>2, <3>3 DEF SmHoles
  <2> QED
    BY <2>3, <2>4, <2>6, <2>8
<1>3. ASSUME free # {}, sme_bitmap' = sme_bitmap \cup {e}, iosme' = [iosme EXCEPT ![v] = e],
             Io!Goto(v, "write"), stopped' = stopped
      PROVE  SmParts'
  <2>1. e \in Io!Sme \ sme_bitmap /\ \A k \in Io!Sme \ sme_bitmap : e <= k
    <3>1. free \subseteq Nat
      BY SmConstants DEF Io!Sme
    <3> HIDE DEF free
    <3>2. e \in free /\ \A k \in free : e <= k
      BY <1>3, <3>1, FirstFree
    <3> QED
      BY <3>2 DEF free
  <2>2. /\ iopc' \in [VM -> {"next", "match", "alloc", "write", "bind", "skipped"}]
        /\ iosme' \in [VM -> Io!Sme \cup {Io!None}] /\ iosme'[v] = e /\ iopc'[v] = "write" /\ ioat' = ioat
        /\ \A w \in VM \ {v} : iopc'[w] = iopc[w] /\ iosme'[w] = iosme[w]
        /\ sme_bitmap' \subseteq Io!Sme /\ Io!Sme \subseteq Nat
    <3>1. iopc' = [iopc EXCEPT ![v] = "write"] /\ ioat' = ioat
      BY <1>3 DEF Io!Goto
    <3>2. /\ iopc \in [VM -> {"next", "match", "alloc", "write", "bind", "skipped"}]
          /\ iosme \in [VM -> Io!Sme \cup {Io!None}]
      BY DEF SmTypes
    <3>3. e \in Io!Sme /\ sme_bitmap \subseteq Io!Sme
      BY <2>1 DEF SmTypes
    <3>4. sme_bitmap' \subseteq Io!Sme /\ Io!Sme \subseteq Nat
      <4>1. Io!Sme \subseteq Nat
        BY SmConstants DEF Io!Sme
      <4> HIDE DEF e, free
      <4> QED
        BY <1>3, <3>3, <4>1
    <3> HIDE DEF e, free
    <3>5. iosme' \in [VM -> Io!Sme \cup {Io!None}] /\ iosme'[v] = e /\ \A w \in VM \ {v} : iosme'[w] = iosme[w]
      BY <1>3, <3>2, <3>3
    <3>6. /\ iopc' \in [VM -> {"next", "match", "alloc", "write", "bind", "skipped"}] /\ iopc'[v] = "write"
          /\ \A w \in VM \ {v} : iopc'[w] = iopc[w]
      BY <3>1, <3>2
    <3> QED
      BY <3>1, <3>4, <3>5, <3>6
  <2> HIDE DEF e, free
  <2>3. \A w \in VM : \A k : Claims(w, k)' <=> Claims(w, k) \/ (w = v /\ k = e)
    BY <1>1, <2>2 DEF Claims
  <2>4. ~Claimed(e) /\ \A k : Claimed(k)' <=> Claimed(k) \/ k = e
    BY <2>1, <2>3, ClaimsHeld DEF Claimed
  <2>5. \A k : Io!InSetup(k)' <=> Io!InSetup(k)
    BY <1>1, <2>2 DEF Io!InSetup
  <2>6. \A w \in VM : \A k : (Names(k, w)' <=> Names(k, w)) /\ (Live(k, w)' <=> Live(k, w))
    BY <1>1, <1>3, <2>1, <2>4, <2>5 DEF Names, Live
  <2>7. \A w \in VM : \A n : Ent(w, n)' = Ent(w, n) /\ Wanted(w)' = Wanted(w)
    BY <2>2 DEF Ent, Wanted, Io!Entry
  <2>8. \A w \in VM : /\ Working(w) => Working(w)'
                      /\ \A b : Reached(w, b) => Reached(w, b)'
    BY <1>1, <1>3, <2>2 DEF Working, Reached
  <2>9. SmTypes'
    BY <1>1, <1>3, <2>2 DEF SmTypes
  <2>10. SmContexts'
    BY <1>1, <2>2 DEF SmContexts
  <2>11. SmClaims'
    <3>1. \A w \in VM : iopc'[w] \in {"write", "bind"} => iosme'[w] \in sme_bitmap'
      BY <1>3, <2>2 DEF SmClaims
    <3>2. \A u, w \in VM, k \in Io!Sme : Claims(u, k)' /\ Claims(w, k)' => u = w
      BY <2>3, <2>4 DEF SmClaims, Claimed
    <3> QED
      BY <3>1, <3>2 DEF SmClaims
  <2>12. SmContent'
    <3>1. \A k \in Io!Sme : ~Io!InSetup(k)' =>
             \/ s2cr'[k] \in ResetCtx /\ smr'[k] = Io!Blank
             \/ \E w \in VM : Names(k, w)' /\ \E n \in 1 .. ioat'[w] : smr'[k] = Ent(w, n)'
      BY <1>1, <2>2, <2>5, <2>6, <2>7 DEF SmContent
    <3>2. Io!Beyond => \A k \in Io!Sme : s2cr'[k] \in ResetCtx \/ \E w \in VM : Names(k, w)'
      BY <1>1, <2>6 DEF SmContent
    <3>3. \A w \in VM : iopc'[w] = "bind" => smr'[iosme'[w]] = Wanted(w)'
      BY <1>1, <2>2, <2>7 DEF SmContent
    <3>4. \A k \in sme_bitmap' : ~Claimed(k)' => smr'[k].valid
      BY <1>1, <1>3, <2>4 DEF SmContent
    <3> QED
      BY <3>1, <3>2, <3>3, <3>4 DEF SmContent
  <2>13. SmGivenUp'
    <3> SUFFICES ASSUME NEW k \in Io!Sme, NEW w \in VM, k \notin sme_bitmap' \/ Claimed(k)', Names(k, w)
                 PROVE  \E a, b \in DOMAIN streams[w] :
                            /\ a < b /\ Reached(w, b)' /\ Io!Exceeds(Ent(w, b), Ent(w, a))
                            /\ ~Io!InSetup(k) => smr[k] = Ent(w, a)
      BY <1>1, <2>5, <2>6, <2>7 DEF SmGivenUp
    <3>1. k \notin sme_bitmap \/ Claimed(k)
      BY <1>3, <2>1, <2>4
    <3> QED
      BY <2>8, <3>1 DEF SmGivenUp
  <2>14. SmCover'
    <3> SUFFICES ASSUME NEW w \in VM, NEW n \in 1 .. ioat[w]
                 PROVE  \/ \E k \in Io!Sme : Live(k, w)' /\ Includes(smr[k], Ent(w, n))
                        \/ Working(w)' /\ Includes(Wanted(w)', Ent(w, n))
      BY <1>1, <2>2, <2>7 DEF SmCover
    <3> QED
      BY <2>6, <2>7, <2>8 DEF SmCover
  <2>15. SmApart'
    BY <1>1, <2>2, <2>6, <2>7 DEF SmApart
  <2>16. SmHoles'
    <3>1. Leftover' = Leftover \ {e}
      BY <1>1, <1>3 DEF Leftover
    <3>2. PICK f \in [Leftover -> VM] : /\ \A j, k \in Leftover : f[j] = f[k] => j = k
                                        /\ \A k \in Leftover : Stands(f[k], k)
      BY DEF SmHoles
    <3>3. \A k \in Leftover : f[k] \in VM /\ iopc[f[k]] = "alloc"
      BY <1>1, <3>2 DEF Stands
    <3>4. Leftover # {} => e \in Leftover
      <4> SUFFICES ASSUME NEW k \in Leftover PROVE e \in Leftover
        OBVIOUS
      <4>1. k \in Io!Sme \ sme_bitmap /\ e \in Nat /\ k \in Nat /\ e <= k
        BY <2>1, <2>2 DEF Leftover
      <4>2. CASE e = k
        BY <4>2
      <4>3. CASE e < k
        BY <2>1, <4>3 DEF SmHoles
      <4> QED
        BY <4>1, <4>2, <4>3
    <3>5. PICK g : g = [k \in Leftover \ {e} |-> IF f[k] = v THEN f[e] ELSE f[k]]
      OBVIOUS
    <3>6. g \in [Leftover' -> VM] /\ \A j, k \in Leftover' : g[j] = g[k] => j = k
      <4>1. g \in [Leftover' -> VM]
        BY <3>1, <3>3, <3>4, <3>5
      <4>2. \A j, k \in Leftover' : g[j] = g[k] => j = k
        BY <3>1, <3>2, <3>4, <3>5
      <4> QED
        BY <4>1, <4>2
    <3>7. \A k \in Leftover' : Stands(g[k], k)'
      <4> SUFFICES ASSUME NEW k \in Leftover' PROVE iopc'[g[k]] = "alloc"
        BY DEF Stands
      <4>1. k \in Leftover /\ e \in Leftover /\ k # e /\ f[k] # f[e]
        BY <3>1, <3>2, <3>4
      <4>2. g[k] \in VM \ {v} /\ iopc[g[k]] = "alloc"
        BY <3>1, <3>3, <3>5, <4>1
      <4> QED
        BY <2>2, <4>2
    <3>8. \E h \in [Leftover' -> VM] : /\ \A j, k \in Leftover' : h[j] = h[k] => j = k
                                       /\ \A k \in Leftover' : Stands(h[k], k)'
      BY <3>6, <3>7
    <3>9. \A k \in sme_bitmap' \cup Leftover' : \A j \in Io!Sme : j < k => j \in sme_bitmap' \cup Leftover'
      <4> SUFFICES ASSUME NEW k \in sme_bitmap \cup Leftover \cup {e}, NEW j \in Io!Sme, j < k
                   PROVE  j \in sme_bitmap \cup Leftover \cup {e}
        BY <1>3, <3>1
      <4>1. CASE k = e
        BY <2>1, <2>2, <4>1
      <4>2. CASE k # e
        BY <4>2 DEF SmHoles
      <4> QED
        BY <4>1, <4>2
    <3> QED
      BY <3>8, <3>9 DEF SmHoles
  <2> QED
    BY <2>9, <2>10, <2>11, <2>12, <2>13, <2>14, <2>15, <2>16
<1> QED
  BY <1>2, <1>3 DEF Io!smmu_alloc_sme

(* smmu_write_sme: the entry is not bound yet, so that nothing that         *)
(* translates changes.                                                      *)
LEMMA SmWrite ==
    ASSUME SmParts, UNCHANGED <<streams, global_mask>>, NEW v \in VM, Io!smmu_write_sme(v)
    PROVE  SmParts'
<1> USE DEF SmParts
<1> DEFINE k0 == iosme[v]
<1>1. /\ iopc[v] = "write" /\ v \notin stopped /\ ~sme_held /\ ioat[v] < Len(streams[v])
      /\ k0 \in sme_bitmap /\ k0 \in Io!Sme /\ Claims(v, k0)
      /\ UNCHANGED <<iosme, ctx_id, banks, sme_bitmap, s2cr, sme_held, stopped, ioat>>
      /\ smr' = [smr EXCEPT ![k0] = Wanted(v)] /\ iopc' = [iopc EXCEPT ![v] = "bind"]
  <2>1. iopc[v] = "write" /\ v \notin stopped /\ ~sme_held /\ ioat[v] < Len(streams[v])
    BY DEF Io!smmu_write_sme, Io!Asks
  <2>2. k0 \in sme_bitmap /\ k0 \in Io!Sme /\ Claims(v, k0)
    BY <2>1 DEF SmClaims, SmTypes, Claims
  <2>3. Wanted(v) = [mask |-> Io!PrepMask(v), id |-> Io!Asked(v).id, valid |-> TRUE]
    BY DEF Wanted, Ent, Io!Entry, Io!PrepMask, Io!Asked
  <2> QED
    BY <2>1, <2>2, <2>3 DEF Io!smmu_write_sme, Io!Goto
<1> HIDE DEF k0
<1>2. /\ iopc' \in [VM -> {"next", "match", "alloc", "write", "bind", "skipped"}] /\ iopc'[v] = "bind"
      /\ \A w \in VM \ {v} : iopc'[w] = iopc[w]
  BY <1>1 DEF SmTypes
<1>3. /\ smr' \in [Io!Sme -> [mask : Io!Id, id : Io!Id, valid : BOOLEAN]] /\ smr'[k0] = Wanted(v)
      /\ \A k \in Io!Sme \ {k0} : smr'[k] = smr[k]
  <2>1. Wanted(v) \in [mask : Io!Id, id : Io!Id, valid : BOOLEAN]
    BY <1>1, Requests DEF Wanted
  <2>2. smr \in [Io!Sme -> [mask : Io!Id, id : Io!Id, valid : BOOLEAN]]
    BY DEF SmTypes
  <2> QED
    BY <1>1, <2>1, <2>2
<1>4. \A w \in VM : \A k : Claims(w, k)' <=> Claims(w, k)
  BY <1>1, <1>2 DEF Claims
<1>5. \A k : (Claimed(k)' <=> Claimed(k)) /\ (Io!InSetup(k)' <=> Io!InSetup(k) \/ k = k0)
  BY <1>1, <1>2, <1>4 DEF Claimed, Io!InSetup, k0
<1>6. \A w \in VM, k \in Io!Sme : /\ Names(k, w)' => Names(k, w)
                                  /\ Io!Beyond \/ k # k0 => (Names(k, w) => Names(k, w)')
  <2> TAKE w \in VM, k \in Io!Sme
  <2>1. CASE k # k0
    BY <1>1, <1>3, <1>5, <2>1 DEF Names
  <2>2. CASE k = k0
    <3>1. Io!Beyond \/ ~Names(k, w)'
      BY <1>5, <2>2 DEF Names
    <3>2. smr'[k].valid
      BY <1>1, <1>3, <2>2, Requests DEF Wanted
    <3>3. ASSUME Names(k, w)' PROVE smr[k].valid
      <4>1. ~Io!InSetup(k)
        <5> SUFFICES ASSUME NEW u \in VM, iopc[u] = "bind", iosme[u] = k PROVE FALSE
          BY DEF Io!InSetup
        <5>1. Claims(u, k0)
          BY <2>2 DEF Claims
        <5> QED
          BY <1>1, <5>1 DEF SmClaims
      <4>2. s2cr[k] = ctx_id[w] /\ ctx_id[w] # Io!None /\ banks[s2cr[k]] = w /\ w # Io!None
        BY <1>1, <3>3, SmConstants DEF Names, SmContexts, Io!None
      <4>3. s2cr[k] \notin ResetCtx
        BY <3>1, <3>3, <4>2 DEF SmContexts
      <4> QED
        BY <4>1, <4>3 DEF SmContent, Names
    <3>4. Names(k, w)' => Names(k, w)
      BY <1>1, <3>1, <3>3 DEF Names
    <3>5. Io!Beyond => (Names(k, w) => Names(k, w)')
      BY <1>1, <3>2 DEF Names
    <3> QED
      BY <2>2, <3>4, <3>5
  <2> QED
    BY <2>1, <2>2
<1>7. Claimed(k0) /\ \A w \in VM, k \in Io!Sme : (Live(k, w)' <=> Live(k, w)) /\ (Live(k, w) => k # k0 /\ smr'[k] = smr[k])
  <2>1. Claimed(k0)
    BY <1>1 DEF Claimed
  <2> QED
    BY <1>1, <1>3, <1>5, <1>6, <2>1 DEF Live
<1>8. \A w \in VM : \A n : Ent(w, n)' = Ent(w, n) /\ Wanted(w)' = Wanted(w)
  BY <1>1 DEF Ent, Wanted, Io!Entry
<1>9. \A w \in VM : /\ Working(w) => Working(w)'
                    /\ \A b : Reached(w, b) => Reached(w, b)'
  BY <1>1, <1>2 DEF Working, Reached
<1>10. SmTypes'
  BY <1>1, <1>2, <1>3 DEF SmTypes
<1>11. SmContexts'
  BY <1>1, <1>2 DEF SmContexts
<1>12. SmClaims'
  <2>1. \A w \in VM : iopc'[w] \in {"write", "bind"} => iosme'[w] \in sme_bitmap'
    BY <1>1, <1>2 DEF SmClaims, k0
  <2> QED
    BY <1>4, <2>1 DEF SmClaims
<1>13. SmContent'
  <2>1. \A k \in Io!Sme : ~Io!InSetup(k)' =>
           \/ s2cr'[k] \in ResetCtx /\ smr'[k] = Io!Blank
           \/ \E w \in VM : Names(k, w)' /\ \E n \in 1 .. ioat'[w] : smr'[k] = Ent(w, n)'
    <3> SUFFICES ASSUME NEW k \in Io!Sme, ~Io!InSetup(k), k # k0
                 PROVE  \/ s2cr[k] \in ResetCtx /\ smr[k] = Io!Blank
                        \/ \E w \in VM : Names(k, w) /\ \E n \in 1 .. ioat[w] : smr[k] = Ent(w, n)
      BY <1>1, <1>3, <1>5, <1>8, <1>6
    <3> QED
      BY DEF SmContent
  <2>2. Io!Beyond => \A k \in Io!Sme : s2cr'[k] \in ResetCtx \/ \E w \in VM : Names(k, w)'
    BY <1>1, <1>6 DEF SmContent
  <2>3. ASSUME NEW w \in VM, iopc'[w] = "bind" PROVE smr'[iosme'[w]] = Wanted(w)'
    <3>1. CASE w = v
      BY <1>1, <1>3, <1>8, <3>1 DEF k0
    <3>2. CASE w # v
      <4>1. iopc[w] = "bind" /\ Claims(w, iosme[w]) /\ iosme[w] \in Io!Sme
        BY <1>2, <2>3, <3>2 DEF Claims, SmClaims, SmTypes
      <4>2. iosme[w] # k0
        BY <1>1, <3>2, <4>1 DEF SmClaims
      <4> QED
        BY <1>1, <1>3, <1>8, <4>1, <4>2 DEF SmContent
    <3> QED
      BY <3>1, <3>2
  <2>4. \A k \in sme_bitmap' : ~Claimed(k)' => smr'[k].valid
    BY <1>1, <1>3, <1>5, <1>7 DEF SmContent, SmTypes
  <2> QED
    BY <2>1, <2>2, <2>3, <2>4 DEF SmContent
<1>14. SmGivenUp'
  <2> SUFFICES ASSUME NEW k \in Io!Sme, NEW w \in VM, k \notin sme_bitmap \/ Claimed(k), Names(k, w)
               PROVE  \E a, b \in DOMAIN streams[w] :
                          /\ a < b /\ Reached(w, b)' /\ Io!Exceeds(Ent(w, b), Ent(w, a))
                          /\ ~Io!InSetup(k) /\ k # k0 => smr[k] = Ent(w, a)
    BY <1>1, <1>3, <1>5, <1>8, <1>6 DEF SmGivenUp
  <2> QED
    BY <1>9 DEF SmGivenUp
<1>15. SmCover'
  <2> SUFFICES ASSUME NEW w \in VM, NEW n \in 1 .. ioat[w]
               PROVE  \/ \E k \in Io!Sme : Live(k, w)' /\ Includes(smr'[k], Ent(w, n))
                      \/ Working(w)' /\ Includes(Wanted(w)', Ent(w, n))
    BY <1>1, <1>8 DEF SmCover
  <2> QED
    BY <1>7, <1>8, <1>9 DEF SmCover
<1>16. SmApart'
  <2> SUFFICES ASSUME NEW w \in VM
               PROVE  /\ \A j, k \in Io!Sme : Live(j, w)' /\ Live(k, w)' /\ j # k => ~Io!Meet(smr'[j], smr'[k])
                      /\ iopc'[w] \in {"alloc", "write", "bind"} =>
                             \A k \in Io!Sme : Live(k, w)' => ~Io!Meet(Wanted(w)', smr'[k])
    BY DEF SmApart
  <2>1. iopc'[w] \in {"alloc", "write", "bind"} => iopc[w] \in {"alloc", "write", "bind"}
    BY <1>1, <1>2
  <2> QED
    BY <1>7, <1>8, <2>1 DEF SmApart
<1>17. SmHoles'
  <2>1. Leftover' = Leftover /\ k0 \notin Leftover
    BY <1>1, <1>3 DEF Leftover
  <2>2. ASSUME NEW w \in VM, NEW k \in Leftover, Stands(w, k) PROVE Stands(w, k)'
    <3>1. iopc[w] \in {"alloc", "match"} => iopc'[w] = iopc[w]
      BY <1>1, <1>2
    <3>2. smr'[k] = smr[k]
      BY <1>3, <2>1 DEF Leftover
    <3> QED
      BY <1>1, <1>8, <2>2, <3>1, <3>2 DEF Stands
  <2>3. PICK f \in [Leftover -> VM] : /\ \A j, k \in Leftover : f[j] = f[k] => j = k
                                      /\ \A k \in Leftover : Stands(f[k], k)
    BY DEF SmHoles
  <2>4. \A k \in Leftover : Stands(f[k], k)'
    BY <2>2, <2>3
  <2>5. \E h \in [Leftover' -> VM] : /\ \A j, k \in Leftover' : h[j] = h[k] => j = k
                                     /\ \A k \in Leftover' : Stands(h[k], k)'
    BY <2>1, <2>3, <2>4
  <2>6. \A k \in sme_bitmap' \cup Leftover' : \A j \in Io!Sme : j < k => j \in sme_bitmap' \cup Leftover'
    BY <1>1, <2>1 DEF SmHoles
  <2> QED
    BY <2>5, <2>6 DEF SmHoles
<1> QED
  BY <1>10, <1>11, <1>12, <1>13, <1>14, <1>15, <1>16, <1>17

(* smmu_write_s2c: the entry translates from now on.                        *)
LEMMA SmBind ==
    ASSUME SmParts, UNCHANGED <<streams, global_mask>>, NEW v \in VM, Io!smmu_write_s2c(v)
    PROVE  SmParts'
<1> USE DEF SmParts
<1> DEFINE k0 == iosme[v]
<1>1. /\ iopc[v] = "bind" /\ v \notin stopped /\ ioat[v] < Len(streams[v])
      /\ k0 \in sme_bitmap /\ k0 \in Io!Sme /\ Claims(v, k0) /\ ctx_id[v] # Io!None /\ ctx_id[v] \in Io!Ctx
      /\ UNCHANGED <<iosme, ctx_id, banks, sme_bitmap, smr, sme_held, stopped>>
      /\ s2cr' = [s2cr EXCEPT ![k0] = ctx_id[v]]
      /\ ioat' = [ioat EXCEPT ![v] = @ + 1] /\ iopc' = [iopc EXCEPT ![v] = "next"]
  <2>1. iopc[v] = "bind" /\ v \notin stopped /\ ioat[v] < Len(streams[v])
    BY DEF Io!smmu_write_s2c, Io!Asks
  <2>2. k0 \in sme_bitmap /\ k0 \in Io!Sme /\ Claims(v, k0)
    BY <2>1 DEF SmClaims, SmTypes, Claims
  <2>3. ctx_id[v] # Io!None /\ ctx_id[v] \in Io!Ctx
    BY <2>1 DEF SmContexts, SmTypes
  <2> QED
    BY <2>1, <2>2, <2>3 DEF Io!smmu_write_s2c, Io!Added
<1>2. /\ iopc' \in [VM -> {"next", "match", "alloc", "write", "bind", "skipped"}] /\ iopc'[v] = "next"
      /\ \A w \in VM \ {v} : iopc'[w] = iopc[w] /\ ioat'[w] = ioat[w]
      /\ ioat' \in [VM -> Nat] /\ ioat[v] \in Nat /\ ioat'[v] = ioat[v] + 1
  BY <1>1 DEF SmTypes
<1>3. /\ s2cr' \in [Io!Sme -> Io!Ctx] /\ s2cr'[k0] = ctx_id[v] /\ smr[k0] = Wanted(v)
      /\ \A k \in Io!Sme \ {k0} : s2cr'[k] = s2cr[k]
  BY <1>1 DEF SmTypes, SmContent
<1>4. ioat[v] + 1 \in DOMAIN streams[v] /\ ioat[v] + 1 \in 1 .. ioat'[v]
      /\ \A n \in 1 .. ioat[v] : n \in 1 .. ioat'[v]
  BY <1>1, <1>2, Requests
<1>5. \A w \in VM : \A k : Claims(w, k)' <=> Claims(w, k) /\ w # v
  BY <1>1, <1>2 DEF Claims
<1>6. \A k \in Io!Sme : (Claimed(k)' <=> Claimed(k) /\ k # k0) /\ (Io!InSetup(k)' <=> Io!InSetup(k) /\ k # k0)
  <2> TAKE k \in Io!Sme
  <2>1. Claimed(k)' <=> \E w \in VM : Claims(w, k) /\ w # v
    BY <1>5 DEF Claimed
  <2>2. Claims(v, k) => k = k0
    BY DEF Claims
  <2>3. \A w \in VM : Claims(w, k0) => w = v
    BY <1>1 DEF SmClaims
  <2>4. Io!InSetup(k)' <=> \E w \in VM : Claims(w, k) /\ w # v /\ iopc[w] = "bind"
    BY <1>1, <1>2 DEF Io!InSetup, Claims
  <2>5. Io!InSetup(k) <=> \E w \in VM : Claims(w, k) /\ iopc[w] = "bind"
    BY DEF Io!InSetup, Claims
  <2> HIDE DEF k0
  <2> QED
    BY <2>1, <2>2, <2>3, <2>4, <2>5 DEF Claimed
<1>7. \A w \in VM, k \in Io!Sme : Names(k, w)' <=> (k # k0 /\ Names(k, w)) \/ (k = k0 /\ w = v)
  <2> TAKE w \in VM, k \in Io!Sme
  <2>1. CASE k = k0
    <3>1. ctx_id[w] = ctx_id[v] => w = v
      BY <1>1 DEF SmContexts
    <3>2. smr'[k].valid
      BY <1>1, <1>3, <1>4, <2>1, Requests DEF Wanted
    <3> QED
      BY <1>1, <1>3, <1>6, <2>1, <3>1, <3>2 DEF Names
  <2>2. CASE k # k0
    BY <1>1, <1>3, <1>6, <2>2 DEF Names
  <2> QED
    BY <2>1, <2>2
<1>8. Claimed(k0) /\ Io!InSetup(k0)
  BY <1>1 DEF Claimed, Io!InSetup
<1> HIDE DEF k0
<1>9. \A w \in VM, k \in Io!Sme : Live(k, w)' <=> Live(k, w) \/ (k = k0 /\ w = v)
  <2> TAKE w \in VM, k \in Io!Sme
  <2>1. CASE k = k0
    BY <1>1, <1>7, <1>6, <1>8, <2>1 DEF Live
  <2>2. CASE k # k0
    BY <1>1, <1>7, <1>6, <2>2 DEF Live
  <2> QED
    BY <2>1, <2>2
<1>10. /\ \A w \in VM : \A n : Ent(w, n)' = Ent(w, n)
       /\ \A w \in VM \ {v} : Wanted(w)' = Wanted(w) /\ (Working(w)' <=> Working(w))
  BY <1>1, <1>2 DEF Ent, Wanted, Io!Entry, Working
<1>11. \A w \in VM : \A b : Reached(w, b) => Reached(w, b)'
  <2> TAKE w \in VM
  <2> TAKE b
  <2>1. CASE w = v
    BY <1>4, <2>1 DEF Reached
  <2>2. CASE w # v
    BY <1>2, <1>10, <2>2 DEF Reached
  <2> QED
    BY <2>1, <2>2
<1>12. SmTypes'
  <2>1. \A w \in VM : ioat'[w] <= Len(streams'[w]) /\ (iopc'[w] # "next" => ioat'[w] < Len(streams'[w]))
    <3>1. ioat'[v] <= Len(streams[v])
      BY <1>1, <1>2, Requests
    <3> QED
      BY <1>2, <3>1 DEF SmTypes
  <2> QED
    BY <1>1, <1>2, <1>3, <2>1 DEF SmTypes
<1>13. SmContexts'
  BY <1>1, <1>2 DEF SmContexts
<1>14. SmClaims'
  <2>1. \A w \in VM : iopc'[w] \in {"write", "bind"} => iosme'[w] \in sme_bitmap'
    BY <1>1, <1>2 DEF SmClaims
  <2> QED
    BY <1>5, <2>1 DEF SmClaims
<1>15. SmContent'
  <2>1. ASSUME NEW k \in Io!Sme, ~Io!InSetup(k)'
        PROVE  \/ s2cr'[k] \in ResetCtx /\ smr'[k] = Io!Blank
               \/ \E w \in VM : Names(k, w)' /\ \E n \in 1 .. ioat'[w] : smr'[k] = Ent(w, n)'
    <3>1. CASE k = k0
      <4>1. Names(k, v)' /\ \A n : n = ioat[v] + 1 => smr'[k] = Ent(v, n)'
        BY <1>1, <1>3, <1>7, <1>10, <3>1 DEF Wanted
      <4> QED
        BY <1>4, <4>1
    <3>2. CASE k # k0
      <4>1. \/ s2cr[k] \in ResetCtx /\ smr[k] = Io!Blank
            \/ \E w \in VM : Names(k, w) /\ \E n \in 1 .. ioat[w] : smr[k] = Ent(w, n)
        BY <1>6, <2>1, <3>2 DEF SmContent
      <4>2. \A w \in VM : \A n \in 1 .. ioat[w] : n \in 1 .. ioat'[w]
        BY <1>2, <1>4
      <4> QED
        BY <1>1, <1>3, <1>7, <1>10, <3>2, <4>1, <4>2
    <3> QED
      BY <3>1, <3>2
  <2>2. Io!Beyond => \A k \in Io!Sme : s2cr'[k] \in ResetCtx \/ \E w \in VM : Names(k, w)'
    BY <1>3, <1>7 DEF SmContent
  <2>3. ASSUME NEW w \in VM, iopc'[w] = "bind" PROVE smr'[iosme'[w]] = Wanted(w)'
    <3>1. w # v /\ iopc[w] = "bind"
      BY <1>2, <2>3
    <3> QED
      BY <1>1, <1>10, <3>1 DEF SmContent
  <2>4. ASSUME NEW k \in sme_bitmap', ~Claimed(k)' PROVE smr'[k].valid
    <3>1. CASE k = k0
      BY <1>1, <1>3, <1>4, <3>1, Requests DEF Wanted
    <3>2. CASE k # k0
      BY <1>1, <1>6, <2>4, <3>2 DEF SmContent, SmTypes
    <3> QED
      BY <3>1, <3>2
  <2> QED
    BY <2>1, <2>2, <2>3, <2>4 DEF SmContent
<1>16. SmGivenUp'
  <2> SUFFICES ASSUME NEW k \in Io!Sme, NEW w \in VM, k \notin sme_bitmap \/ Claimed(k), k # k0, Names(k, w)
               PROVE  \E a, b \in DOMAIN streams[w] :
                          /\ a < b /\ Reached(w, b)' /\ Io!Exceeds(Ent(w, b), Ent(w, a))
                          /\ ~Io!InSetup(k) => smr[k] = Ent(w, a)
    <3>1. \A k \in Io!Sme : k \notin sme_bitmap' \/ Claimed(k)' => k # k0 /\ (k \notin sme_bitmap \/ Claimed(k))
      BY <1>1, <1>6
    <3> QED
      BY <1>1, <1>7, <1>6, <1>10, <3>1 DEF SmGivenUp
  <2> QED
    BY <1>11 DEF SmGivenUp
<1>17. SmCover'
  <2> SUFFICES ASSUME NEW w \in VM, NEW n \in 1 .. ioat'[w]
               PROVE  \/ \E k \in Io!Sme : Live(k, w)' /\ Includes(smr[k], Ent(w, n))
                      \/ Working(w)' /\ Includes(Wanted(w)', Ent(w, n))
    BY <1>1, <1>10 DEF SmCover
  <2>1. CASE w # v
    BY <1>2, <1>9, <1>10, <2>1 DEF SmCover
  <2>2. CASE w = v /\ n = ioat[v] + 1
    <3>1. Includes(smr[k0], Ent(v, n)) /\ \A k \in Io!Sme : k = k0 => Live(k, v)'
      BY <1>3, <1>9, <2>2, Meeting DEF Wanted
    <3> QED
      BY <1>1, <2>2, <3>1
  <2>3. CASE w = v /\ n # ioat[v] + 1
    <3>1. n \in 1 .. ioat[v]
      BY <1>2, <2>3
    <3>2. \/ \E k \in Io!Sme : Live(k, v) /\ Includes(smr[k], Ent(v, n))
          \/ Includes(smr[k0], Ent(v, n))
      BY <1>3, <3>1 DEF SmCover
    <3> QED
      BY <1>1, <1>9, <2>3, <3>2
  <2> QED
    BY <2>1, <2>2, <2>3
<1>18. SmApart'
  <2>1. \A k \in Io!Sme : Live(k, v) => ~Io!Meet(smr[k0], smr[k]) /\ ~Io!Meet(smr[k], smr[k0])
    <3> TAKE k \in Io!Sme
    <3> HAVE Live(k, v)
    <3>1. ~Io!Meet(smr[k0], smr[k])
      BY <1>1, <1>3 DEF SmApart
    <3> QED
      BY <3>1, Meeting
  <2> SUFFICES ASSUME NEW w \in VM
               PROVE  /\ \A j, k \in Io!Sme : Live(j, w)' /\ Live(k, w)' /\ j # k => ~Io!Meet(smr[j], smr[k])
                      /\ iopc'[w] \in {"alloc", "write", "bind"} =>
                             \A k \in Io!Sme : Live(k, w)' => ~Io!Meet(Wanted(w)', smr[k])
    BY <1>1 DEF SmApart
  <2>2. CASE w = v
    BY <1>2, <1>9, <2>1, <2>2 DEF SmApart
  <2>3. CASE w # v
    BY <1>2, <1>9, <1>10, <2>3 DEF SmApart
  <2> QED
    BY <2>2, <2>3
<1>19. SmHoles'
  <2>1. \A w \in VM : iopc[w] \in {"alloc", "match"} => iopc'[w] = iopc[w]
    BY <1>1, <1>2
  <2> QED
    BY <1>1, <2>1, HolesKept
<1> QED
  BY <1>12, <1>13, <1>14, <1>15, <1>16, <1>17, <1>18, <1>19

(* Before anything is asked for.                                            *)
LEMMA SmStart ==
    ASSUME Io!InitUnit, streams \in [VM -> Seq(Io!Request)], global_mask \in [VM -> Io!Id],
           Io!Disciplined(streams, global_mask), Io!Beyond \/ Io!Separate(streams, global_mask)
    PROVE  SmParts
<1>1. /\ ioat = [v \in VM |-> 0] /\ iopc = [v \in VM |-> "next"] /\ iosme = [v \in VM |-> Io!None]
      /\ ctx_id = [v \in VM |-> Io!None] /\ banks = [c \in Io!Ctx |-> Io!None] /\ sme_bitmap = {}
      /\ smr = [k \in Io!Sme |-> Io!Blank]
  BY DEF Io!InitUnit, Io!smmu_init
<1>2. PICK c \in ResetCtx : s2cr = [k \in Io!Sme |-> c]
  BY DEF Io!InitUnit, Io!smmu_init
<1>3. ResetCtx \subseteq Io!Ctx
  BY SmConstants
<1>4. /\ \A v \in VM : ioat[v] = 0 /\ iopc[v] = "next" /\ ctx_id[v] = Io!None
      /\ \A k : ~Claimed(k) /\ ~Io!InSetup(k) /\ \A v \in VM : ~Live(k, v) /\ ~Names(k, v) /\ ~Claims(v, k)
  BY <1>1 DEF Claimed, Claims, Io!InSetup, Live, Names
<1>5. SmTypes
  <2>1. /\ smr \in [Io!Sme -> [mask : Io!Id, id : Io!Id, valid : BOOLEAN]]
        /\ s2cr \in [Io!Sme -> Io!Ctx]
    BY <1>1, <1>2, <1>3 DEF Io!Id, Io!Blank
  <2>2. \A v \in VM : ioat[v] <= Len(streams[v])
    <3> TAKE v \in VM
    <3>1. Len(streams[v]) \in Nat
      OBVIOUS
    <3> QED
      BY <1>4, <3>1
  <2>3. /\ ioat \in [VM -> Nat] /\ iosme \in [VM -> Io!Sme \cup {Io!None}]
        /\ ctx_id \in [VM -> Io!Ctx \cup {Io!None}] /\ banks \in [Io!Ctx -> VM \cup {Io!None}]
        /\ iopc \in [VM -> {"next", "match", "alloc", "write", "bind", "skipped"}]
    BY <1>1
  <2> QED
    BY <1>1, <1>4, <2>1, <2>2, <2>3 DEF SmTypes
<1>6. SmContexts
  BY <1>1, <1>3, <1>4 DEF SmContexts
<1>7. SmClaims
  BY <1>4 DEF SmClaims
<1>8. SmContent
  BY <1>1, <1>2, <1>4 DEF SmContent
<1>9. SmGivenUp
  BY <1>4 DEF SmGivenUp
<1>10. SmCover
  BY <1>4 DEF SmCover
<1>11. SmApart
  BY <1>4 DEF SmApart
<1>12. SmHoles
  <2>1. Leftover = {} /\ sme_bitmap = {}
    BY <1>1 DEF Leftover, Io!Blank
  <2>2. [k \in {} |-> Io!None] \in [Leftover -> VM]
    BY <2>1
  <2> QED
    BY <2>1, <2>2 DEF SmHoles
<1> QED
  BY <1>5, <1>6, <1>7, <1>8, <1>9, <1>10, <1>11, <1>12 DEF SmParts

(* Where an access goes when one entry alone matches it and is bound.       *)
LEMMA SmTarget ==
    ASSUME SmParts, iommu = "smmu", NEW s \in Io!Id
    PROVE  /\ \/ Io!Target(s) \in {Io!Fault, Io!Unbound}
              \/ \E k \in Io!Sme, v \in VM :
                     /\ Io!Hits(s) = {k} /\ Names(k, v) /\ Io!Target(s) = v
                     /\ \E n \in 1 .. ioat[v] : smr[k] = Ent(v, n)
           /\ \A k \in Io!Sme, v \in VM :
                  Io!Hits(s) = {k} /\ Names(k, v) /\ ~Io!InSetup(k) => Io!Target(s) = v
<1> USE DEF SmParts
<1> DEFINE t == CHOOSE k \in Io!Hits(s) : TRUE
<1>1. Io!Target(s) = IF Cardinality(Io!Hits(s)) # 1 THEN Io!Fault
                     ELSE IF Io!InSetup(t) THEN Io!Unbound ELSE banks[s2cr[t]]
  BY IoCardinality DEF Io!Target
<1>2. \A k : Io!Hits(s) = {k} => t = k /\ Cardinality(Io!Hits(s)) = 1
  <2> TAKE k
  <2> HAVE Io!Hits(s) = {k}
  <2>1. Cardinality({k}) = 1
    BY FS_Singleton
  <2> QED
    BY <2>1
<1>3. Cardinality(Io!Hits(s)) = 1 => Io!Hits(s) = {t}
  <2>1. IsFiniteSet(Io!Sme)
    <3>1. SmeNum - 1 \in Int /\ 0 \in Int
      BY SmConstants
    <3> QED
      BY <3>1, FS_Interval DEF Io!Sme
  <2>2. IsFiniteSet(Io!Hits(s))
    <3>1. Io!Hits(s) \subseteq Io!Sme
      BY DEF Io!Hits
    <3> QED
      BY <2>1, <3>1, FS_Subset
  <2>3. Cardinality(Io!Hits(s)) = 1 => \E x : Io!Hits(s) = {x}
    BY <2>2, FS_Singleton
  <2> QED
    BY <1>2, <2>3
<1>4. \A k \in Io!Sme, v \in VM : Names(k, v) => banks[s2cr[k]] = v
  BY DEF SmContexts, Names
<1>5. ASSUME NEW k \in Io!Sme, NEW v \in VM, Io!Hits(s) = {k}, Names(k, v), ~Io!InSetup(k) PROVE Io!Target(s) = v
  BY <1>1, <1>2, <1>4, <1>5
<1>6. ASSUME Io!Target(s) \notin {Io!Fault, Io!Unbound}
      PROVE  \E k \in Io!Sme, v \in VM : /\ Io!Hits(s) = {k} /\ Names(k, v) /\ Io!Target(s) = v
                                         /\ \E n \in 1 .. ioat[v] : smr[k] = Ent(v, n)
  <2>1. Io!Hits(s) = {t} /\ ~Io!InSetup(t) /\ t \in Io!Sme /\ smr[t].valid
    <3>1. Cardinality(Io!Hits(s)) = 1 /\ ~Io!InSetup(t)
      BY <1>1, <1>6
    <3>2. t \in Io!Hits(s)
      BY <1>3, <3>1
    <3> QED
      BY <1>3, <3>1, <3>2 DEF Io!Hits
  <2> HIDE DEF t
  <2>2. PICK v \in VM : Names(t, v) /\ \E n \in 1 .. ioat[v] : smr[t] = Ent(v, n)
    BY <2>1 DEF SmContent, Io!Blank
  <2> QED
    BY <1>5, <2>1, <2>2
<1> QED
  BY <1>5, <1>6

(* The streams of an entry are those of its request.                        *)
LEMMA SmStreams ==
    ASSUME SmTypes, NEW v \in VM, NEW n \in DOMAIN streams[v], NEW s
    PROVE  /\ Matches(s, Ent(v, n)) <=> Io!Covers(v, streams[v][n], s)
           /\ Matches(s, Ent(v, n)) => Io!Wants(v, s)
<1>1. Ent(v, n).id = streams[v][n].id /\ Ent(v, n).mask = streams[v][n].mask \cup global_mask[v]
  BY DEF Ent, Io!Entry
<1>2. Matches(s, Ent(v, n)) <=> Io!Covers(v, streams[v][n], s)
  BY <1>1 DEF Matches, Io!Covers
<1>3. n \in 1 .. Len(streams[v])
  BY Requests
<1> QED
  BY <1>2, <1>3 DEF Io!Wants

(* No access goes to a VM that is not configured with the stream.           *)
LEMMA SmConfined ==
    ASSUME SmParts, iommu = "smmu"
    PROVE  Io!DmaConfined
<1> SUFFICES ASSUME NEW s \in Io!Id, Io!Target(s) \in VM PROVE Io!Wants(Io!Target(s), s)
  BY DEF Io!DmaConfined
<1>1. Io!Target(s) \notin {Io!Fault, Io!Unbound}
  BY SmConstants DEF Io!Fault, Io!Unbound
<1>2. PICK k \in Io!Sme, v \in VM : /\ Io!Hits(s) = {k} /\ Io!Target(s) = v
                                    /\ \E n \in 1 .. ioat[v] : smr[k] = Ent(v, n)
  BY <1>1, SmTarget
<1>3. PICK n \in 1 .. ioat[v] : smr[k] = Ent(v, n)
  BY <1>2
<1>4. n \in DOMAIN streams[v] /\ Matches(s, Ent(v, n))
  BY <1>2, <1>3, Requests DEF SmParts, Io!Hits, Matches
<1> QED
  BY <1>2, <1>4, SmStreams DEF SmParts

(* A VM that has been served has its devices: one entry of it covers a      *)
(* stream that it wants, and when nobody is between two steps of an entry's *)
(* set-up no second one does.                                               *)
LEMMA SmAttached ==
    ASSUME SmParts, iommu = "smmu"
    PROVE  Io!DeviceAttached
<1> SUFFICES ASSUME NEW v \in VM, ioat[v] = Len(streams[v]), NEW s \in Io!Id, Io!Wants(v, s)
             PROVE  /\ Io!Target(s) \in {v, Io!Fault, Io!Unbound}
                    /\ Io!Settled /\ (\A w \in VM \ {v} : ~Io!Wants(w, s)) => Io!Target(s) = v
  BY DEF Io!DeviceAttached
<1> USE DEF SmParts
<1>1. PICK n \in 1 .. ioat[v] : Io!Covers(v, streams[v][n], s)
  BY DEF Io!Wants
<1>2. n \in DOMAIN streams[v] /\ Matches(s, Ent(v, n)) /\ ~Working(v)
  BY <1>1, Requests, SmStreams DEF Working
<1>3. PICK k \in Io!Sme : Live(k, v) /\ Includes(smr[k], Ent(v, n))
  BY <1>1, <1>2 DEF SmCover
<1>4. k \in Io!Hits(s) /\ Names(k, v) /\ Matches(s, smr[k])
  <2>1. Matches(s, smr[k])
    BY <1>2, <1>3, Meeting
  <2>2. Names(k, v) /\ smr[k].valid
    BY <1>3 DEF Live, SmContent
  <2> QED
    BY <2>1, <2>2 DEF Io!Hits, Matches
<1>5. Io!Target(s) \in {v, Io!Fault, Io!Unbound}
  BY <1>4, SmTarget, NamesOne
<1>6. ASSUME Io!Settled, \A w \in VM \ {v} : ~Io!Wants(w, s) PROVE Io!Target(s) = v
  <2>1. \A j : ~Io!InSetup(j) /\ ~Claimed(j)
    BY <1>6 DEF Io!Settled, Io!InSetup, Claimed, Claims
  <2>2. ASSUME NEW j \in Io!Hits(s) PROVE j = k
    <3>1. j \in Io!Sme /\ smr[j].valid /\ Matches(s, smr[j])
      BY DEF Io!Hits, Matches
    <3>2. PICK w \in VM : Names(j, w) /\ \E m \in 1 .. ioat[w] : smr[j] = Ent(w, m)
      BY <2>1, <3>1 DEF SmContent, Io!Blank
    <3>3. w = v
      BY <1>6, <3>1, <3>2, Requests, SmStreams
    <3>4. CASE j \in sme_bitmap
      <4>1. Live(j, v)
        BY <2>1, <3>2, <3>3, <3>4 DEF Live
      <4>2. Io!Meet(smr[j], smr[k])
        BY <1>4, <3>1, Meeting
      <4> QED
        BY <1>3, <3>1, <4>1, <4>2 DEF SmApart
    <3>5. CASE j \notin sme_bitmap
      <4>1. PICK u \in VM : Stands(u, j)
        <5>1. j \in Leftover
          BY <3>1, <3>5 DEF Leftover
        <5> QED
          BY <5>1 DEF SmHoles
      <4>2. iopc[u] = "match" /\ \E m \in DOMAIN streams[u] : smr[j] = Ent(u, m)
        BY <1>6, <4>1 DEF Io!Settled, Stands
      <4>3. u = v
        BY <1>6, <3>1, <4>2, SmStreams
      <4>4. ioat[v] < Len(streams[v])
        BY <4>2, <4>3 DEF SmTypes
      <4> QED
        BY <4>4, Requests
    <3> QED
      BY <3>4, <3>5
  <2>3. Io!Hits(s) = {k}
    BY <1>4, <2>2
  <2> QED
    BY <1>4, <2>1, <2>3, SmTarget
<1> QED
  BY <1>5, <1>6

(* ERROR stops VMs and nothing starts them again.                           *)
LEMMA OnlyStops ==
    ASSUME stopped \subseteq VM, [SetupNext]_<<vars, remio, master, io, ipc, served, guest>>
    PROVE  stopped' \subseteq VM /\ stopped \subseteq stopped'
<1>1. ASSUME UNCHANGED stopped PROVE stopped' \subseteq VM /\ stopped \subseteq stopped'
  BY <1>1
<1>2. ASSUME NEW v \in VM, stopped' \in {stopped, stopped \cup {v}}
      PROVE  stopped' \subseteq VM /\ stopped \subseteq stopped'
  BY <1>2
<1>3. CASE Reserve
  BY <1>3 DEF Reserve, interrupts_reserve
<1>4. ASSUME NEW v \in VM, vm_assign_line(v) PROVE stopped' \in {stopped, stopped \cup {v}}
  BY <1>4 DEF vm_assign_line, interrupts_vm_assign
<1>5. ASSUME NEW v \in VM, vm_init_dev(v) PROVE stopped' \in {stopped, stopped \cup {v}}
  <2>1. Io!smmu_add(v) \/ Io!rv_iommu_add(v)
    BY <1>5 DEF vm_init_dev, Io!io_vm_add
  <2>2. CASE Io!iommu_vm_arch_init_ctx(v)
    BY <2>2 DEF Io!iommu_vm_arch_init_ctx, Io!Failed
  <2>3. CASE Io!smmu_compatible_sme_exists(v)
    BY <2>3 DEF Io!smmu_compatible_sme_exists, Io!ErrorInLock
  <2>4. CASE Io!smmu_alloc_sme(v)
    BY <2>4 DEF Io!smmu_alloc_sme, Io!Failed
  <2>5. CASE Io!smmu_write_sme(v) \/ Io!smmu_write_s2c(v)
    BY <2>5 DEF Io!smmu_write_sme, Io!smmu_write_s2c, Io!ErrorInLock
  <2>6. CASE Io!rv_iommu_add(v)
    BY <2>6 DEF Io!rv_iommu_add, Io!rv_iommu_alloc_did, Io!rv_iommu_write_ddt, Io!Failed
  <2> QED
    BY <2>1, <2>2, <2>3, <2>4, <2>5, <2>6 DEF Io!smmu_add
<1>6. ASSUME NEW v \in VM, GuestTraps(v) PROVE stopped' \in {stopped, stopped \cup {v}}
  BY <1>6 DEF GuestTraps, Traps!Trap
<1>7. ASSUME NEW v \in VM, vm_init_ipc(v) \/ vm_init_remio(v) \/ Rings(v) \/ \E id \in Line : Fires(v, id)
      PROVE  UNCHANGED stopped
  BY <1>7 DEF vm_init_ipc, vm_init_remio, Rings, Fires, interrupts_handle, vars
<1>8. ASSUME remio_init \/ IoFaults \/ UNCHANGED vars PROVE UNCHANGED stopped
  BY <1>8 DEF remio_init, IoFaults, vars, Io!DeviceFault, Io!rv_iommu_fq_irq_handler, Io!FqErrors,
              Io!FqClearErrors, Io!FqAcknowledge, Io!FqRead, Io!FqReport, Io!setup
<1> QED
  BY <1>1, <1>2, <1>3, <1>4, <1>5, <1>6, <1>7, <1>8 DEF SetupNext

(* The inductive invariant behind DevicesIsolated on Arm, and what is left  *)
(* where there is no IOMMU: iommu_vm_arch_add never runs.                   *)
SmmuInv ==
    /\ stopped \subseteq VM
    /\ iommu = "smmu" /\ Io!Reliable => SmParts
    /\ iommu \notin {"smmu", "riscv"} =>
           /\ ioat = [v \in VM |-> 0] /\ iopc = [v \in VM |-> "next"]
           /\ streams \in [VM -> Seq(Io!Request)]
           /\ \A k \in Io!Sme : ~smr[k].valid

(* smmu_init leaves no entry valid and no context bank taken.               *)
LEMMA InitSmmu == SetupInit => SmmuInv
<1> SUFFICES ASSUME SetupInit PROVE SmmuInv
  OBVIOUS
<1>1. /\ streams \in [VM -> Seq(Io!Request)] /\ global_mask \in [VM -> Io!Id]
  BY SetupAssumption DEF SetupInit
<1>2. Io!InitUnit /\ stopped = {}
  BY DEF SetupInit, Init
<1>3. iommu = "smmu" /\ Io!Reliable => SmParts
  BY <1>1, <1>2, SmStart DEF Io!Reliable
<1>4. /\ ioat = [v \in VM |-> 0] /\ iopc = [v \in VM |-> "next"]
      /\ \A k \in Io!Sme : ~smr[k].valid
  BY <1>2 DEF Io!InitUnit, Io!smmu_init, Io!Blank
<1> QED
  BY <1>1, <1>2, <1>3, <1>4 DEF SmmuInv

(* Only iommu_vm_arch_add changes anything; ERROR elsewhere stops VMs.      *)
LEMMA NextSmmu == SmmuInv /\ [SetupNext]_<<vars, remio, master, io, ipc, served, guest>> => SmmuInv'
<1> SUFFICES ASSUME SmmuInv, [SetupNext]_<<vars, remio, master, io, ipc, served, guest>>
             PROVE  SmmuInv'
  OBVIOUS
<1>1. stopped' \subseteq VM /\ stopped \subseteq stopped'
  BY OnlyStops DEF SmmuInv
<1> DEFINE Same == UNCHANGED <<iommu, streams, global_mask, ioat, iopc, iosme, ctx_id, banks, sme_held,
                               sme_bitmap, smr, s2cr>>
<1>2. ASSUME Same PROVE SmmuInv'
  <2>1. ASSUME iommu = "smmu", Io!Reliable PROVE SmParts'
    <3>1. SmParts
      BY <2>1 DEF SmmuInv
    <3>2. SmTypes' /\ SmContexts'
      BY <1>2, <3>1 DEF SmParts, SmTypes, SmContexts
    <3>3. \A k \in Io!Sme, v \in VM : Names(k, v)' <=> Names(k, v)
      BY <1>2 DEF Names, Io!InSetup
    <3>4. SmClaims' /\ SmContent' /\ SmGivenUp' /\ SmCover' /\ SmApart'
      <4>1. iopc' \in [VM -> {"next", "match", "alloc", "write", "bind", "skipped"}]
        BY <3>2 DEF SmTypes
      <4> QED
        BY <1>1, <1>2, <3>1, <3>3, <4>1, SmKept DEF SmParts
    <3>5. SmHoles'
      BY <1>2, <3>1, HolesKept DEF SmParts
    <3> QED
      BY <3>2, <3>4, <3>5 DEF SmParts
  <2>2. Io!Reliable' <=> Io!Reliable
    BY <1>2 DEF Io!Reliable
  <2> QED
    BY <1>1, <1>2, <2>1, <2>2 DEF SmmuInv
<1>3. ASSUME UNCHANGED io PROVE SmmuInv'
  BY <1>2, <1>3 DEF io
<1>4. ASSUME NEW v \in VM, vm_init_dev(v) PROVE SmmuInv'
  <2>1. (Io!smmu_add(v) \/ Io!rv_iommu_add(v)) /\ UNCHANGED <<iommu, streams, global_mask>>
    BY <1>4 DEF vm_init_dev, Io!io_vm_add, Io!configured
  <2>2. Io!Reliable' <=> Io!Reliable
    BY <2>1 DEF Io!Reliable
  <2>3. CASE iommu = "smmu" /\ Io!Reliable
    <3>1. SmParts /\ iopc[v] \in {"next", "match", "alloc", "write", "bind", "skipped"}
      BY <2>3 DEF SmmuInv, SmParts, SmTypes
    <3>2. ~Io!rv_iommu_add(v)
      BY <2>3, <3>1 DEF Io!rv_iommu_add, Io!rv_iommu_alloc_did, Io!rv_iommu_write_ddt, Io!Asks
    <3>3. SmParts'
      BY <2>1, <3>1, <3>2, SmInitCtx, SmMatch, SmAlloc, SmWrite, SmBind DEF Io!smmu_add
    <3> QED
      BY <1>1, <2>1, <2>2, <2>3, <3>3 DEF SmmuInv
  <2>4. CASE iommu = "riscv" \/ (iommu = "smmu" /\ ~Io!Reliable)
    BY <1>1, <2>1, <2>2, <2>4 DEF SmmuInv
  <2>5. CASE iommu \notin {"smmu", "riscv"}
    <3>1. iopc[v] = "next"
      BY <2>5 DEF SmmuInv
    <3>2. ~Io!rv_iommu_add(v) /\ ~Io!smmu_add(v)
      BY <2>5, <3>1 DEF Io!rv_iommu_add, Io!rv_iommu_alloc_did, Io!rv_iommu_write_ddt, Io!Asks,
                        Io!smmu_add, Io!iommu_vm_arch_init_ctx, Io!smmu_compatible_sme_exists,
                        Io!smmu_alloc_sme, Io!smmu_write_sme, Io!smmu_write_s2c
    <3> QED
      BY <2>1, <3>2
  <2> QED
    BY <2>3, <2>4, <2>5
<1>5. ASSUME IoFaults PROVE SmmuInv'
  BY <1>2, <1>5 DEF IoFaults, Io!DeviceFault, Io!rv_iommu_fq_irq_handler, Io!FqErrors,
                    Io!FqClearErrors, Io!FqAcknowledge, Io!FqRead, Io!FqReport, Io!configured, Io!setup
<1>6. ASSUME NEW v \in VM,
             vm_assign_line(v) \/ vm_init_ipc(v) \/ vm_init_remio(v) \/ Rings(v) \/ GuestTraps(v)
                \/ \E id \in Line : Fires(v, id)
      PROVE  UNCHANGED io
  BY <1>6 DEF vm_assign_line, vm_init_ipc, vm_init_remio, Rings, GuestTraps, Fires
<1>7. ASSUME remio_init PROVE UNCHANGED io
  BY <1>7 DEF remio_init
<1> QED
  BY <1>3, <1>4, <1>5, <1>6, <1>7 DEF SetupNext

(* Whatever IOMMU there is, a device's accesses go to no VM but one that is *)
(* configured with it, and a VM that has been served has its devices. On    *)
(* the SMMU (smmu_compatible_sme_exists to smmu_write_s2c) that is so also  *)
(* while other VMs merge and give up entries between its steps, where the   *)
(* configuration keeps to what the driver relies on.                        *)
THEOREM DevicesStayIsolated == SetupSpec => [](Io!Reliable => DevicesIsolated)
<1>1. SmmuInv /\ Io!Reliable /\ iommu = "smmu" => DevicesIsolated
  BY SmConfined, SmAttached DEF SmmuInv, DevicesIsolated
<1>2. SmmuInv /\ iommu \notin {"smmu", "riscv"} => DevicesIsolated
  <2> SUFFICES ASSUME SmmuInv, iommu \notin {"smmu", "riscv"} PROVE DevicesIsolated
    OBVIOUS
  <2>1. \A s \in Io!Id : Io!Target(s) = Io!Fault
    <3> TAKE s \in Io!Id
    <3>1. Io!Hits(s) = {}
      BY DEF SmmuInv, Io!Hits
    <3>2. Io!Cardinality(Io!Hits(s)) = 0
      BY <3>1, IoCardinality, FS_EmptySet
    <3> QED
      BY <3>2 DEF Io!Target
  <2>2. Io!DmaConfined
    BY <2>1, SetupAssumption DEF Io!DmaConfined, Io!Fault
  <2>3. ASSUME NEW v \in VM, ioat[v] = Len(streams[v]), NEW s PROVE ~Io!Wants(v, s)
    BY <2>3 DEF SmmuInv, Io!Wants
  <2> QED
    BY <2>2, <2>3 DEF DevicesIsolated, Io!DeviceAttached
<1>3. DdtInv /\ SmmuInv => (Io!Reliable => DevicesIsolated)
  BY <1>1, <1>2, RiscvIsolated
<1> QED
  BY InitDdt, NextDdt, InitSmmu, NextSmmu, <1>3, PTL DEF SetupSpec

----------------------------------------------------------------------------
Object == [shmem_id : Nat, interrupts : Seq(Line)]

Ring == [vm : VM, shmem_id : 0 .. Shmems - 1, event_id : Event, ready : SUBSET VM]

Note == [shmem_id : 0 .. Shmems - 1, event_id : Event, ring : Nat]

Delivery == [irq : Line, ring : Nat]

IpcTypes ==
    /\ ipcs \in [VM -> Seq(Object)]
    /\ \A v \in VM : Ipc!Distinct(ipcs[v])
    /\ ipcat \in [VM -> Nat]
    /\ \A v \in VM : ipcat[v] <= Len(ipcs[v])
    /\ \A v \in VM : master[v] \in Cpus[v]
    /\ DOMAIN cpu_masters = 0 .. Shmems - 1
    /\ rung \in Seq(Ring)
    /\ mail \in [Ipc!Cpu -> Seq(Note)]
    /\ injected \in [VM -> Seq(Delivery)]

(* A master has signed up for the objects that it is done with.             *)
SignedUp ==
    \A v \in VM : \A k \in 1 .. Len(ipcs[v]) :
        k <= ipcat[v] /\ ipcs[v][k].shmem_id < Shmems => master[v] \in cpu_masters[ipcs[v][k].shmem_id]

(* A message is the one of its ring, and goes to no CPU of the VM that rang.*)
NotesOfRings ==
    \A c \in Ipc!Cpu : \A k \in 1 .. Len(mail[c]) :
        LET note == mail[c][k]
        IN  /\ note.ring \in 1 .. Len(rung)
            /\ rung[note.ring].shmem_id = note.shmem_id
            /\ rung[note.ring].event_id = note.event_id
            /\ c \notin Cpus[rung[note.ring].vm]

(* What was injected into a VM was due to it.                               *)
InjectedDue ==
    \A v \in VM : \A k \in 1 .. Len(injected[v]) :
        /\ injected[v][k].ring \in 1 .. Len(rung)
        /\ injected[v][k].irq \in Ipc!Due(v, rung[injected[v][k].ring])

(* The messages of a CPU are in the order of the rings, ...                 *)
MailOrder ==
    \A c \in Ipc!Cpu : \A j, k \in 1 .. Len(mail[c]) : j < k => mail[c][j].ring < mail[c][k].ring

(* ... so is what was injected, ...                                         *)
InjectedOrder ==
    \A v \in VM : \A j, k \in 1 .. Len(injected[v]) :
        j < k => injected[v][j].ring < injected[v][k].ring

(* ... and all of that comes before what the master has yet to read.        *)
InjectedFirst ==
    \A v \in VM : \A j \in 1 .. Len(injected[v]) : \A k \in 1 .. Len(mail[master[v]]) :
        injected[v][j].ring < mail[master[v]][k].ring

(* A ring that is due to a VM that was set up was injected or waits.        *)
DueReceived ==
    \A v \in VM : \A n \in 1 .. Len(rung) : v \in rung[n].ready =>
        \A i \in Ipc!Due(v, rung[n]) :
            \/ \E k \in 1 .. Len(injected[v]) : injected[v][k] = [irq |-> i, ring |-> n]
            \/ \E k \in 1 .. Len(mail[master[v]]) : mail[master[v]][k].ring = n

(* The inductive invariant behind RingsReachPeers.                          *)
IpcInv ==
    /\ IpcTypes
    /\ SignedUp /\ NotesOfRings /\ InjectedDue
    /\ MailOrder /\ InjectedOrder /\ InjectedFirst
    /\ DueReceived

(* ipc_find_by_shmemid finds the one object over a shared memory.           *)
LEMMA FindOne ==
    ASSUME IpcTypes, NEW v \in VM, NEW k \in 1 .. Len(ipcs[v]), ipcs[v][k].shmem_id < Shmems
    PROVE  Ipc!ipc_find_by_shmemid(v, ipcs[v][k].shmem_id) = k
<1> DEFINE I == {i \in 1 .. Len(ipcs[v]) : ipcs[v][i].shmem_id = ipcs[v][k].shmem_id}
<1>1. ipcs[v] \in Seq(Object)
  BY DEF IpcTypes
<1>2. I = {k}
  BY <1>1 DEF IpcTypes, Ipc!Distinct
<1>3. Ipc!ipc_find_by_shmemid(v, ipcs[v][k].shmem_id) = IF I # {} THEN Ipc!Min(I) ELSE 0
  BY DEF Ipc!ipc_find_by_shmemid, Ipc!SelectInSeq
<1>4. Ipc!Min({k}) = k
  BY DEF Ipc!Min
<1> HIDE DEF I
<1> QED
  BY <1>2, <1>3, <1>4

(* ... and nothing if there is none.                                        *)
LEMMA FindNone ==
    ASSUME IpcTypes, NEW v \in VM, NEW s \in Nat,
           \A k \in 1 .. Len(ipcs[v]) : ipcs[v][k].shmem_id # s
    PROVE  Ipc!ipc_find_by_shmemid(v, s) = 0
  BY DEF Ipc!ipc_find_by_shmemid, Ipc!SelectInSeq

(* What a message makes its receiver inject: one interrupt, which is due,   *)
(* or none, if none is due.                                                 *)
LEMMA NotifiedDue ==
    ASSUME IpcTypes, NEW v \in VM, NEW note \in Note, NEW r \in Ring,
           r.shmem_id = note.shmem_id, r.event_id = note.event_id, r.vm # v
    PROVE  \/ /\ Ipc!NotifiedIrq(v, note) = <<>>
              /\ Ipc!Due(v, r) = {}
           \/ \E i \in Line :
                 /\ Ipc!NotifiedIrq(v, note) = <<[irq |-> i, ring |-> note.ring]>>
                 /\ Ipc!Due(v, r) = {i}
<1> DEFINE s == note.shmem_id
           e == note.event_id
<1>0. s \in 0 .. Shmems - 1 /\ e \in Event
  BY DEF Note
<1>1. ipcs[v] \in Seq(Object) /\ s \in Nat /\ s < Shmems /\ e \in Nat
  <2>1. Shmems \in Nat /\ Event \subseteq Nat
    BY SetupAssumption
  <2>2. ipcs[v] \in Seq(Object)
    BY DEF IpcTypes
  <2>3. e \in Nat
    BY <1>0, <2>1
  <2> QED
    BY <1>0, <2>1, <2>2, <2>3
<1>2. \A i : i \in Ipc!Due(v, r) <=>
          \E k \in 1 .. Len(ipcs[v]) : /\ ipcs[v][k].shmem_id = s
                                       /\ e < Len(ipcs[v][k].interrupts)
                                       /\ i = ipcs[v][k].interrupts[e + 1]
  <2>1. Ipc!ToSet(ipcs[v]) = {ipcs[v][k] : k \in 1 .. Len(ipcs[v])}
    BY <1>1 DEF Ipc!ToSet
  <2> QED
    BY <1>1, <2>1, r.vm # v, r.shmem_id = s, r.event_id = e DEF Ipc!Due
<1>3. ASSUME NEW k \in 1 .. Len(ipcs[v]), ipcs[v][k].shmem_id = s
      PROVE  \/ /\ Ipc!NotifiedIrq(v, note) = <<>>
                /\ Ipc!Due(v, r) = {}
             \/ \E i \in Line :
                   /\ Ipc!NotifiedIrq(v, note) = <<[irq |-> i, ring |-> note.ring]>>
                   /\ Ipc!Due(v, r) = {i}
  <2>1. Ipc!ipc_find_by_shmemid(v, s) = k
    BY <1>1, <1>3, FindOne
  <2>2. \A j \in 1 .. Len(ipcs[v]) : ipcs[v][j].shmem_id = s => j = k
    BY <1>1, <1>3 DEF IpcTypes, Ipc!Distinct
  <2>3. ipcs[v][k] \in Object
    BY <1>1
  <2>4. k # 0
    OBVIOUS
  <2>5. CASE e < Len(ipcs[v][k].interrupts)
    <3> DEFINE i == ipcs[v][k].interrupts[e + 1]
    <3>1. i \in Line
      BY <1>1, <2>3, <2>5 DEF Object
    <3>2. Ipc!NotifiedIrq(v, note) = <<[irq |-> i, ring |-> note.ring]>>
      BY <2>1, <2>4, <2>5 DEF Ipc!NotifiedIrq
    <3>3. Ipc!Due(v, r) = {i}
      BY <1>2, <1>3, <2>2, <2>5
    <3> QED
      BY <3>1, <3>2, <3>3
  <2>6. CASE ~(e < Len(ipcs[v][k].interrupts))
    <3>1. Ipc!NotifiedIrq(v, note) = <<>>
      BY <2>1, <2>4, <2>6 DEF Ipc!NotifiedIrq
    <3>2. Ipc!Due(v, r) = {}
      BY <1>2, <2>2, <2>6
    <3> QED
      BY <3>1, <3>2
  <2> QED
    BY <2>5, <2>6
<1>4. CASE \A k \in 1 .. Len(ipcs[v]) : ipcs[v][k].shmem_id # s
  <2>1. Ipc!ipc_find_by_shmemid(v, s) = 0
    BY <1>1, <1>4, FindNone
  <2> QED
    BY <1>2, <1>4, <2>1 DEF Ipc!NotifiedIrq
<1> QED
  BY <1>3, <1>4

(* Nothing is signed up and nothing rung when the masters start.            *)
LEMMA InitIpc == SetupInit => IpcInv
<1> SUFFICES ASSUME SetupInit PROVE IpcInv
  OBVIOUS
<1>1. PICK s \in Setups : ipcs = s.ipcs
  BY DEF SetupInit
<1>2. ipcs \in [VM -> Seq(Object)] /\ \A v \in VM : Ipc!Distinct(ipcs[v])
  <2>1. s.ipcs \in [VM -> Seq([shmem_id : Nat, interrupts : Seq(Line)])]
    BY SetupAssumption
  <2>2. \A v \in VM : Ipc!Distinct(s.ipcs[v])
    BY SetupAssumption
  <2> QED
    BY <1>1, <2>1, <2>2 DEF Object
<1>3. \A v \in VM : master[v] \in Cpus[v]
  BY DEF SetupInit, Remio!Init
<1>4. /\ ipcat = [v \in VM |-> 0]
      /\ cpu_masters = [s_1 \in 0 .. Shmems - 1 |-> {}]
      /\ mail = [c \in Ipc!Cpu |-> <<>>]
      /\ injected = [v \in VM |-> <<>>]
      /\ rung = <<>>
  BY DEF SetupInit, Ipc!Init
<1>5. IpcTypes
  BY <1>2, <1>3, <1>4 DEF IpcTypes
<1> QED
  BY <1>2, <1>4, <1>5 DEF IpcInv, SignedUp, NotesOfRings, InjectedDue, MailOrder, InjectedOrder,
     InjectedFirst, DueReceived

(* A master is a CPU.                                                       *)
LEMMA MasterCpu == ASSUME IpcTypes, NEW v \in VM PROVE master[v] \in Ipc!Cpu
  BY DEF IpcTypes, Ipc!Cpu

(* Only the lists of those signed up change, and they grow.                 *)
LEMMA SignKeeps ==
    ASSUME IpcInv, UNCHANGED <<ipcs, master, mail, injected, rung>>,
           DOMAIN cpu_masters' = DOMAIN cpu_masters,
           \A s \in DOMAIN cpu_masters : cpu_masters[s] \subseteq cpu_masters'[s],
           \/ ipcat' = ipcat
           \/ \E v \in VM : Ipc!vm_init_ipc(v)
    PROVE  IpcInv'
<1>0. ASSUME NEW v \in VM, NEW k \in 1 .. Len(ipcs[v]), ipcs[v][k].shmem_id < Shmems
      PROVE  ipcs[v][k].shmem_id \in DOMAIN cpu_masters
  <2>1. ipcs[v][k] \in Object /\ DOMAIN cpu_masters = 0 .. Shmems - 1
    BY DEF IpcInv, IpcTypes
  <2>2. Shmems \in Nat
    BY SetupAssumption
  <2>3. ipcs[v][k].shmem_id \in Nat
    BY <2>1 DEF Object
  <2> QED
    BY <1>0, <2>1, <2>2, <2>3
<1>1. IpcTypes'
  <2>1. ipcat' \in [VM -> Nat] /\ \A v \in VM : ipcat'[v] <= Len(ipcs[v])
    <3>1. ASSUME NEW v \in VM, Ipc!vm_init_ipc(v)
          PROVE  ipcat' \in [VM -> Nat] /\ \A w \in VM : ipcat'[w] <= Len(ipcs[w])
      <4>1. ipcat \in [VM -> Nat] /\ ipcs[v] \in Seq(Object) /\ ipcat[v] < Len(ipcs[v])
        BY <3>1 DEF IpcInv, IpcTypes, Ipc!vm_init_ipc, Ipc!Unset
      <4>2. ipcat' = [ipcat EXCEPT ![v] = ipcat[v] + 1]
        BY <3>1 DEF Ipc!vm_init_ipc
      <4> QED
        BY <4>1, <4>2 DEF IpcInv, IpcTypes
    <3> QED
      BY <3>1 DEF IpcInv, IpcTypes
  <2>2. (\A v \in VM : Ipc!Distinct(ipcs[v]))' <=> (\A v \in VM : Ipc!Distinct(ipcs[v]))
    BY DEF Ipc!Distinct
  <2> QED
    BY <2>1, <2>2 DEF IpcInv, IpcTypes
<1>2. SignedUp'
  <2>1. ASSUME ipcat' = ipcat PROVE SignedUp'
    <3> SUFFICES ASSUME NEW v \in VM, NEW k \in 1 .. Len(ipcs[v]), k <= ipcat[v],
                        ipcs[v][k].shmem_id < Shmems
                 PROVE  master[v] \in cpu_masters'[ipcs[v][k].shmem_id]
      BY <2>1 DEF SignedUp
    <3> QED
      BY <1>0 DEF IpcInv, SignedUp
  <2>2. ASSUME NEW v \in VM, Ipc!vm_init_ipc(v) PROVE SignedUp'
    <3> SUFFICES ASSUME NEW w \in VM, NEW k \in 1 .. Len(ipcs[w]), k <= ipcat'[w],
                        ipcs[w][k].shmem_id < Shmems
                 PROVE  master[w] \in cpu_masters'[ipcs[w][k].shmem_id]
      BY DEF SignedUp
    <3>3. CASE k <= ipcat[w]
      BY <1>0, <3>3 DEF IpcInv, SignedUp
    <3>4. CASE ~(k <= ipcat[w])
      <4>1. ipcat' = [ipcat EXCEPT ![v] = ipcat[v] + 1] /\ ipcat \in [VM -> Nat]
        BY <2>2 DEF Ipc!vm_init_ipc, IpcInv, IpcTypes
      <4>2. w = v /\ k = ipcat[v] + 1
        BY <3>4, <4>1
      <4> QED
        BY <1>0, <2>2, <4>2 DEF Ipc!vm_init_ipc, Ipc!NextIpc
    <3> QED
      BY <3>3, <3>4
  <2> QED
    BY <2>1, <2>2
<1>3. NotesOfRings' /\ MailOrder'
  BY DEF IpcInv, NotesOfRings, MailOrder
<1>4. InjectedOrder' /\ InjectedFirst'
  BY DEF IpcInv, InjectedOrder, InjectedFirst
<1>5. InjectedDue'
  BY DEF IpcInv, InjectedDue, Ipc!Due
<1>6. DueReceived'
  BY DEF IpcInv, DueReceived, Ipc!Due
<1> QED
  BY <1>1, <1>2, <1>3, <1>4, <1>5, <1>6 DEF IpcInv

(* A ring appends one message, with a new number, to queues of CPUs that    *)
(* are not the VM's; those of the masters of the VMs that are set up and    *)
(* have it due are among them.                                              *)
LEMMA RingKeeps ==
    ASSUME IpcInv, NEW v \in VM, NEW k \in Nat, NEW e \in Event,
           Ipc!ipc_hypercall(v, k, e, {w \in VM : SetUp(w)})
    PROVE  IpcInv'
<1> DEFINE s == ipcs[v][k + 1].shmem_id
           n == Len(rung) + 1
           note == [shmem_id |-> s, event_id |-> e, ring |-> n]
           ready == {w \in VM : SetUp(w)}
           r == [vm |-> v, shmem_id |-> s, event_id |-> e, ready |-> ready]
           to == Ipc!RingTargets(v, s)
<1>0. rung \in Seq(Ring) /\ mail \in [Ipc!Cpu -> Seq(Note)] /\ injected \in [VM -> Seq(Delivery)]
  BY DEF IpcInv, IpcTypes
<1>1. s \in 0 .. Shmems - 1
  <2>1. ipcs[v][k + 1] \in Object
    BY DEF IpcInv, IpcTypes, Ipc!ipc_hypercall
  <2>2. s \in Nat
    BY <2>1 DEF Object
  <2>3. Shmems \in Nat
    BY SetupAssumption
  <2> QED
    BY <2>2, <2>3 DEF Ipc!ipc_hypercall
<1>2. note \in Note /\ r \in Ring /\ n \in Nat
  BY <1>0, <1>1 DEF Note, Ring
<1>3. /\ mail' = [c \in Ipc!Cpu |-> IF c \in to THEN Append(mail[c], note) ELSE mail[c]]
      /\ rung' = Append(rung, r)
      /\ UNCHANGED <<ipcs, ipcat, master, cpu_masters, injected>>
  BY DEF Ipc!ipc_hypercall
<1>3a. ipcs' = ipcs /\ injected' = injected /\ master' = master
  BY <1>3
<1>4. \A c \in to : c \notin Cpus[v]
  BY DEF Ipc!RingTargets
<1>5. ASSUME NEW w \in ready, NEW i \in Ipc!Due(w, r) PROVE master[w] \in to
  <2>1. w # v /\ \E o \in Ipc!ToSet(ipcs[w]) : o.shmem_id = s
    BY DEF Ipc!Due
  <2>2. PICK j \in 1 .. Len(ipcs[w]) : ipcs[w][j].shmem_id = s
    <3>1. DOMAIN ipcs[w] = 1 .. Len(ipcs[w])
      BY DEF IpcInv, IpcTypes
    <3> HIDE DEF s
    <3> QED
      BY <2>1, <3>1 DEF Ipc!ToSet
  <2>3. ipcat[w] >= Len(ipcs[w])
    BY DEF SetUp, IpcDone, Ipc!Unset, IpcInv, IpcTypes
  <2>4. master[w] \in cpu_masters[s]
    <3>1. Shmems \in Nat /\ Len(ipcs[w]) \in Nat /\ ipcat[w] \in Nat
      BY SetupAssumption DEF IpcInv, IpcTypes
    <3> HIDE DEF s
    <3>2. s < Shmems /\ j <= ipcat[w]
      BY <1>1, <2>3, <3>1
    <3> QED
      BY <2>2, <3>2 DEF IpcInv, SignedUp
  <2>5. master[w] \in Cpus[w] /\ Cpus[w] \cap Cpus[v] = {}
    BY <2>1, SetupAssumption DEF IpcInv, IpcTypes
  <2> QED
    BY <2>4, <2>5 DEF Ipc!RingTargets
<1> HIDE DEF note, r, ready, to, s
<1>6. /\ Len(rung') = n /\ rung'[n] = r
      /\ \A j \in 1 .. Len(rung) : rung'[j] = rung[j]
  BY <1>0, <1>2, <1>3
<1>7. ASSUME NEW c \in Ipc!Cpu
      PROVE  /\ mail'[c] \in Seq(Note)
             /\ \A j \in 1 .. Len(mail[c]) : mail'[c][j] = mail[c][j] /\ j \in 1 .. Len(mail'[c])
             /\ c \in to => mail'[c][Len(mail[c]) + 1] = note /\ Len(mail'[c]) = Len(mail[c]) + 1
             /\ c \notin to => Len(mail'[c]) = Len(mail[c])
  <2>1. mail[c] \in Seq(Note)
    BY <1>0
  <2>2. CASE c \in to
    <3>1. mail'[c] = Append(mail[c], note)
      BY <1>3, <2>2
    <3> QED
      BY <1>2, <2>1, <2>2, <3>1
  <2>3. CASE c \notin to
    BY <1>3, <2>1, <2>3
  <2> QED
    BY <2>2, <2>3
<1>8. IpcTypes'
  <2>1. (\A w \in VM : Ipc!Distinct(ipcs[w]))' <=> (\A w \in VM : Ipc!Distinct(ipcs[w]))
    BY <1>3 DEF Ipc!Distinct
  <2>2. rung' \in Seq(Ring)
    BY <1>0, <1>2, <1>3
  <2>3. mail' \in [Ipc!Cpu -> Seq(Note)]
    BY <1>3, <1>7
  <2> QED
    BY <1>3, <2>1, <2>2, <2>3 DEF IpcInv, IpcTypes
<1>9. SignedUp'
  BY <1>3 DEF IpcInv, SignedUp
<1>10. \A j \in 1 .. Len(rung) : j \in 1 .. Len(rung') /\ rung'[j] = rung[j] /\ j < n
  BY <1>0, <1>6
<1>11. note.ring = n /\ note.shmem_id = s /\ note.event_id = e
  BY DEF note
<1>12. r.shmem_id = s /\ r.event_id = e /\ r.vm = v /\ r.ready = ready
  BY DEF r
<1>13. NotesOfRings'
  <2> SUFFICES ASSUME NEW c \in Ipc!Cpu, NEW j \in 1 .. Len(mail'[c])
               PROVE  LET note_1 == mail'[c][j]
                      IN  /\ note_1.ring \in 1 .. Len(rung')
                          /\ rung'[note_1.ring].shmem_id = note_1.shmem_id
                          /\ rung'[note_1.ring].event_id = note_1.event_id
                          /\ c \notin Cpus[rung'[note_1.ring].vm]
    BY DEF NotesOfRings
  <2>1. CASE j \in 1 .. Len(mail[c])
    <3> DEFINE old == mail[c][j]
    <3>1. mail'[c][j] = old
      BY <1>7, <2>1
    <3>2. /\ old.ring \in 1 .. Len(rung)
          /\ rung[old.ring].shmem_id = old.shmem_id
          /\ rung[old.ring].event_id = old.event_id
          /\ c \notin Cpus[rung[old.ring].vm]
      BY <2>1 DEF IpcInv, NotesOfRings
    <3> HIDE DEF old
    <3> QED
      BY <1>10, <3>1, <3>2
  <2>2. CASE c \in to /\ j = Len(mail[c]) + 1
    <3>1. mail'[c][j] = note
      BY <1>7, <2>2
    <3>2. n \in 1 .. Len(rung')
      BY <1>0, <1>6
    <3> QED
      BY <1>4, <1>6, <1>11, <1>12, <2>2, <3>1, <3>2
  <2>3. j \in 1 .. Len(mail[c]) \/ (c \in to /\ j = Len(mail[c]) + 1)
    <3>1. Len(mail[c]) \in Nat
      BY <1>0
    <3> QED
      BY <1>7, <3>1
  <2> QED
    BY <2>1, <2>2, <2>3
<1>14. InjectedDue'
  <2>1. \A w \in VM : \A j \in 1 .. Len(injected[w]) :
            /\ injected[w][j].ring \in 1 .. Len(rung')
            /\ injected[w][j].irq \in Ipc!Due(w, rung'[injected[w][j].ring])
    BY <1>10 DEF IpcInv, InjectedDue
  <2> QED
    BY <1>3a, <2>1 DEF InjectedDue, Ipc!Due
<1>15. InjectedOrder'
  BY <1>3 DEF IpcInv, InjectedOrder
<1>16. \A c \in Ipc!Cpu : \A j \in 1 .. Len(mail'[c]) :
           j \in 1 .. Len(mail[c]) \/ (j = Len(mail[c]) + 1 /\ mail'[c][j] = note)
  <2> SUFFICES ASSUME NEW c \in Ipc!Cpu, NEW j \in 1 .. Len(mail'[c])
               PROVE  j \in 1 .. Len(mail[c]) \/ (j = Len(mail[c]) + 1 /\ mail'[c][j] = note)
    OBVIOUS
  <2>1. Len(mail[c]) \in Nat
    BY <1>0
  <2> QED
    BY <1>7, <2>1
<1>17. MailOrder'
  <2> SUFFICES ASSUME NEW c \in Ipc!Cpu, NEW j \in 1 .. Len(mail'[c]), NEW l \in 1 .. Len(mail'[c]),
                      j < l
               PROVE  mail'[c][j].ring < mail'[c][l].ring
    BY DEF MailOrder
  <2>1. Len(mail[c]) \in Nat
    BY <1>0
  <2>2. j \in 1 .. Len(mail[c]) /\ mail'[c][j] = mail[c][j]
    BY <1>7, <1>16, <2>1
  <2>3. mail[c][j].ring \in 1 .. Len(rung)
    BY <2>2 DEF IpcInv, NotesOfRings
  <2>4. CASE l \in 1 .. Len(mail[c])
    BY <1>7, <2>2, <2>4 DEF IpcInv, MailOrder
  <2>5. CASE mail'[c][l] = note
    BY <1>10, <1>11, <2>2, <2>3, <2>5
  <2> QED
    BY <1>16, <2>4, <2>5
<1>18. InjectedFirst'
  <2> SUFFICES ASSUME NEW w \in VM, NEW j \in 1 .. Len(injected[w]),
                      NEW l \in 1 .. Len(mail'[master[w]])
               PROVE  injected[w][j].ring < mail'[master[w]][l].ring
    BY <1>3 DEF InjectedFirst
  <2>1. master[w] \in Ipc!Cpu
    BY MasterCpu DEF IpcInv
  <2>2. injected[w][j].ring \in 1 .. Len(rung)
    BY DEF IpcInv, InjectedDue
  <2>3. CASE l \in 1 .. Len(mail[master[w]])
    BY <1>7, <2>1, <2>3 DEF IpcInv, InjectedFirst
  <2>4. CASE mail'[master[w]][l] = note
    BY <1>10, <1>11, <2>2, <2>4
  <2> QED
    BY <1>16, <2>1, <2>3, <2>4
<1>19. DueReceived'
  <2> SUFFICES ASSUME NEW w \in VM, NEW m \in 1 .. Len(rung'), w \in rung'[m].ready,
                      NEW i \in Ipc!Due(w, rung'[m])
               PROVE  \/ \E j \in 1 .. Len(injected[w]) : injected[w][j] = [irq |-> i, ring |-> m]
                      \/ \E j \in 1 .. Len(mail'[master[w]]) : mail'[master[w]][j].ring = m
    BY <1>3a DEF DueReceived, Ipc!Due
  <2>1. master[w] \in Ipc!Cpu
    BY MasterCpu DEF IpcInv
  <2>2. CASE m \in 1 .. Len(rung)
    <3>1. rung'[m] = rung[m]
      BY <1>6, <2>2
    <3>2. \/ \E j \in 1 .. Len(injected[w]) : injected[w][j] = [irq |-> i, ring |-> m]
          \/ \E j \in 1 .. Len(mail[master[w]]) : mail[master[w]][j].ring = m
      BY <2>2, <3>1 DEF IpcInv, DueReceived
    <3> QED
      BY <1>7, <2>1, <3>2
  <2>3. CASE m = n
    <3>1. w \in ready /\ i \in Ipc!Due(w, r)
      BY <1>6, <1>12, <2>3
    <3>2. master[w] \in to
      BY <1>5, <3>1
    <3>3. /\ Len(mail[master[w]]) + 1 \in 1 .. Len(mail'[master[w]])
          /\ mail'[master[w]][Len(mail[master[w]]) + 1] = note
      <4>1. Len(mail[master[w]]) \in Nat
        BY <1>0, <2>1
      <4> QED
        BY <1>7, <2>1, <3>2, <4>1
    <3> QED
      BY <1>11, <2>3, <3>3
  <2> QED
    BY <1>0, <1>6, <2>2, <2>3
<1> QED
  BY <1>8, <1>9, <1>13, <1>14, <1>15, <1>17, <1>18, <1>19 DEF IpcInv

(* A message that its receiver takes goes, if it was due, to the end of what*)
(* was injected; it was the oldest that waited.                             *)
LEMMA NotifyKeeps ==
    ASSUME IpcInv, NEW v \in VM, Ipc!ipc_notify(v)
    PROVE  IpcInv'
<1> DEFINE c == master[v]
           box == mail[c]
           note == box[1]
           r == rung[note.ring]
           new == Ipc!NotifiedIrq(v, note)
<1>0. /\ rung \in Seq(Ring) /\ mail \in [Ipc!Cpu -> Seq(Note)]
      /\ injected \in [VM -> Seq(Delivery)] /\ c \in Ipc!Cpu /\ master[v] \in Cpus[v]
  BY MasterCpu DEF IpcInv, IpcTypes
<1>1. box \in Seq(Note) /\ box # <<>> /\ Len(box) \in Nat /\ Len(box) >= 1
  BY <1>0 DEF Ipc!ipc_notify
<1>2. note \in Note /\ Head(box) = note
  BY <1>1
<1>3. /\ note.ring \in 1 .. Len(rung) /\ r.shmem_id = note.shmem_id
      /\ r.event_id = note.event_id /\ c \notin Cpus[r.vm] /\ r \in Ring
  BY <1>0, <1>1 DEF IpcInv, NotesOfRings
<1>4. r.vm # v
  BY <1>0, <1>3
<1>5. \/ new = <<>> /\ Ipc!Due(v, r) = {}
      \/ \E i \in Line : new = <<[irq |-> i, ring |-> note.ring]>> /\ Ipc!Due(v, r) = {i}
  BY <1>2, <1>3, <1>4, NotifiedDue DEF IpcInv
<1>6. /\ mail' = [mail EXCEPT ![c] = Tail(box)]
      /\ injected' = [injected EXCEPT ![v] = injected[v] \o new]
      /\ UNCHANGED <<ipcs, ipcat, master, cpu_masters, rung>>
  BY <1>2 DEF Ipc!ipc_notify
<1>7. /\ \A d \in Ipc!Cpu : d # c => mail'[d] = mail[d]
      /\ Len(mail'[c]) = Len(box) - 1
      /\ \A j \in 1 .. Len(mail'[c]) : mail'[c][j] = box[j + 1] /\ j + 1 \in 1 .. Len(box)
      /\ mail'[c] \in Seq(Note)
  <2>1. mail'[c] = Tail(box)
    BY <1>0, <1>6
  <2> QED
    BY <1>0, <1>1, <1>6, <2>1
<1>8. new \in Seq(Delivery) /\ Len(new) \in 0 .. 1
      /\ (Len(new) = 1 => new[1].ring = note.ring /\ Ipc!Due(v, r) = {new[1].irq}
                          /\ new[1] = [irq |-> new[1].irq, ring |-> note.ring])
      /\ (Len(new) = 0 => Ipc!Due(v, r) = {})
  <2>1. note.ring \in Nat
    BY <1>2 DEF Note
  <2>2. ASSUME NEW i \in Line, new = <<[irq |-> i, ring |-> note.ring]>>
        PROVE  /\ new \in Seq(Delivery) /\ Len(new) = 1
               /\ new[1] = [irq |-> i, ring |-> note.ring]
    BY <2>1, <2>2 DEF Delivery
  <2>3. CASE new = <<>> /\ Ipc!Due(v, r) = {}
    <3> HIDE DEF new
    <3> QED
      BY <2>3
  <2>4. CASE \E i \in Line : new = <<[irq |-> i, ring |-> note.ring]>> /\ Ipc!Due(v, r) = {i}
    <3> PICK i \in Line : new = <<[irq |-> i, ring |-> note.ring]>> /\ Ipc!Due(v, r) = {i}
      BY <2>4
    <3>1. new \in Seq(Delivery) /\ Len(new) = 1 /\ new[1] = [irq |-> i, ring |-> note.ring]
      BY <2>2
    <3>2. new[1].irq = i /\ new[1].ring = note.ring
      BY <3>1
    <3> HIDE DEF new
    <3> QED
      BY <3>1, <3>2
  <2> QED
    BY <1>5, <2>3, <2>4
<1>9. /\ \A w \in VM : w # v => injected'[w] = injected[w]
      /\ injected'[v] \in Seq(Delivery)
      /\ Len(injected'[v]) = Len(injected[v]) + Len(new)
      /\ \A j \in 1 .. Len(injected[v]) : /\ injected'[v][j] = injected[v][j]
                                          /\ j \in 1 .. Len(injected'[v])
      /\ \A j \in 1 .. Len(injected'[v]) :
             j \in 1 .. Len(injected[v]) \/ (j = Len(injected[v]) + 1 /\ Len(new) = 1
                                            /\ injected'[v][j] = new[1])
  <2>1. injected'[v] = injected[v] \o new /\ injected[v] \in Seq(Delivery)
    BY <1>0, <1>6
  <2> HIDE DEF new
  <2>2. Len(injected[v]) \in Nat /\ Len(new) \in Nat
    BY <1>8, <2>1
  <2> QED
    BY <1>0, <1>6, <1>8, <2>1, <2>2
<1> HIDE DEF new, note, r
<1>10. ipcs' = ipcs /\ master' = master /\ rung' = rung
  BY <1>6
<1>11. IpcTypes'
  <2>1. (\A w \in VM : Ipc!Distinct(ipcs[w]))' <=> (\A w \in VM : Ipc!Distinct(ipcs[w]))
    BY <1>10 DEF Ipc!Distinct
  <2>2. mail' \in [Ipc!Cpu -> Seq(Note)]
    BY <1>0, <1>6, <1>7
  <2>3. injected' \in [VM -> Seq(Delivery)]
    BY <1>0, <1>6, <1>9
  <2> QED
    BY <1>6, <2>1, <2>2, <2>3 DEF IpcInv, IpcTypes
<1>12. SignedUp'
  BY <1>6 DEF IpcInv, SignedUp
<1>13. NotesOfRings'
  <2>1. \A d \in Ipc!Cpu : \A j \in 1 .. Len(mail'[d]) :
            \E k \in 1 .. Len(mail[d]) : mail'[d][j] = mail[d][k]
    BY <1>7
  <2>2. ASSUME NEW d \in Ipc!Cpu, NEW j \in 1 .. Len(mail'[d])
        PROVE  /\ mail'[d][j].ring \in 1 .. Len(rung)
               /\ rung[mail'[d][j].ring].shmem_id = mail'[d][j].shmem_id
               /\ rung[mail'[d][j].ring].event_id = mail'[d][j].event_id
               /\ d \notin Cpus[rung[mail'[d][j].ring].vm]
    BY <2>1 DEF IpcInv, NotesOfRings
  <2> QED
    BY <1>10, <2>2 DEF NotesOfRings
<1>14. InjectedDue'
  <2>1. ASSUME NEW w \in VM, NEW j \in 1 .. Len(injected'[w])
        PROVE  /\ injected'[w][j].ring \in 1 .. Len(rung)
               /\ injected'[w][j].irq \in Ipc!Due(w, rung[injected'[w][j].ring])
    <3>1. CASE j \in 1 .. Len(injected[w]) /\ injected'[w][j] = injected[w][j]
      BY <3>1 DEF IpcInv, InjectedDue
    <3>2. CASE w = v /\ Len(new) = 1 /\ injected'[w][j] = new[1]
      BY <1>3, <1>8, <3>2 DEF r
    <3> QED
      BY <1>9, <3>1, <3>2
  <2> QED
    BY <1>10, <2>1 DEF InjectedDue, Ipc!Due
<1>15. MailOrder'
  <2> SUFFICES ASSUME NEW d \in Ipc!Cpu, NEW j \in 1 .. Len(mail'[d]), NEW k \in 1 .. Len(mail'[d]),
                      j < k
               PROVE  mail'[d][j].ring < mail'[d][k].ring
    BY DEF MailOrder
  <2>1. CASE d # c
    BY <1>7, <2>1 DEF IpcInv, MailOrder
  <2>2. CASE d = c
    <3>1. \A i \in 1 .. Len(mail'[c]) : i + 1 \in 1 .. Len(box) /\ mail'[c][i] = box[i + 1]
      BY <1>7
    <3>2. j \in 1 .. Len(mail'[c]) /\ k \in 1 .. Len(mail'[c])
      BY <2>2
    <3>3. /\ j + 1 \in 1 .. Len(box) /\ k + 1 \in 1 .. Len(box) /\ j + 1 < k + 1
          /\ mail'[d][j] = box[j + 1] /\ mail'[d][k] = box[k + 1]
      BY <2>2, <3>1, <3>2
    <3> QED
      BY <1>0, <3>3 DEF IpcInv, MailOrder
  <2> QED
    BY <2>1, <2>2
<1>16. ASSUME NEW k \in 1 .. Len(mail'[c]) PROVE note.ring < mail'[c][k].ring
  <2>1. 1 \in 1 .. Len(box) /\ k + 1 \in 1 .. Len(box) /\ 1 < k + 1 /\ mail'[c][k] = box[k + 1]
    BY <1>1, <1>7
  <2> QED
    BY <1>0, <2>1 DEF IpcInv, MailOrder, note
<1>17. \A j \in 1 .. Len(injected[v]) : injected[v][j].ring < note.ring
  BY <1>1 DEF IpcInv, InjectedFirst, note
<1>18. InjectedOrder'
  <2> SUFFICES ASSUME NEW w \in VM, NEW j \in 1 .. Len(injected'[w]), NEW k \in 1 .. Len(injected'[w]),
                      j < k
               PROVE  injected'[w][j].ring < injected'[w][k].ring
    BY DEF InjectedOrder
  <2>1. CASE w # v
    BY <1>9, <2>1 DEF IpcInv, InjectedOrder
  <2>2. CASE w = v /\ k \in 1 .. Len(injected[v])
    <3>1. j \in 1 .. Len(injected[v])
      BY <1>9, <2>2
    <3> QED
      BY <1>9, <2>2, <3>1 DEF IpcInv, InjectedOrder
  <2>3. CASE w = v /\ k \notin 1 .. Len(injected[v])
    <3>1. /\ k = Len(injected[v]) + 1 /\ Len(new) = 1 /\ injected'[v][k] = new[1]
          /\ Len(injected[v]) \in Nat
      BY <1>0, <1>9, <2>3
    <3>2. j \in 1 .. Len(injected[v]) /\ injected'[v][j] = injected[v][j]
      BY <1>9, <2>3, <3>1
    <3> QED
      BY <1>8, <1>17, <2>3, <3>1, <3>2
  <2> QED
    BY <2>1, <2>2, <2>3
<1>19. InjectedFirst'
  <2> SUFFICES ASSUME NEW w \in VM, NEW j \in 1 .. Len(injected'[w]),
                      NEW k \in 1 .. Len(mail'[master[w]])
               PROVE  injected'[w][j].ring < mail'[master[w]][k].ring
    BY <1>10 DEF InjectedFirst
  <2>1. CASE w = v
    <3>1. CASE j \in 1 .. Len(injected[v])
      BY <1>1, <1>7, <1>9, <2>1, <3>1 DEF IpcInv, InjectedFirst
    <3>2. CASE injected'[v][j] = new[1] /\ Len(new) = 1
      BY <1>8, <1>16, <2>1, <3>2
    <3> QED
      BY <1>9, <2>1, <3>1, <3>2
  <2>2. CASE w # v
    <3>1. master[w] # c
      BY <2>2, SetupAssumption DEF IpcInv, IpcTypes
    <3>2. mail'[master[w]] = mail[master[w]] /\ injected'[w] = injected[w]
      BY <1>7, <1>9, <2>2, <3>1, MasterCpu DEF IpcInv
    <3> QED
      BY <3>2 DEF IpcInv, InjectedFirst
  <2> QED
    BY <2>1, <2>2
<1>20. DueReceived'
  <2> SUFFICES ASSUME NEW w \in VM, NEW m \in 1 .. Len(rung), w \in rung[m].ready,
                      NEW i \in Ipc!Due(w, rung[m])
               PROVE  \/ \E j \in 1 .. Len(injected'[w]) : injected'[w][j] = [irq |-> i, ring |-> m]
                      \/ \E j \in 1 .. Len(mail'[master[w]]) : mail'[master[w]][j].ring = m
    BY <1>10 DEF DueReceived, Ipc!Due
  <2>1. \/ \E j \in 1 .. Len(injected[w]) : injected[w][j] = [irq |-> i, ring |-> m]
        \/ \E j \in 1 .. Len(mail[master[w]]) : mail[master[w]][j].ring = m
    BY DEF IpcInv, DueReceived
  <2>2. CASE w # v
    <3>1. master[w] # c
      BY <2>2, SetupAssumption DEF IpcInv, IpcTypes
    <3>2. mail'[master[w]] = mail[master[w]] /\ injected'[w] = injected[w]
      BY <1>7, <1>9, <2>2, <3>1, MasterCpu DEF IpcInv
    <3> QED
      BY <2>1, <3>2
  <2>3. CASE w = v /\ \E j \in 1 .. Len(injected[w]) : injected[w][j] = [irq |-> i, ring |-> m]
    BY <1>9, <2>3
  <2>4. ASSUME w = v, NEW j \in 1 .. Len(box), box[j].ring = m, j # 1
        PROVE  \E k \in 1 .. Len(mail'[c]) : mail'[c][k].ring = m
    <3>1. j - 1 \in 1 .. Len(mail'[c]) /\ (j - 1) + 1 = j
      BY <1>1, <1>7, <2>4
    <3>2. mail'[c][j - 1] = box[(j - 1) + 1]
      BY <1>7, <3>1
    <3> QED
      BY <2>4, <3>1, <3>2
  <2>5. CASE w = v /\ note.ring = m
    <3>1. r = rung[m] /\ i \in Ipc!Due(v, r)
      BY <2>5 DEF r
    <3>2. Len(new) = 1 /\ new[1] = [irq |-> i, ring |-> m]
      BY <1>8, <2>5, <3>1
    <3>3. Len(injected[v]) + 1 \in 1 .. Len(injected'[v]) /\ Len(injected[v]) \in Nat
      BY <1>0, <1>9, <3>2
    <3> QED
      BY <1>9, <2>5, <3>2, <3>3
  <2> QED
    BY <2>1, <2>2, <2>3, <2>4, <2>5 DEF note
<1> QED
  BY <1>11, <1>12, <1>13, <1>14, <1>15, <1>18, <1>19, <1>20 DEF IpcInv

(* Every step keeps the invariant.                                          *)
LEMMA NextIpc == IpcInv /\ [SetupNext]_<<vars, remio, master, io, ipc, served, guest>> => IpcInv'
<1> SUFFICES ASSUME IpcInv, [SetupNext]_<<vars, remio, master, io, ipc, served, guest>>
             PROVE  IpcInv'
  OBVIOUS
<1>1. ASSUME UNCHANGED <<ipcs, ipcat, cpu_masters, mail, injected, rung, master>> PROVE IpcInv'
  BY <1>1, SignKeeps
<1>2. ASSUME NEW v \in VM, vm_init_ipc(v) PROVE IpcInv'
  <2>1. CASE Ipc!vm_init_ipc(v)
    <3>1. \A s \in DOMAIN cpu_masters : cpu_masters[s] \subseteq cpu_masters'[s]
      BY <2>1 DEF Ipc!vm_init_ipc
    <3> QED
      BY <2>1, <3>1, SignKeeps DEF Ipc!vm_init_ipc
  <2>2. CASE UNCHANGED <<ipcs, ipcat, cpu_masters, mail, injected, rung, master>>
    BY <1>1, <2>2
  <2> QED
    BY <1>2, <2>1, <2>2 DEF vm_init_ipc
<1>3. ASSUME NEW v \in VM, vm_init_remio(v) PROVE IpcInv'
  <2>1. UNCHANGED <<ipcs, ipcat, mail, injected, rung, master>>
    BY <1>3 DEF vm_init_remio, Remio!Mark, Remio!Load, Remio!Store
  <2>2. /\ DOMAIN cpu_masters' = DOMAIN cpu_masters
        /\ \A s \in DOMAIN cpu_masters : cpu_masters[s] \subseteq cpu_masters'[s]
    BY <1>3 DEF vm_init_remio
  <2> QED
    BY <2>1, <2>2, SignKeeps
<1>4. ASSUME NEW v \in VM, Rings(v) PROVE IpcInv'
  <2>1. ASSUME NEW k \in 0 .. Len(ipcs[v]), NEW e \in Event,
               Ipc!ipc_hypercall(v, k, e, {w \in VM : SetUp(w)})
        PROVE  IpcInv'
    <3>1. Len(ipcs[v]) \in Nat
      BY DEF IpcInv, IpcTypes
    <3>2. k \in Nat
      BY <3>1
    <3> QED
      BY <2>1, <3>2, RingKeeps
  <2> QED
    BY <1>4, <2>1, NotifyKeeps DEF Rings
<1>5. ASSUME remio_init PROVE IpcInv'
  BY <1>1, <1>5 DEF remio_init, ipc, Remio!Link, Remio!Check
<1>6. ASSUME NEW v \in VM, vm_init_dev(v) \/ GuestTraps(v) \/ vm_assign_line(v)
                             \/ \E id \in Line : Fires(v, id)
      PROVE  IpcInv'
  BY <1>1, <1>6 DEF vm_init_dev, GuestTraps, vm_assign_line, Fires, ipc
<1>7. ASSUME IoFaults \/ (Reserve /\ UNCHANGED <<remio, master, io, ipc, served, guest>>)
      PROVE  IpcInv'
  BY <1>1, <1>7 DEF IoFaults, ipc
<1>8. ASSUME UNCHANGED <<vars, remio, master, io, ipc, served, guest>> PROVE IpcInv'
  BY <1>1, <1>8 DEF ipc
<1> QED
  BY <1>2, <1>3, <1>4, <1>5, <1>6, <1>7, <1>8 DEF SetupNext

(* A VM gets, once each and in the order of the rings, the interrupt of its *)
(* own configuration for every ring of another VM on memory they share, and *)
(* no other; it misses none that came after it was set up. Masters sign up  *)
(* on their own, while rings of other VMs are on the way (ipc_hypercall,    *)
(* ipc_handler, vm_init_ipc).                                               *)
THEOREM RingsReachTheirPeers == SetupSpec => []RingsReachPeers
<1>1. IpcInv => RingsReachPeers
  <2> SUFFICES ASSUME IpcInv, NEW v \in VM
               PROVE  /\ \A j, k \in DOMAIN Ipc!Told(v) : j < k => Ipc!Told(v)[j] < Ipc!Told(v)[k]
                      /\ \A k \in DOMAIN injected[v] :
                            injected[v][k].irq \in Ipc!Due(v, rung[injected[v][k].ring])
                      /\ \A n \in DOMAIN rung : v \in rung[n].ready =>
                            \A i \in Ipc!Due(v, rung[n]) :
                                \/ [irq |-> i, ring |-> n] \in Ipc!ToSet(injected[v])
                                \/ \E k \in DOMAIN mail[master[v]] :
                                      Ipc!NotifiedIrq(v, mail[master[v]][k])
                                        = <<[irq |-> i, ring |-> n]>>
    BY DEF RingsReachPeers, Ipc!RingsReachPeers
  <2> DEFINE box == mail[master[v]]
  <2>0. /\ rung \in Seq(Ring) /\ box \in Seq(Note) /\ injected[v] \in Seq(Delivery)
        /\ DOMAIN injected[v] = 1 .. Len(injected[v]) /\ DOMAIN box = 1 .. Len(box)
        /\ Len(injected[v]) \in Nat /\ Len(box) \in Nat
        /\ master[v] \in Ipc!Cpu /\ master[v] \in Cpus[v]
    BY MasterCpu DEF IpcInv, IpcTypes
  <2>1. ASSUME NEW j \in DOMAIN Ipc!Told(v), NEW k \in DOMAIN Ipc!Told(v), j < k
        PROVE  Ipc!Told(v)[j] < Ipc!Told(v)[k]
    <3> DEFINE a == [l \in 1 .. Len(injected[v]) |-> injected[v][l].ring]
               b == [l \in 1 .. Len(box) |-> box[l].ring]
    <3>1. Ipc!Told(v) = a \o b
      BY <2>0 DEF Ipc!Told
    <3>2. Len(a) = Len(injected[v]) /\ Len(b) = Len(box)
      BY <2>0
    <3>3. \A l \in 1 .. Len(injected[v]) : a[l] = injected[v][l].ring
      OBVIOUS
    <3>4. \A l \in 1 .. Len(box) : b[l] = box[l].ring
      OBVIOUS
    <3>5. a \in Seq(Nat) /\ b \in Seq(Nat)
      <4>1. \A l \in 1 .. Len(injected[v]) : injected[v][l] \in Delivery
        BY <2>0
      <4>2. \A l \in 1 .. Len(injected[v]) : injected[v][l].ring \in Nat
        BY <4>1 DEF Delivery
      <4>3. \A l \in 1 .. Len(box) : box[l] \in Note
        BY <2>0
      <4>4. \A l \in 1 .. Len(box) : box[l].ring \in Nat
        BY <4>3 DEF Note
      <4> QED
        BY <2>0, <4>2, <4>4
    <3> HIDE DEF a, b
    <3>6. /\ DOMAIN (a \o b) = 1 .. (Len(a) + Len(b))
          /\ \A l \in 1 .. (Len(a) + Len(b)) : (a \o b)[l] = IF l <= Len(a) THEN a[l] ELSE b[l - Len(a)]
      BY <3>5
    <3>7. /\ j \in 1 .. (Len(a) + Len(b)) /\ k \in 1 .. (Len(a) + Len(b))
          /\ Len(a) \in Nat /\ Len(b) \in Nat
      BY <3>1, <3>5, <3>6
    <3>8. CASE k <= Len(a)
      BY <2>0, <2>1, <3>1, <3>2, <3>3, <3>6, <3>7, <3>8 DEF IpcInv, InjectedOrder
    <3>9. CASE ~(k <= Len(a)) /\ j <= Len(a)
      <4>1. j \in 1 .. Len(injected[v]) /\ k - Len(a) \in 1 .. Len(box)
        <5>1. j \in 1 .. Len(a) /\ k - Len(a) \in 1 .. Len(b)
          BY <3>7, <3>9
        <5> QED
          BY <3>2, <5>1
      <4> QED
        BY <3>1, <3>2, <3>3, <3>4, <3>6, <3>7, <3>9, <4>1 DEF IpcInv, InjectedFirst
    <3>10. CASE ~(j <= Len(a))
      <4>1. /\ j - Len(a) \in 1 .. Len(box) /\ k - Len(a) \in 1 .. Len(box)
            /\ j - Len(a) < k - Len(a) /\ ~(k <= Len(a))
        <5>1. /\ j - Len(a) \in 1 .. Len(b) /\ k - Len(a) \in 1 .. Len(b)
              /\ j - Len(a) < k - Len(a) /\ ~(k <= Len(a))
          BY <2>1, <3>7, <3>10
        <5> QED
          BY <3>2, <5>1
      <4> QED
        BY <2>0, <3>1, <3>2, <3>4, <3>6, <3>7, <3>10, <4>1 DEF IpcInv, MailOrder
    <3> QED
      BY <2>0, <2>1, <3>2, <3>7, <3>8, <3>9, <3>10
  <2>2. \A k \in DOMAIN injected[v] : injected[v][k].irq \in Ipc!Due(v, rung[injected[v][k].ring])
    BY <2>0 DEF IpcInv, InjectedDue
  <2>3. ASSUME NEW n \in DOMAIN rung, v \in rung[n].ready, NEW i \in Ipc!Due(v, rung[n])
        PROVE  \/ [irq |-> i, ring |-> n] \in Ipc!ToSet(injected[v])
               \/ \E k \in DOMAIN box :
                      Ipc!NotifiedIrq(v, box[k]) = <<[irq |-> i, ring |-> n]>>
    <3>1. n \in 1 .. Len(rung) /\ rung[n] \in Ring
      BY <2>0
    <3>2. \/ \E k \in 1 .. Len(injected[v]) : injected[v][k] = [irq |-> i, ring |-> n]
          \/ \E k \in 1 .. Len(box) : box[k].ring = n
      BY <2>3, <3>1 DEF IpcInv, DueReceived
    <3>3. CASE \E k \in 1 .. Len(injected[v]) : injected[v][k] = [irq |-> i, ring |-> n]
      BY <2>0, <3>3 DEF Ipc!ToSet
    <3>4. ASSUME NEW k \in 1 .. Len(box), box[k].ring = n
          PROVE  Ipc!NotifiedIrq(v, box[k]) = <<[irq |-> i, ring |-> n]>>
      <4>1. box[k] \in Note
        BY <2>0
      <4>2. /\ rung[n].shmem_id = box[k].shmem_id /\ rung[n].event_id = box[k].event_id
            /\ rung[n].vm # v
        BY <2>0, <3>4 DEF IpcInv, NotesOfRings
      <4> HIDE DEF box
      <4> QED
        BY <2>3, <3>1, <3>4, <4>1, <4>2, NotifiedDue DEF IpcInv
    <3> QED
      BY <2>0, <3>2, <3>3, <3>4
  <2> QED
    BY <2>1, <2>2, <2>3
<1> QED
  BY InitIpc, NextIpc, <1>1, PTL DEF SetupSpec

----------------------------------------------------------------------------
(* An address has at most one region; its handler is the one that           *)
(* vm_emul_get_mem returns.                                                 *)
LEMMA GetMem ==
    ASSUME NEW addr \in Int
    PROVE  \/ /\ {n \in DOMAIN Regions : Traps!Has(n, addr)} = {}
              /\ Traps!vm_emul_get_mem(addr) = "none"
           \/ \E n \in DOMAIN Regions :
                 /\ {m \in DOMAIN Regions : Traps!Has(m, addr)} = {n}
                 /\ Traps!vm_emul_get_mem(addr) = Regions[n].handler
                 /\ Regions[n].handler \notin {"none", "ERROR"}
<1> DEFINE R == [base : Nat, size : Nat, handler : STRING \ {"none", "ERROR"}]
           es == {n \in DOMAIN Regions : /\ Regions[n].base <= addr
                                         /\ addr < Regions[n].base + Regions[n].size}
           in == {n \in DOMAIN Regions : Traps!Has(n, addr)}
<1>1. Regions \in Seq(R)
  BY SetupAssumption DEF Traps!ListsApart
<1>2. DOMAIN Regions \subseteq Nat /\ \A n \in DOMAIN Regions : Regions[n] \in R
  <2> HIDE DEF R
  <2> QED
    BY <1>1
<1>3. \A n \in DOMAIN Regions : /\ Regions[n].base \in Nat /\ Regions[n].size \in Nat
                                /\ Regions[n].handler \notin {"none", "ERROR"}
  BY <1>2
<1>4. es = in
  BY <1>3 DEF Traps!Has
<1>5. \A m, n \in in : m = n
  <2> SUFFICES ASSUME NEW m \in in, NEW n \in in PROVE m = n
    OBVIOUS
  <2> DEFINE k == addr - Regions[m].base
  <2>1. k \in 0 .. Regions[m].size - 1 /\ Regions[m].base + k = addr
    BY <1>3 DEF Traps!Has
  <2>2. Traps!Has(n, Regions[m].base + k)
    BY <2>1
  <2> HIDE DEF k
  <2> QED
    BY <2>1, <2>2, SetupAssumption DEF Traps!ListsApart
<1>6. Traps!vm_emul_get_mem(addr) = Traps!FirstHandler(Regions, es)
  BY DEF Traps!vm_emul_get_mem
<1>7. CASE in = {}
  BY <1>4, <1>6, <1>7 DEF Traps!FirstHandler
<1>8. ASSUME NEW n \in in PROVE Traps!vm_emul_get_mem(addr) = Regions[n].handler /\ in = {n}
  <2>1. in = {n}
    BY <1>5, <1>8
  <2>2. (CHOOSE l \in {n} : \A m \in {n} : l <= m) = n
    BY <1>2
  <2> QED
    BY <1>4, <1>6, <2>1, <2>2 DEF Traps!FirstHandler
<1> QED
  BY <1>3, <1>7, <1>8

(* The handler of a register.                                               *)
LEMMA GetReg ==
    ASSUME NEW addr, NEW n \in DOMAIN Registers, Registers[n].addr = addr
    PROVE  /\ Traps!vm_emul_get_reg(addr) = Registers[n].handler
           /\ Registers[n].handler \notin {"none", "ERROR", "remio"}
<1> DEFINE R == [addr : STRING, handler : STRING \ {"none", "ERROR", "remio"}]
           es == {m \in DOMAIN Registers : Registers[m].addr = addr}
<1>1. Registers \in Seq(R)
  BY SetupAssumption DEF Traps!ListsApart
<1>2. n \in Nat /\ Registers[n] \in R
  <2> HIDE DEF R
  <2> QED
    BY <1>1
<1>3. es = {n}
  BY SetupAssumption DEF Traps!ListsApart
<1>4. (CHOOSE l \in {n} : \A m \in {n} : l <= m) = n
  BY <1>2
<1> QED
  BY <1>2, <1>3, <1>4 DEF Traps!vm_emul_get_reg, Traps!FirstHandler

(* The record that Outcome makes, and what Meaning says.                    *)
Rec(h, a, wd, wr, rg, st, wt, b) ==
    [handler |-> h, addr |-> a, width |-> wd, write |-> wr, reg |-> rg, step |-> st,
     waits |-> wt, bit |-> b]

(* An outcome is what the guest means.                                      *)
Served(i, out) == IF Traps!Meaning(i).handler = "ERROR" THEN out = Traps!Error ELSE out = Traps!Meaning(i)

Bit(i) == IF "bwop" \in DOMAIN i THEN <<i.bwop, i.bit % 8>> ELSE <<>>

Tricore(i) == port = "tricore" /\ i.kind = "mem"

Width(i) == IF Tricore(i) THEN Traps!MnemonicWidth(Traps!Mnemonic(i)) ELSE i.width

Register(i) == IF Tricore(i) THEN Traps!MeantRegister(i) ELSE i.reg

(* What a memory access means, by the handler of its address.               *)
LEMMA MeansMem ==
    ASSUME NEW i, i.kind = "mem", i.addr \in Int
    PROVE  LET h == Traps!vm_emul_get_mem(i.addr)
           IN  \/ h = "none" /\ Traps!Meaning(i).handler = "ERROR" /\ ~Traps!Emulated(i.addr)
               \/ /\ h \notin {"none", "ERROR"} /\ Traps!Emulated(i.addr)
                  /\ Traps!Meaning(i) = Rec(h, i.addr, Width(i), i.write, Register(i), i.size,
                                            h = "remio", Bit(i))
                  /\ Traps!Meaning(i).handler = h
                  /\ h = "remio" => Traps!Waited(i.addr)
<1> DEFINE in == {n \in DOMAIN Regions : Traps!Has(n, i.addr)}
<1>1. CASE in = {} /\ Traps!vm_emul_get_mem(i.addr) = "none"
  BY <1>1 DEF Traps!Meaning, Traps!Emulated
<1>2. ASSUME NEW n \in DOMAIN Regions, in = {n}, Traps!vm_emul_get_mem(i.addr) = Regions[n].handler,
             Regions[n].handler \notin {"none", "ERROR"}
      PROVE  /\ Traps!Emulated(i.addr)
             /\ Traps!Meaning(i) = Rec(Regions[n].handler, i.addr, Width(i), i.write, Register(i),
                                       i.size, Regions[n].handler = "remio", Bit(i))
             /\ Traps!Meaning(i).handler = Regions[n].handler
             /\ Regions[n].handler = "remio" => Traps!Waited(i.addr)
  <2>1. Traps!Has(n, i.addr)
    BY <1>2
  <2>2. (CHOOSE m \in in : TRUE) = n
    BY <1>2
  <2>3. Traps!Meaning(i) = Rec(Regions[n].handler, i.addr, Width(i), i.write, Register(i),
                               i.size, Regions[n].handler = "remio", Bit(i))
    BY <1>2, <2>2 DEF Traps!Meaning, Rec, Width, Register, Bit, Tricore
  <2>4. Traps!Meaning(i).handler = Regions[n].handler
    BY <2>3 DEF Rec
  <2> QED
    BY <2>1, <2>3, <2>4 DEF Traps!Emulated, Traps!Waited
<1> QED
  BY <1>1, <1>2, GetMem

(* What the others mean.                                                    *)
Means(i, h) ==
    /\ Traps!Meaning(i) = Rec(h, i.addr, i.width, i.write, i.reg, i.size, FALSE, Bit(i))
    /\ Traps!Meaning(i).handler = h

LEMMA MeansOther ==
    ASSUME NEW i
    PROVE  /\ i.kind = "reg" => Means(i, i.handler)
           /\ i.kind = "bus" => Means(i, "ignored")
           /\ i.kind = "call" => Means(i, "call")
<1>1. ASSUME i.kind = "reg" PROVE Means(i, i.handler)
  BY <1>1 DEF Means, Traps!Meaning, Rec, Bit
<1>2. ASSUME i.kind = "bus" PROVE Means(i, "ignored")
  BY <1>2 DEF Means, Traps!Meaning, Rec, Bit
<1>3. ASSUME i.kind = "call" PROVE Means(i, "call")
  BY <1>3 DEF Means, Traps!Meaning, Rec, Bit
<1> QED
  BY <1>1, <1>2, <1>3

(* What Outcome makes where the vCPU has not to wait.                        *)
LEMMA OutcomeStays ==
    ASSUME NEW h, NEW i, NEW wd, NEW rg, NEW st, NEW wt \in BOOLEAN, wt => h # "remio"
    PROVE  Traps!Outcome(h, i, wd, rg, st, wt) = Rec(h, i.addr, wd, i.write, rg, st, FALSE, <<>>)
<1>1. (wt /\ h = "remio") = FALSE
  OBVIOUS
<1> QED
  BY <1>1 DEF Traps!Outcome, Rec

LEMMA RecBit ==
    ASSUME NEW h, NEW a, NEW wd, NEW wr, NEW rg, NEW st, NEW wt, NEW b
    PROVE  [Rec(h, a, wd, wr, rg, st, wt, <<>>) EXCEPT !.bit = b] = Rec(h, a, wd, wr, rg, st, wt, b)
  BY DEF Rec

(* Arm.                                                                     *)
LEMMA ArmServes ==
    ASSUME port = "armv8", NEW i, Traps!ArmSupported(i)
    PROVE  Served(i, Traps!aborts_sync_handler(i))
<1>0. Bit(i) = <<>> /\ Width(i) = i.width /\ Register(i) = i.reg
  BY DEF Bit, Width, Register, Tricore, Traps!ArmSupported
<1>1. CASE i.kind = "mem"
  <2>1. Traps!aborts_sync_handler(i) = Traps!aborts_data_lower(i)
    BY <1>1 DEF Traps!aborts_sync_handler
  <2>2. i.addr \in Int /\ (i.form = "no_isv" => ~Traps!Emulated(i.addr))
    BY <1>1 DEF Traps!ArmSupported
  <2> DEFINE h == Traps!vm_emul_get_mem(i.addr)
             out == Rec(h, i.addr, i.width, i.write, i.reg, i.size, h = "remio", <<>>)
  <2>3. Traps!Outcome(h, i, i.width, i.reg, i.size, TRUE) = out
    <3> HIDE DEF h
    <3>1. (TRUE /\ h = "remio") = (h = "remio")
      OBVIOUS
    <3> QED
      BY <3>1 DEF Traps!Outcome, Rec
  <2>4. Traps!aborts_data_lower(i) = IF i.form = "no_isv" \/ h = "none" THEN Traps!Error ELSE out
    BY <2>3 DEF Traps!aborts_data_lower
  <2>5. \/ h = "none" /\ Traps!Meaning(i).handler = "ERROR"
        \/ /\ h \notin {"none", "ERROR"} /\ Traps!Emulated(i.addr) /\ Traps!Meaning(i).handler = h
           /\ Traps!Meaning(i) = out
    BY <1>0, <1>1, <2>2, MeansMem
  <2> HIDE DEF h, out
  <2> QED
    BY <2>1, <2>2, <2>4, <2>5 DEF Served
<1>2. CASE i.kind = "reg"
  <2>1. Traps!aborts_sync_handler(i) = Traps!sysreg_handler(i)
    BY <1>2 DEF Traps!aborts_sync_handler
  <2>2. Traps!reg_addr_translate(i) = i.addr
    BY <1>2 DEF Traps!reg_addr_translate, Traps!ArmSupported
  <2>3. PICK n \in DOMAIN Registers : Registers[n] = [addr |-> i.addr, handler |-> i.handler]
    BY <1>2 DEF Traps!ArmSupported
  <2>4. Traps!vm_emul_get_reg(i.addr) = i.handler /\ i.handler \notin {"none", "ERROR", "remio"}
    BY <2>3, GetReg
  <2>5. i.width = 8
    BY <1>2 DEF Traps!ArmSupported
  <2>6. Traps!sysreg_handler(i) = Rec(i.handler, i.addr, 8, i.write, i.reg, i.size, FALSE, <<>>)
    BY <2>2, <2>4, OutcomeStays DEF Traps!sysreg_handler
  <2> QED
    BY <1>0, <1>2, <2>1, <2>4, <2>5, <2>6, MeansOther DEF Served, Means
<1>3. CASE i.kind = "call"
  <2>1. Traps!aborts_sync_handler(i) = Traps!syscall_handler(i)
    BY <1>3 DEF Traps!aborts_sync_handler
  <2>2. /\ i.form \in {"hvc", "smc"} /\ (i.form = "smc" => i.size = 4) /\ i.width = 8 /\ i.reg = 0
        /\ i.form = "hvc" => i.size \in Int
    BY <1>3 DEF Traps!ArmSupported
  <2>3. (IF i.form = "hvc" THEN i.size ELSE 0) + (IF i.form = "smc" THEN 4 ELSE 0) = i.size
    BY <2>2
  <2>4. Traps!syscall_handler(i) = Rec("call", i.addr, 8, i.write, 0, i.size, FALSE, <<>>)
    BY <2>3, OutcomeStays, "call" # "remio" DEF Traps!syscall_handler
  <2> QED
    BY <1>0, <1>3, <2>1, <2>2, <2>4, MeansOther DEF Served, Means
<1> QED
  BY <1>1, <1>2, <1>3 DEF Traps!ArmSupported

(* RISC-V.                                                                  *)
LEMMA RiscvServes ==
    ASSUME port = "riscv", NEW i, Traps!RiscvSupported(i)
    PROVE  Served(i, Traps!sync_exception_handler(i))
<1>0. Bit(i) = <<>> /\ Width(i) = i.width /\ Register(i) = i.reg
  BY DEF Bit, Width, Register, Tricore, Traps!RiscvSupported
<1>1. CASE i.kind = "mem"
  <2>1. Traps!sync_exception_handler(i) = Traps!guest_page_fault_handler(i)
    BY <1>1 DEF Traps!sync_exception_handler
  <2>2. /\ i.addr \in Int
        /\ Traps!Emulated(i.addr) => i.form # "pseudo" /\ ~(i.form = "memory" /\ i.size = 2 /\ i.width # 4)
    BY <1>1 DEF Traps!RiscvSupported
  <2> DEFINE h == Traps!vm_emul_get_mem(i.addr)
             out == Rec(h, i.addr, i.width, i.write, i.reg, i.size, h = "remio", <<>>)
  <2>3. Traps!Outcome(h, i, i.width, i.reg, i.size, TRUE) = out
    <3> HIDE DEF h
    <3>1. (TRUE /\ h = "remio") = (h = "remio")
      OBVIOUS
    <3> QED
      BY <3>1 DEF Traps!Outcome, Rec
  <2>4. Traps!guest_page_fault_handler(i) =
          IF h = "none" \/ i.form = "pseudo" \/ (i.form = "memory" /\ i.size = 2 /\ i.width # 4)
          THEN Traps!Error ELSE out
    BY <2>3 DEF Traps!guest_page_fault_handler
  <2>5. \/ h = "none" /\ Traps!Meaning(i).handler = "ERROR"
        \/ /\ h \notin {"none", "ERROR"} /\ Traps!Emulated(i.addr) /\ Traps!Meaning(i).handler = h
           /\ Traps!Meaning(i) = out
    BY <1>0, <1>1, <2>2, MeansMem
  <2> HIDE DEF h, out
  <2> QED
    BY <2>1, <2>2, <2>4, <2>5 DEF Served
<1>2. CASE i.kind = "call"
  <2>1. Traps!sync_exception_handler(i) = Traps!Outcome("call", i, 8, 10, 4, TRUE)
    BY <1>2 DEF Traps!sync_exception_handler
  <2>2. i.size = 4 /\ i.width = 8 /\ i.reg = 10
    BY <1>2 DEF Traps!RiscvSupported
  <2>3. Traps!Outcome("call", i, 8, 10, 4, TRUE) = Rec("call", i.addr, 8, i.write, 10, 4, FALSE, <<>>)
    BY OutcomeStays, "call" # "remio"
  <2> QED
    BY <1>0, <1>2, <2>1, <2>2, <2>3, MeansOther DEF Served, Means
<1> QED
  BY <1>1, <1>2 DEF Traps!RiscvSupported

(* RH850.                                                                   *)
LEMMA Rh850Serves ==
    ASSUME port = "rh850", NEW i, Traps!Rh850Supported(i)
    PROVE  Served(i, Traps!abort(i))
<1>0. Width(i) = i.width /\ Register(i) = i.reg
  BY DEF Width, Register, Tricore
<1>1. CASE i.kind = "mem"
  <2> DEFINE h == Traps!vm_emul_get_mem(i.addr)
  <2>1. Traps!abort(i) = Traps!data_abort(i)
    BY <1>1 DEF Traps!abort
  <2>2. i.addr \in Int /\ ~Traps!Waited(i.addr)
    BY <1>1 DEF Traps!Rh850Supported
  <2>3. Bit(i) = Traps!decode_access(i)
    BY DEF Bit, Traps!decode_access, Traps!Rh850Supported
  <2>4. [Traps!Outcome(h, i, i.width, i.reg, i.size, FALSE) EXCEPT !.bit = Traps!decode_access(i)]
          = Rec(h, i.addr, i.width, i.write, i.reg, i.size, FALSE, Traps!decode_access(i))
    <3>1. Traps!Outcome(h, i, i.width, i.reg, i.size, FALSE)
            = Rec(h, i.addr, i.width, i.write, i.reg, i.size, FALSE, <<>>)
      BY OutcomeStays
    <3>2. [Rec(h, i.addr, i.width, i.write, i.reg, i.size, FALSE, <<>>) EXCEPT !.bit = Traps!decode_access(i)]
            = Rec(h, i.addr, i.width, i.write, i.reg, i.size, FALSE, Traps!decode_access(i))
      <4> DEFINE b == Traps!decode_access(i)
                 f == FALSE
      <4> HIDE DEF h, b, f
      <4>1. [Rec(h, i.addr, i.width, i.write, i.reg, i.size, f, <<>>) EXCEPT !.bit = b]
              = Rec(h, i.addr, i.width, i.write, i.reg, i.size, f, b)
        BY RecBit
      <4> QED
        BY <4>1 DEF b, f
    <3> QED
      BY <3>1, <3>2
  <2> HIDE DEF h
  <2>5. \/ h = "none" /\ Traps!Meaning(i).handler = "ERROR"
        \/ /\ h \notin {"none", "ERROR"} /\ Traps!Meaning(i).handler = h
           /\ Traps!Meaning(i) = Rec(h, i.addr, i.width, i.write, i.reg, i.size, FALSE, Traps!decode_access(i))
    BY <1>0, <1>1, <2>2, <2>3, MeansMem DEF h
  <2>6. Traps!data_abort(i) = IF h = "none" THEN Traps!Error
                              ELSE Rec(h, i.addr, i.width, i.write, i.reg, i.size, FALSE, Traps!decode_access(i))
    BY <2>4 DEF Traps!data_abort, h
  <2> QED
    BY <2>1, <2>5, <2>6 DEF Served
<1>2. CASE i.kind = "call"
  <2>1. Traps!abort(i) = Traps!Outcome("call", i, 4, 6, i.size, FALSE)
    BY <1>2 DEF Traps!abort, Traps!hvtrap
  <2>2. Bit(i) = <<>> /\ i.width = 4 /\ i.reg = 6
    BY <1>2 DEF Bit, Traps!Rh850Supported
  <2>3. Traps!Outcome("call", i, 4, 6, i.size, FALSE)
          = Rec("call", i.addr, 4, i.write, 6, i.size, FALSE, <<>>)
    BY OutcomeStays
  <2> QED
    BY <1>0, <1>2, <2>1, <2>2, <2>3, MeansOther DEF Served, Means
<1> QED
  BY <1>1, <1>2 DEF Traps!Rh850Supported

(* The widths of the mnemonics.                                             *)
LEMMA Widths ==
    LET W(m) == Traps!MnemonicWidth(m)
    IN  /\ W("B") = 1 /\ W("H") = 2 /\ W("Q") = 2 /\ W("A") = 4 /\ W("W") = 4
        /\ W("D") = 8 /\ W("DA") = 8 /\ W("DD") = 16
  BY DEF Traps!MnemonicWidth

(* TriCore: the tables of decode.c, row by row.                             *)
LEMMA Decodes16 ==
    ASSUME NEW i, i.op \in Traps!Opcodes16, i.field \in 0 .. 15
    PROVE  Traps!decode_16b_access(i.op, i.field)
             = Traps!Decoded(Traps!MeantRegister(i), Traps!MnemonicWidth(Traps!Mnemonic(i)))
<1>1. CASE i.op \in {\hD8, \hCC, \hF8, \hEC}
  <2>1. Traps!Mnemonic(i) = "A"
    BY <1>1 DEF Traps!Mnemonic
  <2>2. Traps!MeantRegister(i) = 15
    BY <1>1, <2>1 DEF Traps!MeantRegister
  <2>3. Traps!decode_16b_access(i.op, i.field) = Traps!Decoded(15, 4)
    BY <1>1 DEF Traps!decode_16b_access
  <2> QED
    BY <2>1, <2>2, <2>3, Widths
<1>2. CASE i.op \in {\hC4, \hD4, \hC8, \hE4, \hF4, \hE8}
  <2>1. Traps!Mnemonic(i) = "A"
    BY <1>2 DEF Traps!Mnemonic
  <2>2. Traps!MeantRegister(i) = i.field
    BY <1>2, <2>1 DEF Traps!MeantRegister
  <2>3. Traps!decode_16b_access(i.op, i.field) = Traps!Decoded(i.field, 4)
    BY <1>2 DEF Traps!decode_16b_access
  <2> QED
    BY <2>1, <2>2, <2>3, Widths
<1>3. CASE i.op \in {\h04, \h14, \h08, \h24, \h34, \h28}
  <2>1. Traps!Mnemonic(i) = "B"
    BY <1>3 DEF Traps!Mnemonic
  <2>2. Traps!MeantRegister(i) = i.field + 16
    BY <1>3, <2>1 DEF Traps!MeantRegister
  <2>3. Traps!decode_16b_access(i.op, i.field) = Traps!Decoded(i.field + 16, 1)
    BY <1>3 DEF Traps!decode_16b_access
  <2> QED
    BY <2>1, <2>2, <2>3, Widths
<1>4. CASE i.op \in {\h84, \h94, \h88, \hA4, \hB4, \hA8}
  <2>1. Traps!Mnemonic(i) = "H"
    BY <1>4 DEF Traps!Mnemonic
  <2>2. Traps!MeantRegister(i) = i.field + 16
    BY <1>4, <2>1 DEF Traps!MeantRegister
  <2>3. Traps!decode_16b_access(i.op, i.field) = Traps!Decoded(i.field + 16, 2)
    BY <1>4 DEF Traps!decode_16b_access
  <2> QED
    BY <2>1, <2>2, <2>3, Widths
<1>5. CASE i.op \in {\h58, \h4C, \h78, \h6C}
  <2>1. Traps!Mnemonic(i) = "W"
    BY <1>5 DEF Traps!Mnemonic
  <2>2. Traps!MeantRegister(i) = 31
    BY <1>5, <2>1 DEF Traps!MeantRegister
  <2>3. Traps!decode_16b_access(i.op, i.field) = Traps!Decoded(31, 4)
    BY <1>5 DEF Traps!decode_16b_access
  <2> QED
    BY <2>1, <2>2, <2>3, Widths
<1>6. CASE i.op \in {\h44, \h54, \h48, \h64, \h74, \h68}
  <2>1. Traps!Mnemonic(i) = "W"
    BY <1>6 DEF Traps!Mnemonic
  <2>2. Traps!MeantRegister(i) = i.field + 16
    BY <1>6, <2>1 DEF Traps!MeantRegister
  <2>3. Traps!decode_16b_access(i.op, i.field) = Traps!Decoded(i.field + 16, 4)
    BY <1>6 DEF Traps!decode_16b_access
  <2> QED
    BY <2>1, <2>2, <2>3, Widths
<1> QED
  BY <1>1, <1>2, <1>3, <1>4, <1>5, <1>6 DEF Traps!Opcodes16

LEMMA Decodes32 ==
    ASSUME NEW i, i.field \in 0 .. 15,
           \/ i.op \in Traps!Opcodes32
           \/ i.op \in {\h85, \hA5, \h25, \h05} /\ i.sub \in 0 .. 3
           \/ i.op \in {\h09, \h29, \hA9, \h89} /\ i.sub \in 0 .. 9 \ {1, 3}
    PROVE  Traps!decode_32b_access(i.op, i.sub, i.field)
             = Traps!Decoded(Traps!MeantRegister(i), Traps!MnemonicWidth(Traps!Mnemonic(i)))
<1>1. CASE i.op \in {\h85, \hA5} /\ i.sub = 0
  <2>1. Traps!Mnemonic(i) = "W"
    BY <1>1 DEF Traps!Mnemonic
  <2>2. Traps!MeantRegister(i) = i.field + 16
    BY <1>1, <2>1 DEF Traps!MeantRegister
  <2>3. Traps!decode_32b_access(i.op, i.sub, i.field) = Traps!Decoded(i.field + 16, 4)
    BY <1>1 DEF Traps!decode_32b_access
  <2> QED
    BY <2>1, <2>2, <2>3, Widths
<1>2. CASE i.op \in {\h85, \hA5} /\ i.sub = 1
  <2>1. Traps!Mnemonic(i) = "D"
    BY <1>2 DEF Traps!Mnemonic
  <2>2. Traps!MeantRegister(i) = i.field + 16
    BY <1>2, <2>1 DEF Traps!MeantRegister
  <2>3. Traps!decode_32b_access(i.op, i.sub, i.field) = Traps!Decoded(i.field + 16, 8)
    BY <1>2 DEF Traps!decode_32b_access
  <2> QED
    BY <2>1, <2>2, <2>3, Widths
<1>3. CASE i.op \in {\h85, \hA5} /\ i.sub = 2
  <2>1. Traps!Mnemonic(i) = "A"
    BY <1>3 DEF Traps!Mnemonic
  <2>2. Traps!MeantRegister(i) = i.field
    BY <1>3, <2>1 DEF Traps!MeantRegister
  <2>3. Traps!decode_32b_access(i.op, i.sub, i.field) = Traps!Decoded(i.field, 4)
    BY <1>3 DEF Traps!decode_32b_access
  <2> QED
    BY <2>1, <2>2, <2>3, Widths
<1>4. CASE i.op \in {\h85, \hA5} /\ i.sub = 3
  <2>1. Traps!Mnemonic(i) = "DA"
    BY <1>4 DEF Traps!Mnemonic
  <2>2. Traps!MeantRegister(i) = i.field
    BY <1>4, <2>1 DEF Traps!MeantRegister
  <2>3. Traps!decode_32b_access(i.op, i.sub, i.field) = Traps!Decoded(i.field, 8)
    BY <1>4 DEF Traps!decode_32b_access
  <2> QED
    BY <2>1, <2>2, <2>3, Widths
<1>5. CASE i.op \in {\h09, \h29, \hA9, \h89} /\ i.sub = 0
  <2>1. Traps!Mnemonic(i) = "B"
    BY <1>5 DEF Traps!Mnemonic
  <2>2. Traps!MeantRegister(i) = i.field + 16
    BY <1>5, <2>1 DEF Traps!MeantRegister
  <2>3. Traps!decode_32b_access(i.op, i.sub, i.field) = Traps!Decoded(i.field + 16, 1)
    BY <1>5 DEF Traps!decode_32b_access
  <2> QED
    BY <2>1, <2>2, <2>3, Widths
<1>6. CASE i.op \in {\h09, \h29, \hA9, \h89} /\ i.sub = 2
  <2>1. Traps!Mnemonic(i) = "H"
    BY <1>6 DEF Traps!Mnemonic
  <2>2. Traps!MeantRegister(i) = i.field + 16
    BY <1>6, <2>1 DEF Traps!MeantRegister
  <2>3. Traps!decode_32b_access(i.op, i.sub, i.field) = Traps!Decoded(i.field + 16, 2)
    BY <1>6 DEF Traps!decode_32b_access
  <2> QED
    BY <2>1, <2>2, <2>3, Widths
<1>7. CASE i.op \in {\h09, \h29, \hA9, \h89} /\ i.sub = 4
  <2>1. Traps!Mnemonic(i) = "W"
    BY <1>7 DEF Traps!Mnemonic
  <2>2. Traps!MeantRegister(i) = i.field + 16
    BY <1>7, <2>1 DEF Traps!MeantRegister
  <2>3. Traps!decode_32b_access(i.op, i.sub, i.field) = Traps!Decoded(i.field + 16, 4)
    BY <1>7 DEF Traps!decode_32b_access
  <2> QED
    BY <2>1, <2>2, <2>3, Widths
<1>8. CASE i.op \in {\h09, \h29, \hA9, \h89} /\ i.sub = 5
  <2>1. Traps!Mnemonic(i) = "D"
    BY <1>8 DEF Traps!Mnemonic
  <2>2. Traps!MeantRegister(i) = i.field + 16
    BY <1>8, <2>1 DEF Traps!MeantRegister
  <2>3. Traps!decode_32b_access(i.op, i.sub, i.field) = Traps!Decoded(i.field + 16, 8)
    BY <1>8 DEF Traps!decode_32b_access
  <2> QED
    BY <2>1, <2>2, <2>3, Widths
<1>9. CASE i.op \in {\h09, \h29, \hA9, \h89} /\ i.sub = 6
  <2>1. Traps!Mnemonic(i) = "A"
    BY <1>9 DEF Traps!Mnemonic
  <2>2. Traps!MeantRegister(i) = i.field
    BY <1>9, <2>1 DEF Traps!MeantRegister
  <2>3. Traps!decode_32b_access(i.op, i.sub, i.field) = Traps!Decoded(i.field, 4)
    BY <1>9 DEF Traps!decode_32b_access
  <2> QED
    BY <2>1, <2>2, <2>3, Widths
<1>10. CASE i.op \in {\h09, \h29, \hA9, \h89} /\ i.sub = 7
  <2>1. Traps!Mnemonic(i) = "DA"
    BY <1>10 DEF Traps!Mnemonic
  <2>2. Traps!MeantRegister(i) = i.field
    BY <1>10, <2>1 DEF Traps!MeantRegister
  <2>3. Traps!decode_32b_access(i.op, i.sub, i.field) = Traps!Decoded(i.field, 8)
    BY <1>10 DEF Traps!decode_32b_access
  <2> QED
    BY <2>1, <2>2, <2>3, Widths
<1>11. CASE i.op \in {\h09, \h29, \hA9, \h89} /\ i.sub = 8
  <2>1. Traps!Mnemonic(i) = "Q"
    BY <1>11 DEF Traps!Mnemonic
  <2>2. Traps!MeantRegister(i) = i.field + 16
    BY <1>11, <2>1 DEF Traps!MeantRegister
  <2>3. Traps!decode_32b_access(i.op, i.sub, i.field) = Traps!Decoded(i.field + 16, 2)
    BY <1>11 DEF Traps!decode_32b_access
  <2> QED
    BY <2>1, <2>2, <2>3, Widths
<1>12. CASE i.op \in {\h09, \h29, \hA9, \h89} /\ i.sub = 9
  <2>1. Traps!Mnemonic(i) = "DD"
    BY <1>12 DEF Traps!Mnemonic
  <2>2. Traps!MeantRegister(i) = i.field + 16
    BY <1>12, <2>1 DEF Traps!MeantRegister
  <2>3. Traps!decode_32b_access(i.op, i.sub, i.field) = Traps!Decoded(i.field + 16, 16)
    BY <1>12 DEF Traps!decode_32b_access
  <2> QED
    BY <2>1, <2>2, <2>3, Widths
<1>13. CASE i.op \in {\h25, \h05} /\ i.sub = 0
  <2>1. Traps!Mnemonic(i) = "B"
    BY <1>13 DEF Traps!Mnemonic
  <2>2. Traps!MeantRegister(i) = i.field + 16
    BY <1>13, <2>1 DEF Traps!MeantRegister
  <2>3. Traps!decode_32b_access(i.op, i.sub, i.field) = Traps!Decoded(i.field + 16, 1)
    BY <1>13 DEF Traps!decode_32b_access
  <2> QED
    BY <2>1, <2>2, <2>3, Widths
<1>14. CASE i.op \in {\h25, \h05} /\ i.sub = 1
  <2>1. Traps!Mnemonic(i) = "B"
    BY <1>14 DEF Traps!Mnemonic
  <2>2. Traps!MeantRegister(i) = i.field + 16
    BY <1>14, <2>1 DEF Traps!MeantRegister
  <2>3. Traps!decode_32b_access(i.op, i.sub, i.field) = Traps!Decoded(i.field + 16, 1)
    BY <1>14 DEF Traps!decode_32b_access
  <2> QED
    BY <2>1, <2>2, <2>3, Widths
<1>15. CASE i.op \in {\h25, \h05} /\ i.sub = 2
  <2>1. Traps!Mnemonic(i) = "H"
    BY <1>15 DEF Traps!Mnemonic
  <2>2. Traps!MeantRegister(i) = i.field + 16
    BY <1>15, <2>1 DEF Traps!MeantRegister
  <2>3. Traps!decode_32b_access(i.op, i.sub, i.field) = Traps!Decoded(i.field + 16, 2)
    BY <1>15 DEF Traps!decode_32b_access
  <2> QED
    BY <2>1, <2>2, <2>3, Widths
<1>16. CASE i.op \in {\h25, \h05} /\ i.sub = 3
  <2>1. Traps!Mnemonic(i) = "H"
    BY <1>16 DEF Traps!Mnemonic
  <2>2. Traps!MeantRegister(i) = i.field + 16
    BY <1>16, <2>1 DEF Traps!MeantRegister
  <2>3. Traps!decode_32b_access(i.op, i.sub, i.field) = Traps!Decoded(i.field + 16, 2)
    BY <1>16 DEF Traps!decode_32b_access
  <2> QED
    BY <2>1, <2>2, <2>3, Widths
<1>17. CASE i.op \in {\hB5, \h99}
  <2>1. Traps!Mnemonic(i) = "A"
    BY <1>17 DEF Traps!Mnemonic
  <2>2. Traps!MeantRegister(i) = i.field
    BY <1>17, <2>1 DEF Traps!MeantRegister
  <2>3. Traps!decode_32b_access(i.op, i.sub, i.field) = Traps!Decoded(i.field, 4)
    BY <1>17 DEF Traps!decode_32b_access
  <2> QED
    BY <2>1, <2>2, <2>3, Widths
<1>18. CASE i.op \in {\hE9, \h79, \h39}
  <2>1. Traps!Mnemonic(i) = "B"
    BY <1>18 DEF Traps!Mnemonic
  <2>2. Traps!MeantRegister(i) = i.field + 16
    BY <1>18, <2>1 DEF Traps!MeantRegister
  <2>3. Traps!decode_32b_access(i.op, i.sub, i.field) = Traps!Decoded(i.field + 16, 1)
    BY <1>18 DEF Traps!decode_32b_access
  <2> QED
    BY <2>1, <2>2, <2>3, Widths
<1>19. CASE i.op \in {\hF9, \hB9, \hC9}
  <2>1. Traps!Mnemonic(i) = "H"
    BY <1>19 DEF Traps!Mnemonic
  <2>2. Traps!MeantRegister(i) = i.field + 16
    BY <1>19, <2>1 DEF Traps!MeantRegister
  <2>3. Traps!decode_32b_access(i.op, i.sub, i.field) = Traps!Decoded(i.field + 16, 2)
    BY <1>19 DEF Traps!decode_32b_access
  <2> QED
    BY <2>1, <2>2, <2>3, Widths
<1>20. CASE i.op \in {\h59, \h19}
  <2>1. Traps!Mnemonic(i) = "W"
    BY <1>20 DEF Traps!Mnemonic
  <2>2. Traps!MeantRegister(i) = i.field + 16
    BY <1>20, <2>1 DEF Traps!MeantRegister
  <2>3. Traps!decode_32b_access(i.op, i.sub, i.field) = Traps!Decoded(i.field + 16, 4)
    BY <1>20 DEF Traps!decode_32b_access
  <2> QED
    BY <2>1, <2>2, <2>3, Widths
<1>21. CASE i.op \in {\h65, \h45}
  <2>1. Traps!Mnemonic(i) = "Q"
    BY <1>21 DEF Traps!Mnemonic
  <2>2. Traps!MeantRegister(i) = i.field + 16
    BY <1>21, <2>1 DEF Traps!MeantRegister
  <2>3. Traps!decode_32b_access(i.op, i.sub, i.field) = Traps!Decoded(i.field + 16, 2)
    BY <1>21 DEF Traps!decode_32b_access
  <2> QED
    BY <2>1, <2>2, <2>3, Widths
<1>22. i.op \in {\h85, \hA5, \h25, \h05} /\ i.sub \in 0 .. 3 => i.sub \in {0, 1, 2, 3}
  OBVIOUS
<1>23. i.sub \in 0 .. 9 \ {1, 3} => i.sub \in {0, 2, 4, 5, 6, 7, 8, 9}
  OBVIOUS
<1> QED
  BY <1>1, <1>2, <1>3, <1>4, <1>5, <1>6, <1>7, <1>8, <1>9, <1>10, <1>11, <1>12, <1>13, <1>14, <1>15, <1>16, <1>17, <1>18, <1>19, <1>20, <1>21, <1>22, <1>23 DEF Traps!Opcodes32

(* TriCore.                                                                 *)
LEMMA TricoreServes ==
    ASSUME port = "tricore", NEW i, Traps!TricoreSupported(i)
    PROVE  Served(i, Traps!tricore_trap(i))
<1>0. Bit(i) = <<>>
  BY DEF Bit, Traps!TricoreSupported
<1>1. CASE i.kind = "mem"
  <2> DEFINE h == Traps!vm_emul_get_mem(i.addr)
             access == IF i.op % 2 = 0 THEN Traps!decode_16b_access(i.op, i.field)
                       ELSE Traps!decode_32b_access(i.op, i.sub, i.field)
  <2>1. Traps!tricore_trap(i) = Traps!l2_dmem_prot_trap_handler(i)
    BY <1>1 DEF Traps!tricore_trap
  <2>2. /\ i.addr \in Int /\ ~Traps!Waited(i.addr) /\ i.field \in 0 .. 15
        /\ i.size = (IF i.op % 2 = 0 THEN 2 ELSE 4)
        /\ \/ i.op \in Traps!Opcodes16
           \/ i.op \in Traps!Opcodes32
           \/ i.op \in {\h85, \hA5, \h25, \h05} /\ i.sub \in 0 .. 3
           \/ i.op \in {\h09, \h29, \hA9, \h89} /\ i.sub \in 0 .. 9 \ {1, 3}
    BY <1>1 DEF Traps!TricoreSupported
  <2>3. i.op \in Traps!Opcodes16 => i.op % 2 = 0
    BY DEF Traps!Opcodes16
  <2>4. i.op \in Traps!Opcodes32 \cup {\h85, \hA5, \h25, \h05, \h09, \h29, \hA9, \h89} => i.op % 2 # 0
    BY DEF Traps!Opcodes32
  <2>5. access = Traps!Decoded(Traps!MeantRegister(i), Traps!MnemonicWidth(Traps!Mnemonic(i)))
    BY <2>2, <2>3, <2>4, Decodes16, Decodes32
  <2>6. /\ access.ret = TRUE /\ access.reg = Register(i) /\ access.width = Width(i)
    BY <1>1, <2>5 DEF Traps!Decoded, Register, Width, Tricore
  <2>7. Traps!l2_dmem_prot_trap_handler(i) =
          IF h = "none" THEN Traps!Error
          ELSE IF access.ret THEN Traps!Outcome(h, i, access.width, access.reg, i.size, FALSE)
          ELSE Traps!Outcome("skipped", i, 0, 0, i.size, FALSE)
    BY <2>2 DEF Traps!l2_dmem_prot_trap_handler
  <2> HIDE DEF h, access
  <2>8. Traps!l2_dmem_prot_trap_handler(i) =
          IF h = "none" THEN Traps!Error
          ELSE Rec(h, i.addr, Width(i), i.write, Register(i), i.size, FALSE, <<>>)
    <3>1. Traps!Outcome(h, i, access.width, access.reg, i.size, FALSE)
            = Rec(h, i.addr, access.width, i.write, access.reg, i.size, FALSE, <<>>)
      BY OutcomeStays
    <3> QED
      BY <2>6, <2>7, <3>1
  <2>9. \/ h = "none" /\ Traps!Meaning(i).handler = "ERROR"
        \/ /\ h \notin {"none", "ERROR"} /\ Traps!Meaning(i).handler = h
           /\ Traps!Meaning(i) = Rec(h, i.addr, Width(i), i.write, Register(i), i.size, FALSE, <<>>)
    <3>1. i.addr \in Int /\ ~Traps!Waited(i.addr)
      BY <2>2
    <3> QED
      BY <1>0, <1>1, <3>1, MeansMem DEF h
  <2> QED
    BY <2>1, <2>8, <2>9 DEF Served
<1>2. CASE i.kind = "reg"
  <2>1. Traps!tricore_trap(i) = Traps!hyp_csfr_access_handler(i)
    BY <1>2 DEF Traps!tricore_trap
  <2>2. /\ \/ i.addr = "PCON0" /\ i.handler = "csfr_pcon0"
           \/ i.addr = "DCON0" /\ i.handler = "csfr_dcon0"
        /\ i.width = 4 /\ i.reg = i.field + 16 /\ i.size = 4
    BY <1>2 DEF Traps!TricoreSupported
  <2>3. Traps!hyp_csfr_access_handler(i) = Traps!Outcome(i.handler, i, i.width, i.reg, i.size, FALSE)
    BY <2>2 DEF Traps!hyp_csfr_access_handler
  <2>4. Traps!Outcome(i.handler, i, i.width, i.reg, i.size, FALSE)
          = Rec(i.handler, i.addr, i.width, i.write, i.reg, i.size, FALSE, <<>>)
    BY OutcomeStays
  <2>5. i.handler # "ERROR"
    BY <2>2
  <2> QED
    BY <1>0, <1>2, <2>1, <2>3, <2>4, <2>5, MeansOther DEF Served, Means
<1>3. CASE i.kind = "bus"
  <2>1. Traps!tricore_trap(i) = Traps!sys_bus_errors_handler(i)
    BY <1>3 DEF Traps!tricore_trap
  <2>2. i.addr \in DeviceBases /\ i.width = 0 /\ i.reg = 0
    BY <1>3 DEF Traps!TricoreSupported
  <2>3. Traps!sys_bus_errors_handler(i) = Rec("ignored", i.addr, 0, i.write, 0, i.size, FALSE, <<>>)
    BY <2>2, OutcomeStays DEF Traps!sys_bus_errors_handler
  <2> QED
    BY <1>0, <1>3, <2>1, <2>2, <2>3, MeansOther DEF Served, Means
<1> QED
  BY <1>1, <1>2, <1>3 DEF Traps!TricoreSupported

(* What trapped is an instruction of the port, and came to its outcome.     *)
TrapInv ==
    /\ port \in Ports
    /\ DOMAIN served = VM
    /\ \A v \in VM :
          \/ served[v] = Traps!NotYet
          \/ /\ served[v].insn \in Instructions[port]
             /\ served[v].out = Traps!TrapOutcome(served[v].insn)

LEMMA InitTrap == SetupInit => TrapInv
  BY SetupAssumption DEF SetupInit, Traps!Init, TrapInv

(* Only guests' traps change what was served, and nothing changes the port. *)
LEMMA NextTrap == TrapInv /\ [SetupNext]_<<vars, remio, master, io, ipc, served, guest>> => TrapInv'
<1> SUFFICES ASSUME TrapInv, [SetupNext]_<<vars, remio, master, io, ipc, served, guest>>
             PROVE  TrapInv'
  OBVIOUS
<1>0. port' = port => \A i : (Traps!TrapOutcome(i))' = Traps!TrapOutcome(i)
  BY DEF Traps!TrapOutcome
<1>1. ASSUME UNCHANGED <<port, served>> PROVE TrapInv'
  BY <1>1 DEF TrapInv, Traps!TrapOutcome
<1>2. ASSUME NEW v \in VM, GuestTraps(v) PROVE TrapInv'
  <2> PICK i \in Instructions[port] : Traps!Trap(v, i)
    BY <1>2 DEF GuestTraps
  <2>1. port' = port
    BY <1>2 DEF GuestTraps, lines
  <2>2. served' = [served EXCEPT ![v] = [trapped |-> TRUE, insn |-> i, out |-> Traps!TrapOutcome(i)]]
    BY DEF Traps!Trap
  <2>3. /\ served'[v].insn = i /\ served'[v].out = Traps!TrapOutcome(i)
        /\ \A w \in VM : w # v => served'[w] = served[w]
        /\ DOMAIN served' = VM
    BY <2>2 DEF TrapInv
  <2> QED
    BY <2>1, <2>3 DEF TrapInv, Traps!TrapOutcome
<1>3. ASSUME NEW v \in VM, vm_init_ipc(v) \/ vm_init_remio(v) \/ Rings(v) \/ vm_init_dev(v)
      PROVE  UNCHANGED <<port, served>>
  BY <1>3 DEF vm_init_ipc, vm_init_remio, Rings, vm_init_dev, vars, lines
<1>4. ASSUME NEW v \in VM, vm_assign_line(v) \/ \E id \in Line : Fires(v, id)
      PROVE  UNCHANGED <<port, served>>
  BY <1>4 DEF vm_assign_line, Fires, interrupts_vm_assign, interrupts_handle
<1>5. ASSUME remio_init \/ IoFaults PROVE UNCHANGED <<port, served>>
  BY <1>5 DEF remio_init, IoFaults, vars, lines
<1>6. ASSUME Reserve, UNCHANGED <<remio, master, io, ipc, served, guest>> PROVE UNCHANGED <<port, served>>
  BY <1>6 DEF Reserve
<1>7. ASSUME UNCHANGED <<vars, remio, master, io, ipc, served, guest>> PROVE UNCHANGED <<port, served>>
  BY <1>7 DEF vars
<1> QED
  BY <1>1, <1>2, <1>3, <1>4, <1>5, <1>6, <1>7 DEF SetupNext

(* An instruction that a port decodes is carried out as the guest means it: *)
(* by the handler of its address, with the register and the width of the    *)
(* instruction, and the guest goes on behind it; an address that nobody     *)
(* emulates stops the CPU. For any regions, registers and operands.         *)
THEOREM TrapsAreServed == SetupSpec => []TrapsServed
<1>1. TrapInv => TrapsServed
  <2> SUFFICES ASSUME TrapInv, NEW v \in VM, served[v] # Traps!NotYet
               PROVE  Served(served[v].insn, served[v].out)
    BY DEF TrapsServed, Traps!TrapsServed, Served
  <2> DEFINE i == served[v].insn
  <2>1. served[v].out = Traps!TrapOutcome(i) /\ i \in Instructions[port] /\ port \in Ports
    BY DEF TrapInv
  <2> HIDE DEF i
  <2>2. Traps!Supported(port, i)
    BY <2>1, SetupAssumption
  <2>3. port \in {"armv8", "riscv", "rh850", "tricore"}
    BY <2>1, InterruptsAssumption
  <2>4. ASSUME port = "armv8" PROVE Served(i, Traps!TrapOutcome(i))
    <3>1. Traps!ArmSupported(i)
      BY <2>2, <2>4 DEF Traps!Supported
    <3>2. Traps!TrapOutcome(i) = Traps!aborts_sync_handler(i)
      BY <2>4 DEF Traps!TrapOutcome
    <3> QED
      BY <2>4, <3>1, <3>2, ArmServes
  <2>5. ASSUME port = "riscv" PROVE Served(i, Traps!TrapOutcome(i))
    <3>1. Traps!RiscvSupported(i)
      BY <2>2, <2>5 DEF Traps!Supported
    <3>2. Traps!TrapOutcome(i) = Traps!sync_exception_handler(i)
      BY <2>5 DEF Traps!TrapOutcome
    <3> QED
      BY <2>5, <3>1, <3>2, RiscvServes
  <2>6. ASSUME port = "rh850" PROVE Served(i, Traps!TrapOutcome(i))
    <3>1. Traps!Rh850Supported(i)
      BY <2>2, <2>6 DEF Traps!Supported
    <3>2. Traps!TrapOutcome(i) = Traps!abort(i)
      BY <2>6 DEF Traps!TrapOutcome
    <3> QED
      BY <2>6, <3>1, <3>2, Rh850Serves
  <2>7. ASSUME port = "tricore" PROVE Served(i, Traps!TrapOutcome(i))
    <3>1. Traps!TricoreSupported(i)
      BY <2>2, <2>7 DEF Traps!Supported
    <3>2. Traps!TrapOutcome(i) = Traps!tricore_trap(i)
      BY <2>7 DEF Traps!TrapOutcome
    <3> QED
      BY <2>7, <3>1, <3>2, TricoreServes
  <2>8. Served(i, Traps!TrapOutcome(i))
    BY <2>3, <2>4, <2>5, <2>6, <2>7
  <2> QED
    BY <2>1, <2>8 DEF i
<1> QED
  BY InitTrap, NextTrap, <1>1, PTL DEF SetupSpec

=============================================================================
