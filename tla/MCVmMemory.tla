---------------------------- MODULE MCVmMemory ----------------------------
EXTENDS VmMemory

MCPlatforms ==
    {[regions |-> <<[base |-> 0, size |-> 40], [base |-> 40, size |-> 24]>>, img |-> 0,
      load |-> 1, vm_image |-> 2, noload |-> 1, cpu |-> 3, cpu_num |-> 2, non_unified |-> FALSE,
      data |-> 0, data_size |-> 0]}

MCSections ==
    [HYP |-> [HYP_PRIVATE |-> [beg |-> 0, end |-> 15], HYP_VM |-> [beg |-> 16, end |-> 31]],
     VM |-> [ANY |-> [beg |-> 0, end |-> 15]]]

MCTerm == [l \in 0 .. 1 |-> TRUE]

Reg(base, size, phys) == [base |-> base, size |-> size, phys |-> phys, colors |-> {}]
Img(base, load, size, inplace) == [base |-> base, load |-> load, size |-> size, inplace |-> inplace]
Dev == <<[va |-> 12, pa |-> 64, size |-> 1]>>
Ipc == <<[base |-> 14, size |-> 3, shmem |-> 1]>>

(* A VM with a device, its image part of the hypervisor's, and one without, *)
(* its image loaded apart; a region that is not placed, placed elsewhere,   *)
(* or placed around the image; copied or in place; coloured or not.         *)
First == {[colors |-> c, image |-> Img(r.base + o, 1, 2, o = 1), regions |-> <<r>>,
           devs |-> Dev, ipcs |-> Ipc] :
              c \in {{}, {0, 1}}, o \in {0, 1},
              r \in {Reg(2, 4, -1), Reg(4, 5, -1), Reg(4, 4, 45)}}
Second == {[colors |-> c, image |-> Img(5, 20, 3, r.phys = -1),
            regions |-> <<r, Reg(0, 2, -1)>>, devs |-> <<>>, ipcs |-> Ipc] :
               c \in {{}, {1, 3}}, r \in {Reg(4, 4, -1), Reg(4, 5, 20), Reg(4, 5, 48)}}

(* An image that is recoloured in place lies in one table: mem_inflate_pt   *)
(* misses the last table of one that does not begin at a table.             *)
Supported(v) ==
    v.image.inplace /\ v.colors # {} => (v.image.base % 4) + v.image.size <= 4

(* What overlaps must be refused: the two VMs, a VM and the shared memory,  *)
(* a VM and the hypervisor, a region that leaves the RAM.                   *)
Refused2 == {[colors |-> {}, image |-> Img(5, load, 2, FALSE), regions |-> <<Reg(4, 4, phys)>>,
              devs |-> <<>>, ipcs |-> Ipc] : load \in {2, 44, 50}, phys \in {8, 43, 47, 54, 62}}

MCConfigs ==
    {[vms |-> <<a, b>>,
      shmems |-> <<[size |-> 2, phys |-> IF a.colors = {} THEN 56 ELSE -1, colors |-> {}]>>] :
         a \in {v \in First : Supported(v)}, b \in Second}
    \cup
    {[vms |-> <<a, b>>, shmems |-> <<[size |-> 2, phys |-> 56, colors |-> {}]>>] :
         a \in {v \in First : v.regions[1].phys # -1 /\ v.colors = {}}, b \in Refused2}

MCSystems == {[plat |-> p, cfg |-> g] : p \in MCPlatforms, g \in MCConfigs}
=============================================================================
