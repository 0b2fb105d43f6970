---------------------------- MODULE MCMpuMemory ----------------------------
EXTENDS MpuMemory

MCCPU == 0 .. 2

Dev(base, size, sec, keep) == [base |-> base, size |-> size, sec |-> sec, keep |-> keep]
Mmio(base, size) == [base |-> base, size |-> size]

(* Devices in use for a while and for good, none next to another.           *)
Devices == <<Dev(50, 1, "HYP_GLOBAL", FALSE), Dev(51, 1, "HYP_GLOBAL", TRUE),
             Dev(60, 2, "HYP_PRIVATE", FALSE), Dev(54, 2, "HYP_GLOBAL", TRUE)>>

Unified ==
    [regions |-> <<[base |-> 0, size |-> 32]>>, img |-> 0, load |-> 2, vm_image |-> 2,
     noload |-> 1, cpu |-> 1, cpu_num |-> 3, non_unified |-> FALSE, data |-> 0, data_size |-> 0,
     port |-> "armv8-r", slave_side_prot |-> FALSE, mmio |-> <<>>, src |-> 0, devs |-> Devices]

Split(port, slave) ==
    [Unified EXCEPT !.port = port, !.slave_side_prot = slave, !.regions = @ \o <<[base |-> 32, size |-> 16]>>,
        !.non_unified = TRUE, !.vm_image = 0, !.noload = 0, !.data = 32, !.data_size = 2,
        !.mmio = IF slave THEN <<Mmio(50, 8), Mmio(60, 2)>> ELSE <<>>, !.src = 53,
        !.devs = IF slave THEN <<>> ELSE Devices]

MCPlatforms == {Unified, Split("rh850", FALSE), Split("tricore", TRUE), Split("tricore", FALSE)}

Reg(base, size) == [base |-> base, size |-> size, phys |-> -1]
Img(base, load, size) == [base |-> base, load |-> load, size |-> size, inplace |-> FALSE]
Ipc(base) == <<[base |-> base, size |-> 2, shmem |-> 1]>>

(* A VM with two CPUs, whose regions and shared memory may touch, its image *)
(* in place or copied; and a VM with one CPU.                               *)
First == {[cpus |-> {0, 1}, master |-> m, image |-> i, regions |-> r, ipcs |-> Ipc(s),
           devs |-> <<[va |-> 57, pa |-> 57, size |-> 1]>>] :
              m \in {0, 1}, i \in {Img(10, 10, 2), Img(10, 28, 2)},
              r \in {<<Reg(10, 3), Reg(13, 2)>>, <<Reg(14, 2), Reg(10, 3)>>}, s \in {16, 18}}
Second == {[cpus |-> {2}, master |-> 2, image |-> Img(20, 20, 1), regions |-> <<Reg(20, n)>>,
            ipcs |-> <<>>, devs |-> <<[va |-> 58, pa |-> 58, size |-> 1]>>] : n \in {3}}

MCConfigs == {[vms |-> <<a, b>>, shmems |-> <<[size |-> 2, phys |-> a.ipcs[1].base, colors |-> {}]>>] :
                 a \in First, b \in Second}

(* The image of a VM is copied on Armv8-R and on TriCore; on RH850 the copy *)
(* is mapped with the VM's flags, which do not let the hypervisor write.    *)
MCSystems == {[plat |-> p, cfg |-> g] : p \in MCPlatforms, g \in MCConfigs}
             \ {s \in [plat : MCPlatforms, cfg : MCConfigs] :
                   s.plat.port = "rh850" /\ s.cfg.vms[1].image.base # s.cfg.vms[1].image.load}
=============================================================================
