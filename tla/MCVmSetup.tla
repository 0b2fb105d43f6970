----------------------------- MODULE MCVmSetup -----------------------------
(***************************************************************************)
(* Two VMs, with two CPUs and one CPU.  All requests for up to two lines    *)
(* per VM and one more driver without Remote I/O; all configurations of up  *)
(* to two Remote I/O devices per VM over two keys and two regions, one of   *)
(* them all zeros, without lines; and one device between VMs that ask for   *)
(* the same line or for different ones.  Lines 0 and 1 are private on Arm   *)
(* and inter-processor channels on the RH850; the hypervisor's IPI is line  *)
(* 0; the driver may ask for that line, or for one that does not exist.     *)
(***************************************************************************)
EXTENDS VmSetup

MCDrivers == {<<>>} \cup {<<id>> : id \in 0 .. LINES}

MCConfigs == [VM -> {<<>>} \cup {<<id>> : id \in Line} \cup (Line \X Line)]

MCCpus == [v \in VM |-> IF v = 0 THEN {0, 1} ELSE {2}]

RemioEntry == [bind_key : Key, type : {"backend", "frontend"}, shmem : Shmem]

MCRemioConfigs == [VM -> {<<>>} \cup {<<e>> : e \in RemioEntry} \cup (RemioEntry \X RemioEntry)]

Nothing == [v \in VM |-> <<>>]

Paired(s) ==
    [v \in VM |-> <<[bind_key |-> 1, type |-> IF v = 0 THEN "backend" ELSE "frontend",
                     shmem |-> s]>>]

NoIpc == [v \in VM |-> <<>>]

NoStreams == [v \in VM |-> <<>>]

NoMask == [v \in VM |-> {}]

(* A set-up with lines and Remote I/O only.                                 *)
Plain(p, d, c, l) ==
    [port |-> p, drivers |-> d, config |-> c, vmlist |-> l, iommu |-> "none",
     streams |-> NoStreams, global_mask |-> NoMask, ipcs |-> NoIpc, guest |-> "lines"]

LineSetups ==
    {Plain(p, d, c, Nothing) : p \in {"riscv", "rh850", "tricore"}, d \in MCDrivers, c \in MCConfigs}

RemioSetups ==
    {Plain("riscv", <<>>, Nothing, l) : l \in MCRemioConfigs}
    \cup {Plain(p, d, c, Paired(s)) : p \in {"riscv", "rh850", "tricore"}, d \in {<<>>, <<3>>},
                                      c \in [VM -> {<<2>>, <<3>>}], s \in Shmem}

(* Stream identifiers of three bits.  The set-ups keep to what the driver   *)
(* relies on (Reliable); most let VMs ask for the same streams.             *)
Group(mask, id) == [kind |-> "group", mask |-> mask, id |-> id]

Dev(id) == [kind |-> "device", mask |-> {}, id |-> id]

SmmuStreams ==
    {<<>>, <<Dev({1})>>, <<Dev({1}), Dev({2})>>, <<Dev({2}), Dev({2})>>,
     <<Group({1}, {3})>>, <<Group({1}, {3}), Group({1, 2}, {3})>>,
     <<Group({2}, {3}), Dev({1, 3})>>, <<Group({1, 2}, {3}), Dev({1, 3}), Dev({2})>>,
     <<Group({1}, {3}), Group({1}, {2, 3}), Dev({1})>>}

(* A VM that replaces an entry, and goes on.                                *)
Replacing(id) == <<Group({1}, id), Group({1, 2}, id), Dev({2} \cup id)>>

RiscvStreams == {<<>>, <<Dev({1})>>, <<Dev({1}), Dev({2})>>, <<Dev({3})>>}

IoSetups ==
    {[Plain("armv8", <<>>, Nothing, Nothing) EXCEPT !.iommu = "smmu", !.streams = s] :
        s \in [VM -> SmmuStreams]}
    \cup {[Plain("armv8", <<>>, Nothing, Nothing) EXCEPT
              !.iommu = "smmu", !.streams = [v \in VM |-> <<Dev({2 + v})>>],
              !.global_mask = [v \in VM |-> IF v = 0 THEN {1} ELSE {}]]}
    \cup {[Plain("armv8", <<>>, Nothing, Nothing) EXCEPT
              !.iommu = "smmu", !.streams = [v \in VM |-> Replacing(IF v = 0 THEN {3} ELSE {})]]}
    \cup {[Plain("riscv", <<>>, Nothing, Nothing) EXCEPT !.iommu = "riscv", !.streams = s] :
        s \in [VM -> RiscvStreams]}

(* IPC objects: two shared memories, one that does not exist, events out of *)
(* range for some.                                                          *)
Object(s, irqs) == [shmem_id |-> s, interrupts |-> irqs]

IpcLists(v) ==
    {<<>>, <<Object(0, <<2, 3>>)>>, <<Object(1, <<2>>), Object(0, <<3>>)>>,
     <<Object(Shmems, <<1>>), Object(0, <<2 + v>>)>>}

IpcSetups ==
    {[Plain(p, <<>>, Nothing, Nothing) EXCEPT
         !.guest = "rings", !.ipcs = [v \in VM |-> IF v = 0 THEN a ELSE b]] :
        p \in {"riscv", "tricore"}, a \in IpcLists(0), b \in IpcLists(1)}
    \cup {[Plain("riscv", <<>>, Nothing, Paired(0)) EXCEPT
         !.guest = "rings", !.ipcs = [v \in VM |-> IF v = 0 THEN a ELSE <<>>]] :
        a \in IpcLists(0)}

TrapSetups ==
    {[Plain(p, <<>>, Nothing, Nothing) EXCEPT !.guest = "traps"] :
        p \in {"armv8", "riscv", "rh850", "tricore"}}

MCSetups == LineSetups \cup RemioSetups \cup IoSetups \cup IpcSetups \cup TrapSetups

(* All of them are Reliable.                                                *)
ASSUME ReliableSetups ==
    Io!Beyond /\ \A s \in MCSetups : s.iommu = "smmu" => Io!Disciplined(s.streams, s.global_mask)

----------------------------------------------------------------------------
(* Two emulated regions without a gap; on the ports that wait for it, the   *)
(* second one is Remote I/O.                                                *)
MCRegions == <<[base |-> 4, size |-> 4, handler |-> "vplic"],
               [base |-> 8, size |-> 4, handler |-> "remio"],
               [base |-> 12, size |-> 2, handler |-> "vgicr"]>>

MCRegisters == <<[addr |-> "ICC_SGI1R", handler |-> "icc_sgir"], [addr |-> "ICC_SRE", handler |-> "icc_sre"]>>

MCDeviceBases == {20, 24}

Mem(addr, width, write, reg, size, form) ==
    [kind |-> "mem", addr |-> addr, width |-> width, write |-> write, reg |-> reg,
     size |-> size, form |-> form]

Reg(addr, handler, width, write, form) ==
    [kind |-> "reg", addr |-> addr, handler |-> handler, width |-> width, write |-> write,
     reg |-> 2, size |-> 4, form |-> form]

Call(form, width, reg, size) ==
    [kind |-> "call", addr |-> 0, width |-> width, write |-> FALSE, reg |-> reg, size |-> size,
     form |-> form]

ArmInstructions ==
    {Mem(a, w, wr, 3, n, "isv") : a \in {3, 4, 7, 8, 11, 12, 14}, w \in {1, 4}, wr \in BOOLEAN, n \in {2, 4}}
    \cup {Mem(3, 4, FALSE, 3, 4, "no_isv")}
    \cup {Reg("ICC_SGI1R", "icc_sgir", 8, TRUE, "rg64"), Reg("ICC_SRE", "icc_sre", 8, FALSE, "sysrg")}
    \cup {Call("hvc", 8, 0, 4), Call("smc", 8, 0, 4)}

RiscvInstructions ==
    {Mem(a, 4, wr, 9, n, f) : a \in {3, 4, 7, 8, 11, 12, 14}, wr \in BOOLEAN, n \in {2, 4}, f \in {"memory", "htinst"}}
    \cup {Mem(4, w, FALSE, 9, 2, "htinst") : w \in {4, 8}}
    \cup {Mem(4, w, FALSE, 9, 4, "memory") : w \in {1, 2, 8}}
    \cup {Call("ecall", 8, 10, 4)}

Rh850Instructions ==
    {Mem(a, w, wr, 5, n, "ldst") : a \in {3, 4, 7, 12, 14}, w \in {1, 4}, wr \in BOOLEAN, n \in {2, 4, 6}}
    \cup {[bwop |-> o, bit |-> b, kind |-> "mem", addr |-> 5, width |-> 1, write |-> TRUE,
           reg |-> 0, size |-> 4, form |-> f] :
              o \in {"set1", "not1", "clr1"}, b \in {0, 7, 11}, f \in {"F9"}}
    \cup {[bwop |-> o, bit |-> b, kind |-> "mem", addr |-> 5, width |-> 1, write |-> TRUE,
           reg |-> 0, size |-> 4, form |-> f] :
              o \in {"set1", "not1", "clr1"}, b \in {0, 7}, f \in {"F8"}}
    \cup {Call("hvtrap", 4, 6, 4)}

TricoreMem(op, sub, field, addr) ==
    [kind |-> "mem", addr |-> addr, write |-> TRUE, op |-> op, sub |-> sub, field |-> field,
     size |-> IF op % 2 = 0 THEN 2 ELSE 4]

(* The opcodes tried: all those of Traps!Opcodes16 and Traps!Opcodes32.     *)
Opcodes16 == {\hD8, \hCC, \hF8, \hEC, \hC4, \hD4, \hC8, \hE4, \hF4, \hE8, \h04, \h14, \h08,
              \h24, \h34, \h28, \h84, \h94, \h88, \hA4, \hB4, \hA8, \h58, \h4C, \h78, \h6C,
              \h44, \h54, \h48, \h64, \h74, \h68}

Opcodes32 == {\hB5, \h99, \hE9, \h79, \h39, \hF9, \hB9, \hC9, \h59, \h19, \h65, \h45}

TricoreInstructions ==
    {TricoreMem(op, 0, f, 4) : op \in Opcodes16 \cup Opcodes32, f \in {0, 6}}
    \cup {TricoreMem(op, s, 6, 7) : op \in {\h85, \hA5, \h25, \h05}, s \in 0 .. 3}
    \cup {TricoreMem(op, s, 6, 7) : op \in {\h09, \h29, \hA9, \h89}, s \in 0 .. 9 \ {1, 3}}
    \cup {TricoreMem(\h44, 0, 6, a) : a \in {3, 12, 13, 14}}
    \cup {[kind |-> "reg", addr |-> c[1], handler |-> c[2], width |-> 4, write |-> w, reg |-> 22,
           field |-> 6, size |-> 4] :
              c \in {<<"PCON0", "csfr_pcon0">>, <<"DCON0", "csfr_dcon0">>}, w \in BOOLEAN}
    \cup {[kind |-> "bus", addr |-> a, width |-> 0, write |-> TRUE, reg |-> 0, size |-> 4] :
              a \in MCDeviceBases}

MCInstructions ==
    [armv8 |-> ArmInstructions, riscv |-> RiscvInstructions, rh850 |-> Rh850Instructions,
     tricore |-> TricoreInstructions]

=============================================================================
