------------------------------- MODULE Traps -------------------------------
(***************************************************************************)
(* What happens when a guest's instruction traps into the hypervisor: the   *)
(* access is decoded, the handler is looked up among the emulated regions   *)
(* and registers of the VM, and the guest goes on behind the instruction    *)
(* (armv8/aborts.c, riscv/sync_exceptions.c, rh850/aborts.c,                *)
(* tricore/traps.c and decode.c, vm_emul_get_mem and vm_emul_get_reg in     *)
(* core/vm.c).  What the handlers do is the subject of other modules; here  *)
(* they are names, and one of them, Remote I/O, makes the vCPU inactive.    *)
(*                                                                          *)
(* An instruction is a record: what the guest means (kind, addr, width,     *)
(* write, reg, size) and the form it is encoded in.  What the hardware      *)
(* reports of it (the syndrome on Arm, htinst on RISC-V, MEI on the RH850)  *)
(* is that; TriCore reports the address and the direction, and the code     *)
(* decodes the opcode.  D registers of TriCore are 16 + their number.       *)
(***************************************************************************)
EXTENDS Integers, Sequences

CONSTANTS
    VM,           \* the VMs
    Regions,      \* vm->emul_mem_list: base, size and handler
    Registers,    \* vm->emul_reg_list: addr and handler
    DeviceBases,  \* TriCore: the addresses of the VM's devices
    Instructions  \* Instructions[p]: what guests of port p execute

VARIABLES
    port,      \* the port the hypervisor is built for
    stopped,   \* the VMs one of whose CPUs is in ERROR
    served     \* served[v]: the last instruction of v that trapped and its outcome

NotYet == [trapped |-> FALSE]

Init == served = [v \in VM |-> NotYet]

(* The first of the entries es of a list decides, "none" if there is none.  *)
FirstHandler(list, es) ==
    IF es = {} THEN "none" ELSE list[CHOOSE n \in es : \A m \in es : n <= m].handler

(* Mutant: the byte behind a region still belongs to it.                    *)
GetMemInclusive(addr) ==
    FirstHandler(Regions, {n \in DOMAIN Regions : /\ Regions[n].base <= addr
                                                  /\ addr <= Regions[n].base + Regions[n].size})

vm_emul_get_mem(addr) ==
    FirstHandler(Regions, {n \in DOMAIN Regions : /\ Regions[n].base <= addr
                                                  /\ addr < Regions[n].base + Regions[n].size})

vm_emul_get_reg(addr) ==
    FirstHandler(Registers, {n \in DOMAIN Registers : Registers[n].addr = addr})

(* What a trap comes to: the handler called and the access it is given, how *)
(* far the guest's PC moves, whether the vCPU waits when the handler has    *)
(* made it inactive, and on the RH850 the bit operation.                    *)
Outcome(handler, i, width, reg, step, waits) ==
    [handler |-> handler, addr |-> i.addr, width |-> width, write |-> i.write, reg |-> reg,
     step |-> step, waits |-> waits /\ handler = "remio", bit |-> <<>>]

Error == [handler |-> "ERROR"]

----------------------------------------------------------------------------
(* Arm.  A syndrome without ISV (a pair, a write-back) cannot be decoded.   *)
aborts_data_lower(i) ==
    IF i.form = "no_isv" \/ vm_emul_get_mem(i.addr) = "none" THEN Error
    ELSE Outcome(vm_emul_get_mem(i.addr), i, i.width, i.reg, i.size, TRUE)

(* The 64-bit form of AArch32 names only ICC_SGI1R.                         *)
reg_addr_translate(i) == IF i.form = "rg64" /\ i.addr # "ICC_SGI1R" THEN "undefined" ELSE i.addr

sysreg_handler(i) ==
    LET addr == reg_addr_translate(i)
    IN  IF vm_emul_get_reg(addr) = "none" THEN Error
        ELSE Outcome(vm_emul_get_reg(addr), i, 8, i.reg, i.size, TRUE)

(* The PC of an hvc is saved behind it, that of a trapped smc is not.       *)
syscall_handler(i) ==
    LET saved == IF i.form = "hvc" THEN i.size ELSE 0
        step  == IF i.form = "smc" THEN 4 ELSE 0
    IN  Outcome("call", i, 8, 0, saved + step, TRUE)

aborts_sync_handler(i) ==
    CASE i.kind = "mem" -> aborts_data_lower(i)
      [] i.kind = "reg" -> sysreg_handler(i)
      [] i.kind = "call" -> syscall_handler(i)

----------------------------------------------------------------------------
(* RISC-V.  With htinst the instruction comes expanded, and its bit 1 says  *)
(* what size it had; without, it is read from the guest's memory, and of    *)
(* the compressed ones C.LW and C.SW are decoded.                           *)
guest_page_fault_handler(i) ==
    IF \/ vm_emul_get_mem(i.addr) = "none"
       \/ i.form = "pseudo"
       \/ i.form = "memory" /\ i.size = 2 /\ i.width # 4
    THEN Error
    ELSE Outcome(vm_emul_get_mem(i.addr), i, i.width, i.reg, i.size, TRUE)

(* sbi_vs_handler returns 4.                                                *)
sync_exception_handler(i) ==
    CASE i.kind = "mem" -> guest_page_fault_handler(i)
      [] i.kind = "call" -> Outcome("call", i, 8, 10, 4, TRUE)

----------------------------------------------------------------------------
(* RH850.  Forms F8 and F9 are the bit operations: F8 has the bit in the    *)
(* instruction, F9 in a register, of which three bits count.                *)
decode_access(i) ==
    CASE i.form = "F8" -> <<i.bwop, i.bit>>
      [] i.form = "F9" -> <<i.bwop, i.bit % 8>>
      [] OTHER -> <<>>

data_abort(i) ==
    IF vm_emul_get_mem(i.addr) = "none" THEN Error
    ELSE [Outcome(vm_emul_get_mem(i.addr), i, i.width, i.reg, i.size, FALSE)
             EXCEPT !.bit = decode_access(i)]

(* The return value is in r6; the PC of a hvtrap is saved behind it.        *)
hvtrap(i) == Outcome("call", i, 4, 6, i.size, FALSE)

abort(i) ==
    CASE i.kind = "mem" -> data_abort(i)
      [] i.kind = "call" -> hvtrap(i)

----------------------------------------------------------------------------
(* TriCore.  field is the register field of the instruction, from bit 8.    *)
Decoded(reg, width) == [ret |-> TRUE, reg |-> reg, width |-> width]

Undecoded == [ret |-> FALSE]

(* An uninitialised register, whatever it is no register.                   *)
Garbage == -1

(* LD.BU and ST.B of D15 are left undecoded, LD.H and ST.H of D15 without   *)
(* their register.                                                          *)
decode_16b_access(op, field) ==
    CASE op \in {\hD8, \hCC, \hF8, \hEC} -> Decoded(15, 4)
      [] op \in {\hC4, \hD4, \hC8, \hE4, \hF4, \hE8} -> Decoded(field, 4)
      [] op \in {\h04, \h14, \h08, \h24, \h34, \h28} -> Decoded(field + 16, 1)
      [] op \in {\h8C, \hAC} -> Decoded(Garbage, 2)
      [] op \in {\h84, \h94, \h88, \hA4, \hB4, \hA8} -> Decoded(field + 16, 2)
      [] op \in {\h58, \h4C, \h78, \h6C} -> Decoded(31, 4)
      [] op \in {\h44, \h54, \h48, \h64, \h74, \h68} -> Decoded(field + 16, 4)
      [] OTHER -> Undecoded

(* sub is the sub-opcode: four bits, or the two above them.                 *)
decode_32b_access(op, sub, field) ==
    CASE op \in {\h85, \hA5} ->
            Decoded(IF sub > 1 THEN field ELSE field + 16, IF sub % 2 = 0 THEN 4 ELSE 8)
      [] op \in {\h09, \h29, \hA9, \h89} ->
            Decoded(IF sub \in {6, 7} THEN field ELSE field + 16,
                    CASE sub = 0 -> 1 [] sub = 9 -> 16 [] sub \in {2, 8} -> 2
                      [] sub \in {4, 6} -> 4 [] OTHER -> 8)
      [] op \in {\hB5, \h99} -> Decoded(field, 4)
      [] op \in {\h25, \h05} -> Decoded(field + 16, IF sub < 2 THEN 1 ELSE 2)
      [] op \in {\hE9, \h79, \h39} -> Decoded(field + 16, 1)
      [] op \in {\hF9, \hB9, \hC9} -> Decoded(field + 16, 2)
      [] op \in {\h59, \h19} -> Decoded(field + 16, 4)
      [] op \in {\h65, \h45} -> Decoded(field + 16, 2)
      [] OTHER -> Undecoded

(* What is not decoded is skipped, without a handler.                       *)
l2_dmem_prot_trap_handler(i) ==
    LET handler == vm_emul_get_mem(i.addr)
        even    == i.op % 2 = 0
        access  == IF even THEN decode_16b_access(i.op, i.field)
                   ELSE decode_32b_access(i.op, i.sub, i.field)
        step    == IF even THEN 2 ELSE 4
    IN  IF handler = "none" THEN Error
        ELSE IF access.ret THEN Outcome(handler, i, access.width, access.reg, step, FALSE)
        ELSE Outcome("skipped", i, 0, 0, step, FALSE)

(* The core registers PCON0 and DCON0; writes to the second are ignored.    *)
hyp_csfr_access_handler(i) ==
    LET handler == CASE i.addr = "PCON0" -> "csfr_pcon0"
                     [] i.addr = "DCON0" -> "csfr_dcon0"
                     [] OTHER -> "none"
    IN  IF handler = "none" THEN Error
        ELSE Outcome(handler, i, i.width, i.field + 16, 4, FALSE)

(* A bus error at the first address of one of the VM's devices is ignored:  *)
(* the guest was denied the enabling of the device.                         *)
sys_bus_errors_handler(i) ==
    IF i.addr \in DeviceBases THEN Outcome("ignored", i, 0, 0, i.size, FALSE) ELSE Error

(* hvcall_handler does not pass the result of the hypercall on.             *)
tricore_trap(i) ==
    CASE i.kind = "mem" -> l2_dmem_prot_trap_handler(i)
      [] i.kind = "reg" -> hyp_csfr_access_handler(i)
      [] i.kind = "bus" -> sys_bus_errors_handler(i)
      [] i.kind = "call" -> Outcome("call", i, 4, Garbage, i.size, FALSE)

----------------------------------------------------------------------------
TrapOutcome(i) ==
    CASE port = "armv8" -> aborts_sync_handler(i)
      [] port = "riscv" -> sync_exception_handler(i)
      [] port = "rh850" -> abort(i)
      [] port = "tricore" -> tricore_trap(i)

(* An instruction of v traps.                                               *)
Trap(v, i) ==
    /\ i \in Instructions[port]
    /\ served[v] = NotYet
    /\ served' = [served EXCEPT ![v] = [trapped |-> TRUE, insn |-> i, out |-> TrapOutcome(i)]]
    /\ stopped' = IF TrapOutcome(i) = Error THEN stopped \cup {v} ELSE stopped

----------------------------------------------------------------------------
(* The loads and stores of TriCore by opcode, and by sub-opcode where there *)
(* is one: suffix of the mnemonic, as the comments of decode.c have it.     *)
Mnemonic(i) ==
    CASE i.op \in {\hD8, \hCC, \hF8, \hEC, \hC4, \hD4, \hC8, \hE4, \hF4, \hE8, \hB5, \h99} -> "A"
      [] i.op \in {\h0C, \h2C, \h04, \h14, \h08, \h24, \h34, \h28, \hE9, \h79, \h39} -> "B"
      [] i.op \in {\h8C, \hAC, \h84, \h94, \h88, \hA4, \hB4, \hA8, \hF9, \hB9, \hC9} -> "H"
      [] i.op \in {\h58, \h4C, \h78, \h6C, \h44, \h54, \h48, \h64, \h74, \h68, \h59, \h19} -> "W"
      [] i.op \in {\h85, \hA5} -> <<"W", "D", "A", "DA">>[i.sub + 1]
      [] i.op \in {\h09, \h29, \hA9, \h89} ->
            <<"B", "B", "H", "H", "W", "D", "A", "DA", "Q", "DD">>[i.sub + 1]
      [] i.op \in {\h25, \h05} -> <<"B", "B", "H", "H">>[i.sub + 1]
      [] i.op \in {\h65, \h45} -> "Q"

MnemonicWidth(m) ==
    CASE m = "B" -> 1 [] m \in {"H", "Q"} -> 2 [] m \in {"A", "W"} -> 4
      [] m \in {"D", "DA"} -> 8 [] m = "DD" -> 16

(* The 16-bit forms that have no register field are about register 15.      *)
MeantRegister(i) ==
    (IF i.op % 16 = \h0C \/ i.op \in {\hD8, \hF8, \h58, \h78} THEN 15 ELSE i.field)
    + (IF Mnemonic(i) \in {"A", "DA"} THEN 0 ELSE 16)

(* Region n has the address.                                                *)
Has(n, addr) == addr - Regions[n].base \in 0 .. Regions[n].size - 1

(* What the guest means by i: the handler of the region or register, if     *)
(* there is one, sees the access of the instruction; the guest goes on with *)
(* the next instruction, and not before Remote I/O has answered.            *)
Meaning(i) ==
    LET regions == {n \in DOMAIN Regions : Has(n, i.addr)}
        region  == Regions[CHOOSE n \in regions : TRUE].handler
        tricore == port = "tricore" /\ i.kind = "mem"
    IN  [handler |-> CASE i.kind = "mem" -> IF regions = {} THEN "ERROR" ELSE region
                       [] i.kind = "reg" -> i.handler
                       [] i.kind = "bus" -> "ignored"
                       [] i.kind = "call" -> "call",
         addr  |-> i.addr,
         width |-> IF tricore THEN MnemonicWidth(Mnemonic(i)) ELSE i.width,
         write |-> i.write,
         reg   |-> IF tricore THEN MeantRegister(i) ELSE i.reg,
         step  |-> i.size,
         waits |-> i.kind = "mem" /\ regions # {} /\ region = "remio",
         bit   |-> IF "bwop" \in DOMAIN i THEN <<i.bwop, i.bit % 8>> ELSE <<>>]

(* A VM's regions do not overlap, and its registers differ.                 *)
ListsApart ==
    /\ Regions \in Seq([base : Nat, size : Nat, handler : STRING \ {"none", "ERROR"}])
    /\ Registers \in Seq([addr : STRING, handler : STRING \ {"none", "ERROR", "remio"}])
    /\ \A m, n \in DOMAIN Regions : \A k \in 0 .. Regions[m].size - 1 :
           Has(n, Regions[m].base + k) => m = n
    /\ \A m, n \in DOMAIN Registers : Registers[m].addr = Registers[n].addr => m = n

(* The instructions that the ports are made to decode.  Of Arm's, those with*)
(* a syndrome, and a 64-bit access to a register only where AArch32 has it; *)
(* an address that nobody emulates is an error anyhow.                      *)
Emulated(addr) == \E n \in DOMAIN Regions : Has(n, addr)

ArmSupported(i) ==
    /\ i.kind \in {"mem", "reg", "call"}
    /\ i.kind = "mem" => i.addr \in Int /\ (i.form = "no_isv" => ~Emulated(i.addr))
    /\ i.kind = "reg" => /\ i.form = "rg64" => i.addr = "ICC_SGI1R"
                         /\ \E n \in DOMAIN Registers :
                                Registers[n] = [addr |-> i.addr, handler |-> i.handler]
                         /\ i.width = 8
    /\ i.kind = "call" => /\ i.form = "hvc" => i.size \in Nat
                          /\ i.form = "smc" => i.size = 4
                          /\ i.form \in {"hvc", "smc"} /\ i.width = 8 /\ i.reg = 0
    /\ "bwop" \notin DOMAIN i

(* RISC-V: without htinst, of the compressed loads and stores those of words.*)
RiscvSupported(i) ==
    /\ i.kind \in {"mem", "call"}
    /\ i.kind = "mem" => i.addr \in Int /\ (Emulated(i.addr) => i.form # "pseudo")
    /\ i.kind = "mem" /\ i.form = "memory" /\ i.size = 2 /\ Emulated(i.addr) => i.width = 4
    /\ i.kind = "call" => i.size = 4 /\ i.width = 8 /\ i.reg = 10
    /\ "bwop" \notin DOMAIN i

(* RH850 and TriCore do not wait, so Remote I/O is not for their guests.    *)
Waited(addr) == \E n \in DOMAIN Regions : Has(n, addr) /\ Regions[n].handler = "remio"

Rh850Supported(i) ==
    /\ i.kind \in {"mem", "call"}
    /\ i.kind = "mem" => i.addr \in Int /\ ~Waited(i.addr)
    /\ i.kind = "call" => i.form = "hvtrap" /\ i.width = 4 /\ i.reg = 6
    /\ "bwop" \in DOMAIN i <=> i.form \in {"F8", "F9"}
    /\ i.form = "F8" => i.bit \in 0 .. 7

(* TriCore: the opcodes and sub-opcodes that decode.c decodes as the        *)
(* comments in it say.                                                      *)
Opcodes16 == {\hD8, \hCC, \hF8, \hEC, \hC4, \hD4, \hC8, \hE4, \hF4, \hE8, \h04, \h14, \h08,
              \h24, \h34, \h28, \h84, \h94, \h88, \hA4, \hB4, \hA8, \h58, \h4C, \h78, \h6C,
              \h44, \h54, \h48, \h64, \h74, \h68}

Opcodes32 == {\hB5, \h99, \hE9, \h79, \h39, \hF9, \hB9, \hC9, \h59, \h19, \h65, \h45}

TricoreSupported(i) ==
    /\ i.kind \in {"mem", "reg", "bus"}
    /\ i.kind = "mem" => /\ i.addr \in Int /\ ~Waited(i.addr) /\ i.field \in 0 .. 15
                         /\ i.size = (IF i.op % 2 = 0 THEN 2 ELSE 4)
                         /\ \/ i.op \in Opcodes16 \cup Opcodes32
                            \/ i.op \in {\h85, \hA5, \h25, \h05} /\ i.sub \in 0 .. 3
                            \/ i.op \in {\h09, \h29, \hA9, \h89} /\ i.sub \in 0 .. 9 \ {1, 3}
    /\ i.kind = "reg" => /\ <<i.addr, i.handler>> \in {<<"PCON0", "csfr_pcon0">>, <<"DCON0", "csfr_dcon0">>}
                         /\ i.width = 4 /\ i.reg = i.field + 16 /\ i.size = 4
    /\ i.kind = "bus" => i.addr \in DeviceBases /\ i.width = 0 /\ i.reg = 0
    /\ "bwop" \notin DOMAIN i

Supported(p, i) ==
    CASE p = "armv8" -> ArmSupported(i)
      [] p = "riscv" -> RiscvSupported(i)
      [] p = "rh850" -> Rh850Supported(i)
      [] p = "tricore" -> TricoreSupported(i)

(* A trapped instruction is carried out as the guest means it: decoded to   *)
(* the right register and width, by the handler of the address, once, and   *)
(* with the guest going on behind it; an address nobody emulates stops the  *)
(* CPU.                                                                     *)
TrapsServed ==
    \A v \in VM : served[v] # NotYet =>
        LET out == served[v].out
            meant == Meaning(served[v].insn)
        IN  IF meant.handler = "ERROR" THEN out = Error ELSE out = meant

=============================================================================
