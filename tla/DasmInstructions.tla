-------------------------- MODULE DasmInstructions --------------------------
(***************************************************************************)
(* disasm_opcodes (disassembler/main.c): the assembler statement b43-dasm  *)
(* prints for a machine instruction, as b43-asm's parser reads it. The     *)
(* opcode tables are the disassembler's own.                               *)
(***************************************************************************)
EXTENDS DasmOperands, AsmInstructions

DasmAlu ==
    [mul |-> \h101, add |-> \h1C0, addsc |-> \h1C2, addc |-> \h1C1,
     addscc |-> \h1C3, sub |-> \h1D0, subsc |-> \h1D2, subc |-> \h1D1,
     subscc |-> \h1D3, sra |-> \h130, or |-> \h160, and |-> \h140,
     xor |-> \h170, sr |-> \h120, sl |-> \h110, rl |-> \h1A0,
     rr |-> \h1B0, nand |-> \h150]

DasmJump ==
    [jand |-> \h040, jnand |-> \h041, js |-> \h050, jns |-> \h051,
     je |-> \h0D0, jne |-> \h0D1, jls |-> \h0D2, jges |-> \h0D3,
     jgs |-> \h0D4, jles |-> \h0D5, jdn |-> \h0D6, jdpz |-> \h0D7,
     jdp |-> \h0D8, jdnz |-> \h0D9, jl |-> \h0DA, jge |-> \h0DB,
     jg |-> \h0DC, jle |-> \h0DD]

\* Seeded fault: two rows of the table are mixed up.
FaultyDasmExt ==
    [srx |-> 2, orx |-> 3, jzx |-> 5, jnzx |-> 4, jnext |-> 6, jext |-> 7]

\* By the upper four opcode bits; the lower eight are operands.
DasmExt == [srx |-> 2, orx |-> 3, jzx |-> 4, jnzx |-> 5, jnext |-> 6, jext |-> 7]

\* The name of an opcode in such a table.
Named(table, n) == {op \in DOMAIN table : table[op] = n}
NameIn(table, n) == CHOOSE op \in Named(table, n) : TRUE

\* A machine instruction of the image.
BinInsn(arch, code) ==
    [opcode |-> NumberOf(OpcodeOf(arch, code)), operands |-> OperandsOf(arch, code)]

\* The label operand, named after all instructions have been disassembled.
Pending == [t |-> "label", name |-> "", dir |-> "absolute"]

RawInsn(bin, opers) == [op |-> "raw", opers |-> opers, code |-> Bits(bin.opcode)]

\* disasm_opcodes with disasm_constant_opcodes and disasm_opcode_raw;
\* unknownDecode is the --unknown-decode option.
Disasm(arch, unknownDecode, bin) ==
    LET hi     == bin.opcode \div 256
        Std(n) == StdOperand(arch, bin.operands[n])
        Nr(n)  == NumberOf(bin.operands[n])
        mask   == RAW(Bits((bin.opcode \div 16) % 16))
        shift  == RAW(Bits(bin.opcode % 16))
        raw    == [n \in 1 .. 3 |-> RAW(bin.operands[n])]
    IN  CASE hi \in {2, 3} ->
               Insn(NameIn(DasmExt, hi), <<mask, shift, Std(1), Std(2), Std(3)>>)
          [] hi \in {4, 5} ->
               Insn(NameIn(DasmExt, hi), <<mask, shift, Std(1), Std(2), Pending>>)
          [] hi \in {6, 7} ->
               Insn(NameIn(DasmExt, hi), <<IMM(Bits(bin.opcode % 256)), Pending>>)
          [] Named(DasmAlu, bin.opcode) # {} ->
               Insn(NameIn(DasmAlu, bin.opcode), <<Std(1), Std(2), Std(3)>>)
          [] Named(DasmJump, bin.opcode) # {} ->
               Insn(NameIn(DasmJump, bin.opcode), <<Std(1), Std(2), Pending>>)
          [] bin.opcode = 2 /\ arch = 5 -> Insn("call", CallOpers(Nr(1), Pending))
          [] bin.opcode = 3 -> Insn("ret", RetOpers(Nr(1), Nr(3)))
          [] bin.opcode = 4 -> Insn("calls", CallsOpers(Pending))
          [] bin.opcode = 5 -> Insn("rets", NapOpers)
          [] bin.opcode = \h1E0 ->
               Insn("tkip", TkipOpers(Std(1),
                      bin.operands[2] \cap (0 .. ImmNrBits(arch) - 1), Std(3)))
          [] bin.opcode = 1 -> Insn("nap", NapOpers)
          [] bin.opcode = 0 \/ (bin.opcode = 2 /\ arch = 15) -> RawInsn(bin, raw)
          [] OTHER -> RawInsn(bin, IF unknownDecode THEN <<Std(1), Std(2), Std(3)>>
                                   ELSE raw)

\* "'calls' ('rets') instruction found in arch 5 binary", "Invalid TKIP flags".
DisasmError(arch, bin) ==
    \/ bin.opcode \in {4, 5} /\ arch # 15
    \/ bin.opcode = \h1E0 /\ (bin.operands[2] \cap (0 .. ImmNrBits(arch) - 1)) \ {0, 1} # {}

\* The operands of calls, rets and nap that dasm_warn complains about.
DisasmWarned(arch, bin) ==
    LET r0 == RegOperand(arch, "gpr", 0)
    IN  /\ bin.opcode \in {1, 4, 5}
        /\ \/ bin.operands[1] # r0 \/ bin.operands[2] # r0
           \/ bin.opcode # 4 /\ bin.operands[3] # {}

\* Seeded fault: addresses are counted from one.
FaultyLabelAddr(bin) == NumberOf(bin.operands[3]) - 1

\* labelref_operand and labeladdr.
HasLabelRef(insn) == insn.opers[Len(insn.opers)].t = "label"
LabelAddr(bin)    == NumberOf(bin.operands[3])
-----------------------------------------------------------------------------
\* What b43-asm's scanner and parser refuse of such a statement: link
\* registers other than lr0 to lr3, and an output operand that is a nonzero
\* immediate (store_oper_sanity).
SyntaxError(insn) ==
    \/ insn.op \in {"call", "ret"} /\ insn.opers[1].v \ {0, 1} # {}
    \/ insn.op = "ret" /\ insn.opers[3].v \ {0, 1} # {}
    \/ /\ insn.opers[Len(insn.opers)].t = "imm"
       /\ insn.opers[Len(insn.opers)].v # {}
=============================================================================
