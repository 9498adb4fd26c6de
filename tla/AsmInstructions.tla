-------------------------- MODULE AsmInstructions --------------------------
(***************************************************************************)
(* assemble_instruction (assembler/main.c): from a parsed instruction to   *)
(* the opcode and the three operands of one machine instruction.           *)
(*                                                                         *)
(* A parsed instruction is [op, opers, code]: op names the parser's OP_    *)
(* token, opers is the parser's operand list, code the opcode of a         *)
(* RAW_CODE instruction (a word) and {} otherwise.                         *)
(***************************************************************************)
EXTENDS AsmOperands, Sequences

Insn(op, opers) == [op |-> op, opers |-> opers, code |-> {}]

\* Opcodes by instruction group: register operations, conditional jumps,
\* instructions with mask and shift in the opcode, external conditions, and
\* those that one architecture or none restricts.
AluOpcode ==
    [mul  |-> \h101, add  |-> \h1C0, addsc |-> \h1C2, addc |-> \h1C1,
     addscc |-> \h1C3, sub |-> \h1D0, subsc |-> \h1D2, subc |-> \h1D1,
     subscc |-> \h1D3, sra |-> \h130, or |-> \h160, and |-> \h140,
     xor |-> \h170, sr |-> \h120, sl |-> \h110, rl |-> \h1A0,
     rr |-> \h1B0, nand |-> \h150]

JumpOpcode ==
    [jand |-> \h040, jnand |-> \h041, js |-> \h050, jns |-> \h051,
     je |-> \h0D0, jne |-> \h0D1, jls |-> \h0D2, jges |-> \h0D3,
     jgs |-> \h0D4, jles |-> \h0D5, jl |-> \h0DA, jge |-> \h0DB,
     jg |-> \h0DC, jle |-> \h0DD, jdn |-> \h0D6, jdpz |-> \h0D7,
     jdp |-> \h0D8, jdnz |-> \h0D9]

ExtOpcode  == [srx |-> \h200, orx |-> \h300, jzx |-> \h400, jnzx |-> \h500]
CondOpcode == [jext |-> \h700, jnext |-> \h600]

OtherOpcode ==
    [nap |-> 1, call |-> 2, ret |-> 3, calls |-> 4, rets |-> 5, tkip |-> \h1E0]

\* The architecture an instruction is restricted to.
OnlyOn == [call |-> 5, ret |-> 5, calls |-> 15, rets |-> 15]

\* The instructions that set is_jump_insn.
SetsJumpFlag ==
    (DOMAIN JumpOpcode \ {"jg"}) \cup {"jzx", "jnzx", "jext", "jnext"}

\* What parser.y makes of the operands of instructions with implied ones.
CallOpers(lr, target)  == <<RAW(Bits(lr)), RAW({}), target>>
RetOpers(lrX, lrY)     == <<RAW(Bits(lrX)), RAW({}), RAW(Bits(lrY))>>
CallsOpers(target)     == <<GPR0, GPR0, target>>
NapOpers               == <<GPR0, GPR0, RAW({})>>
TkipOpers(a, flags, d) == <<a, IMM(flags), d>>
-----------------------------------------------------------------------------
\* emulate_mov_insn: OR with 0, or ORX of the two bytes of a long immediate.
LongMov(arch, in) == in.t = "imm" /\ ~IsValidImm(arch, in.v)

EmulatedMov(arch, in, out) ==
    IF LongMov(arch, in)
    THEN Insn("orx", <<RAW(Bits(7)), RAW(Bits(8)), IMM(Field(in.v, 8, 8)),
                       IMM(Field(in.v, 0, 8)), out>>)
    ELSE Insn("or", <<in, IMM({}), out>>)

\* emulate_jmp_insn: a jump on the external condition that is always true.
EmulatedJmp(target) == Insn("jext", <<IMM(Bits(\h7F)), target>>)

\* emulate_jand_insn: with one long immediate operand, a test of the bits
\* shift .. shift + mask by JNZX (JAND) or JZX (JNAND).
LongMasks(arch, a, b) ==
    {o \in {a, b} : o.t = "imm" /\ ~IsValidImm(arch, o.v)}

IsLongJand(arch, a, b) ==
    ~(a.t = "imm" /\ b.t = "imm") /\ LongMasks(arch, a, b) # {}

EmulatedJand(arch, insn) ==
    LET a == insn.opers[1]
        b == insn.opers[2]
        m == (CHOOSE o \in LongMasks(arch, a, b) : TRUE).v
    IN  IF IsLongJand(arch, a, b)
        THEN Insn(IF insn.op = "jand" THEN "jnzx" ELSE "jzx",
                  <<RAW(Bits(Cardinality(m) - 1)), RAW(Bits(LowestBit(m))),
                    IF a.t = "imm" THEN b ELSE a, IMM({}), insn.opers[3]>>)
        ELSE insn

Emulated(arch, insn) ==
    CASE insn.op = "mov" -> EmulatedMov(arch, insn.opers[1], insn.opers[2])
      [] insn.op = "jmp" -> EmulatedJmp(insn.opers[1])
      [] insn.op \in {"jand", "jnand"} -> EmulatedJand(arch, insn)
      [] OTHER -> insn

\* "MOV operand > 16bit" and "Long bitmask is not contiguous".
EmulationError(arch, insn) ==
    \/ /\ insn.op = "mov" /\ insn.opers[1].t = "imm"
       /\ ~IsPossibleImm(insn.opers[1].v)
    \/ /\ insn.op \in {"jand", "jnand"}
       /\ IsLongJand(arch, insn.opers[1], insn.opers[2])
       /\ \E o \in LongMasks(arch, insn.opers[1], insn.opers[2]) :
             ~IsContiguousBitmask(o.v)
-----------------------------------------------------------------------------
\* The rest is about instructions that Emulated returns.

Opcode(insn) ==
    CASE insn.op \in DOMAIN AluOpcode   -> Bits(AluOpcode[insn.op])
      [] insn.op \in DOMAIN JumpOpcode  -> Bits(JumpOpcode[insn.op])
      [] insn.op \in DOMAIN OtherOpcode -> Bits(OtherOpcode[insn.op])
      [] insn.op = "raw"                -> insn.code
      [] insn.op \in DOMAIN ExtOpcode   ->   \* merge_ext_into_opcode
           Bits(ExtOpcode[insn.op]) \cup Shl(insn.opers[1].v, 4, 32)
             \cup insn.opers[2].v
      [] insn.op \in DOMAIN CondOpcode  ->   \* merge_external_jmp_into_opcode
           Bits(CondOpcode[insn.op]) \cup insn.opers[1].v

\* The three operands that stay operands.
MachineOperands(insn) ==
    CASE insn.op \in DOMAIN ExtOpcode  -> SubSeq(insn.opers, 3, 5)
      [] insn.op \in DOMAIN CondOpcode -> <<GPR0, GPR0, insn.opers[2]>>
      [] OTHER                         -> insn.opers

\* "opcode MASK/SHIFT extension too big", "External jump condition too big".
MergeError(insn) ==
    \/ /\ insn.op \in DOMAIN ExtOpcode
       /\ \E k \in 1 .. 2 : insn.opers[k].v \ (0 .. 3) # {}
    \/ insn.op \in DOMAIN CondOpcode /\ insn.opers[1].v \ (0 .. 7) # {}

\* "Multiple SPR (MEMORY) input operands in one instruction".
InputError(opers) ==
    \/ \A k \in 1 .. 2 : opers[k].t = "reg" /\ opers[k].kind = "spr"
    \/ \A k \in 1 .. 2 : opers[k].t \in {"mem", "memoff"}

InsnError(arch, insn) ==
    \/ EmulationError(arch, insn)
    \/ LET real == Emulated(arch, insn)
       IN  \/ real.op \in DOMAIN OnlyOn /\ OnlyOn[real.op] # arch
           \/ MergeError(real)
           \/ InputError(MachineOperands(real))
           \/ \E k \in 1 .. 3 : OperandError(MachineOperands(real)[k])
=============================================================================
