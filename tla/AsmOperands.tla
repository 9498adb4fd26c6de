---------------------------- MODULE AsmOperands ----------------------------
(***************************************************************************)
(* How b43-asm turns a parsed operand into the 12-bit (arch 5) or 13-bit   *)
(* (arch 15) operand field of an instruction (assembler/main.c).           *)
(*                                                                         *)
(* A parsed operand is a record with a field t:                            *)
(*   imm    [v]         32-bit immediate                                   *)
(*   reg    [kind, nr]  kind "gpr", "spr" or "offr"                        *)
(*   mem    [off]       direct memory                                      *)
(*   memoff [off, reg]  memory indirect through offset register reg        *)
(*   raw    [v]         hexadecimal @-operand, taken over unchanged        *)
(*   label  [name, dir] dir "absolute", "back" or "forward"                *)
(***************************************************************************)
EXTENDS Words

Arches == {5, 15}

\* The parser's r0, and the plain number it puts into unused operands.
GPR0    == [t |-> "reg", kind |-> "gpr", nr |-> 0]
RAW(v)  == [t |-> "raw", v |-> v]
IMM(v)  == [t |-> "imm", v |-> v]

\* "Immediates are only possible up to 16bit": a value with bit 15 set may
\* be sign extended to 32 bits.
IsPossibleImm(v) ==
    LET upper == v \cap (16 .. 31)
    IN  IF 15 \in v THEN upper \in {{}, 16 .. 31} ELSE upper = {}

ImmNrBits(arch) == IF arch = 5 THEN 10 ELSE 11

\* Representable as a native, sign-extended immediate operand.
IsValidImm(arch, v) ==
    LET n    == ImmNrBits(arch)
        high == v \cap (n .. 15)
    IN  /\ IsPossibleImm(v)
        /\ high = IF (n - 1) \in v THEN n .. 15 ELSE {}

IsPowerOfTwo(v) == Cardinality(v) = 1

\* (mask + low_zeros_mask + 1) is a power of two, in 32-bit arithmetic.
IsContiguousBitmask(v) ==
    \/ v = {}
    \/ IsPowerOfTwo(Increment(v \cup (0 .. LowestBit(v) - 1)))

\* Operand class bits, written for arch 5 and shifted by one for arch 15.
ClassBits(arch, n) == IF arch = 15 THEN Shl(Bits(n), 1, 32) ELSE Bits(n)

\* Seeded fault: the truncation that goes with the warning is missing.
FaultyImmOperand(arch, v) == ClassBits(arch, \hC00) \cup v

ImmOperand(arch, v) ==
    ClassBits(arch, \hC00) \cup (v \cap (0 .. ImmNrBits(arch) - 1))

RegClass == [gpr |-> \hBC0, spr |-> \h800, offr |-> \h860]
RegLimit == [gpr |-> \h3F, spr |-> \h1FF, offr |-> 7]

RegOperand(arch, kind, nr) == ClassBits(arch, RegClass[kind]) \cup Bits(nr)

\* Seeded fault: arch 15's larger memory space is forgotten.
FaultyDirectBits(arch) == 11

\* Number of offset bits of a direct and of an indirect memory operand.
DirectBits(arch)   == IF arch = 5 THEN 11 ELSE 12
IndirectBits(arch) == IF arch = 5 THEN 6 ELSE 7

MemOperand(arch, off) == off \cap (0 .. DirectBits(arch) - 1)

IndirectOperand(arch, off, reg) ==
    ClassBits(arch, \hA00)
      \cup (off \cap (0 .. IndirectBits(arch) - 1))
      \cup Shl(Bits(reg), IndirectBits(arch), 32)

\* generate_operand for everything but a label, which resolve_labels fills in.
OperandWord(arch, o) ==
    CASE o.t = "imm"    -> ImmOperand(arch, o.v)
      [] o.t = "reg"    -> RegOperand(arch, o.kind, o.nr)
      [] o.t = "mem"    -> MemOperand(arch, o.off)
      [] o.t = "memoff" -> IndirectOperand(arch, o.off, o.reg)
      [] o.t = "raw"    -> o.v

\* The operands generate_operand stops at with asm_error.
OperandError(o) ==
    \/ o.t = "reg" /\ o.nr > RegLimit[o.kind]
    \/ o.t = "memoff" /\ o.reg > 6

\* The operands it truncates, with a warning.
OperandWarned(arch, o) ==
    \/ o.t = "imm"    /\ ~IsValidImm(arch, o.v)
    \/ o.t = "mem"    /\ o.off \ (0 .. DirectBits(arch) - 1) # {}
    \/ o.t = "memoff" /\ o.off \ (0 .. IndirectBits(arch) - 1) # {}

\* What resolve_labels stores for a label at address addr: the address in
\* the jump target slot (the third), an immediate in the others.
LabelOperand(arch, slot, addr) ==
    IF slot = 3 THEN Bits(addr) ELSE ClassBits(arch, \hC00) \cup Bits(addr)

\* emit_code: the 64-bit code word of an opcode and its three operands.
OperandBits(arch) == IF arch = 5 THEN 12 ELSE 13

CodeWord(arch, opcode, operands) ==
    LET w == OperandBits(arch)
    IN  operands[3] \cup Shl(operands[2], w, 64) \cup Shl(operands[1], 2 * w, 64)
          \cup Shl(opcode, 3 * w, 64)

\* emit_code: the byte order of a code word in the output file. The b43 and
\* raw-be32 formats store two big-endian halves, the upper half last.
FileFormats == {"b43", "raw-be32", "raw-le32"}

FileBytes(format, code) ==
    [k \in 0 .. 7 |->
        IF format = "raw-le32" THEN Field(code, 8 * k, 8)
        ELSE Field(code, IF k < 4 THEN 24 - 8 * k ELSE 88 - 8 * k, 8)]
=============================================================================
