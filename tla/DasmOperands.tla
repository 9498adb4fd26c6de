---------------------------- MODULE DasmOperands ----------------------------
(***************************************************************************)
(* How b43-dasm reads a code word back and which operand text it prints    *)
(* for an operand field (disassembler/main.c). The text is given by the    *)
(* operand that b43-asm's parser makes of it (AsmOperands).                *)
(***************************************************************************)
EXTENDS AsmOperands, FiniteSetsExt

\* read_input: the code word of eight bytes of an input file.
ReadWord(format, bytes) ==
    UNION { LET lo == IF format = "raw-le32" THEN 8 * k
                      ELSE IF k < 4 THEN 24 - 8 * k ELSE 88 - 8 * k
            IN  Shl(bytes[k], lo, 64) : k \in 0 .. 7 }

\* read_input: "upper not clear".
FormatError(arch, code) == code \ (0 .. 3 * OperandBits(arch) + 11) # {}

OpcodeOf(arch, code) == Field(code, 3 * OperandBits(arch), 12)

OperandsOf(arch, code) ==
    LET w == OperandBits(arch)
    IN  <<Field(code, 2 * w, w), Field(code, w, w), Field(code, 0, w)>>

\* Seeded fault: immediates are printed without their sign.
FaultySignExtended(arch, w) == w \cap (0 .. ImmNrBits(arch) - 1)

\* disasm_imm_operand: the immediate, sign extended to 16 bits.
SignExtended(arch, w) ==
    LET n   == ImmNrBits(arch)
        low == w \cap (0 .. n - 1)
    IN  IF (n - 1) \in low THEN low \cup (n .. 15) ELSE low

\* The number printed for a word of few bits.
BitValue(b) == 2^b
NumberOf(w) == MapThenSumSet(BitValue, w)

\* disasm_std_operand, with arch 15's class bits one position higher. The
\* text of a GPR and of an SPR is masked to 6 and 9 bits on arch 5 and to 7
\* and 11 bits on arch 15.
StdOperand(arch, w) ==
    LET s        == IF arch = 15 THEN 1 ELSE 0
        Class(hi, lo) == {b - s : b \in w \cap ((lo + s) .. (hi + s))}
    IN  CASE (11 + s) \notin w -> [t |-> "mem", off |-> w]
          [] Class(11, 10) = {10, 11} -> [t |-> "imm", v |-> SignExtended(arch, w)]
          [] Class(11, 6) = Bits(\hBC0) ->
               [t |-> "reg", kind |-> "gpr", nr |-> NumberOf(Field(w, 0, 6 + s))]
          [] Class(11, 9) = {11} ->
               [t |-> "reg", kind |-> "spr",
                nr |-> NumberOf(Field(w, 0, IF arch = 5 THEN 9 ELSE 11))]
          [] Class(11, 9) = {9, 11} /\ Class(11, 6) # Bits(\hBC0) ->
               [t |-> "memoff", off |-> Field(w, 0, IndirectBits(arch)),
                reg |-> NumberOf(Field(w, IndirectBits(arch), 3))]
          [] OTHER -> RAW(w)
=============================================================================
