---------------------------- MODULE OperandCodec ----------------------------
(***************************************************************************)
(* One operand field on its way from assembler source into an image and    *)
(* back: b43-asm encodes it, b43-dasm prints it, b43-asm encodes the       *)
(* printed text. The walk starts from an operand of the source, from the   *)
(* address of a label used as an operand, or from the operand field of an  *)
(* image that some other tool produced.                                    *)
(***************************************************************************)
EXTENDS DasmOperands

CONSTANTS
    Operands,      \* source operands (records of AsmOperands, labels apart)
    Addresses,     \* code addresses labels may have
    None           \* no operand

ASSUME CodecAssumption ==
    /\ Addresses \subseteq 0 .. 4095  \* NUM_INSN_LIMIT_R5 instructions
    /\ None \notin Operands

VARIABLES
    stage,   \* "source", "field", "text", "again" or "refused"
    arch,
    origin,  \* where the field comes from: "operand", "label" or "image"
    source,  \* the operand it stands for, None for a foreign image
    field,   \* the operand field in the image
    text,    \* the operand b43-dasm prints for it
    again    \* the field b43-asm makes of that text

vars == <<stage, arch, origin, source, field, text, again>>

FromOperand ==
    /\ stage = "source" /\ origin = "operand"
    /\ source \in Operands
    /\ field = {}

\* A label in an operand slot other than a jump's target.
FromLabel ==
    /\ stage = "field" /\ origin = "label"
    /\ \E n \in Addresses :
          /\ source = IMM(Bits(n))
          /\ field = LabelOperand(arch, 1, n)

FromImage ==
    /\ stage = "field" /\ origin = "image"
    /\ source = None
    /\ field \in WordOf(OperandBits(arch))

Init ==
    /\ arch \in Arches
    /\ FromOperand \/ FromLabel \/ FromImage
    /\ text = None
    /\ again = {}

\* generate_operand, or its asm_error.
Assemble ==
    /\ stage = "source"
    /\ ~OperandError(source)
    /\ stage' = "field"
    /\ field' = OperandWord(arch, source)
    /\ UNCHANGED <<arch, origin, source, text, again>>

Refuse ==
    /\ \/ stage = "source" /\ OperandError(source)
       \/ stage = "text" /\ OperandError(text)
    /\ stage' = "refused"
    /\ UNCHANGED <<arch, origin, source, field, text, again>>

\* disasm_std_operand.
Disassemble ==
    /\ stage = "field"
    /\ stage' = "text"
    /\ text' = StdOperand(arch, field)
    /\ UNCHANGED <<arch, origin, source, field, again>>

\* generate_operand on the disassembler's text.
Reassemble ==
    /\ stage = "text"
    /\ ~OperandError(text)
    /\ stage' = "again"
    /\ again' = OperandWord(arch, text)
    /\ UNCHANGED <<arch, origin, source, field, text>>

Next == Assemble \/ Refuse \/ Disassemble \/ Reassemble

Spec == Init /\ [][Next]_vars
-----------------------------------------------------------------------------
\* What an operand of the source names: immediates are 16 bits wide, and the
\* offset registers are the SPRs at ClassBits(arch, 0x60).
Denoted(o) ==
    CASE o.t = "imm" -> IMM(o.v \cap (0 .. 15))
      [] o.t = "reg" /\ o.kind = "offr" ->
           [o EXCEPT !.kind = "spr",
                     !.nr = NumberOf(ClassBits(arch, \h60)) + o.nr]
      [] OTHER -> o

\* The address of a label as an immediate reaches the bit that is taken for its
\* sign, which nothing looks at.
ReachesSign(o) == origin = "label" /\ o.v \cap (ImmNrBits(arch) - 1 .. 15) # {}

\* An operand that b43-asm accepts without a warning is the one b43-dasm
\* prints: no immediate, register number or offset is cut, moved into a
\* neighbouring class, or read back with another sign, silently; nor is the
\* address of a label, as far as it is not taken for a negative number.
TextMeansSource ==
    (stage \in {"text", "again"} /\ source # None
        /\ ~OperandWarned(arch, source) /\ ~ReachesSign(source))
      => text = Denoted(source)

\* Disassembling an operand field of any image and assembling the text gives
\* the field back (selftest.sh: "Checksums match").  The only texts that
\* b43-asm refuses are arch 15's r64 to r127 and spr200 to spr3FF: the
\* disassembler masks register numbers with 7 and 11 bits there, the assembler
\* still with 6 and 9.
FieldIsStable ==
    /\ stage = "again" => again = field
    /\ (stage = "refused" /\ text # None) =>
          /\ arch = 15 /\ text.t = "reg"
          /\ text.nr > IF text.kind = "gpr" THEN 63 ELSE 511
=============================================================================
