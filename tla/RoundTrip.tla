----------------------------- MODULE RoundTrip -----------------------------
(***************************************************************************)
(* What assembler/selftest.sh checks of an image: b43-dasm's text is given *)
(* to b43-asm and must make the same image again. The assembler's side is  *)
(* its meaning AsmMeaning, which the module Assembler implements.          *)
(***************************************************************************)
EXTENDS Disassembler

Asm == INSTANCE AsmMeaning WITH
    Programs <- {}, NoName <- "", prog <- text, status <- "running", image <- <<>>

\* The text is complete and no reference was taken from the list head.
WholeText ==
    /\ pc = "done"
    /\ \A k \in DOMAIN stmts : stmts[k].label # StrayLabel

\* The assembler refuses the text: its parser, or one of its later passes.
Refused ==
    \/ \E k \in DOMAIN text : text[k].kind = "insn" /\ SyntaxError(text[k].insn)
    \/ Asm!Rejected(text)

\* Machine operands that the text of an instruction does not show, because
\* the disassembler takes them for the dummies that b43-asm puts there.
HidesOperands(bin) ==
    LET arch == image.arch
        r0   == RegOperand(arch, "gpr", 0)
        hi   == bin.opcode \div 256
    IN  \/ hi \in {6, 7} /\ <<bin.operands[1], bin.operands[2]>> # <<r0, r0>>
        \/ bin.opcode = 2 /\ arch = 5 /\ bin.operands[2] # {}
        \/ bin.opcode = 3 /\ bin.operands[2] # {}
        \/ bin.opcode = \h1E0
             /\ bin.operands[2] # ImmOperand(arch, bin.operands[2])
        \/ DisasmWarned(arch, bin)

\* selftest.sh: "Checksums match". If the assembler takes the text, it makes
\* an image of the same length in which every word is the original one, apart
\* from operands the text does not show.
TextMakesImage ==
    WholeText /\ ~Refused =>
        LET again == Asm!Image(text)
        IN  /\ Len(again) = Len(image.words)
            /\ \A k \in DOMAIN code :
                  again[k] = image.words[k] \/ HidesOperands(code[k])

\* The machine instructions whose text the assembler refuses: RET on arch 15,
\* link registers above 3, register numbers beyond the assembler's limits, two
\* input operands in SPRs or two in memory, an immediate to store to.
Unassemblable(bin) ==
    LET insn == Disasm(image.arch, unknown, bin)
    IN  \/ bin.opcode = 3 /\ image.arch = 15
        \/ SyntaxError(insn)
        \/ \E k \in DOMAIN insn.opers : OperandError(insn.opers[k])
        \/ InputError(MachineOperands(insn))

\* The assembler refuses the text for one of those instructions and for
\* nothing else: all label names are defined, once, and every directive is in
\* its place.
RefusedForAnInstruction ==
    WholeText => (Refused <=> \E k \in DOMAIN code : Unassemblable(code[k]))

\* A statement with a machine number of the programmer's: an opcode or an
\* operand behind an @, or a jump to something else than a label.
IsHandCoded(arch, insn) ==
    LET real   == Emulated(arch, insn)
        target == MachineOperands(real)[3]
    IN  \/ insn.op = "raw"
        \/ /\ insn.op \notin DOMAIN OtherOpcode \ {"tkip"}
           /\ \E n \in 1 .. 3 : MachineOperands(real)[n].t = "raw"
        \/ real.op \in SetsJumpFlag \cup {"jg"} /\ target.t # "label"

\* The words of the image that such statements of its program became.
HandCoded ==
    {w \in DOMAIN image.words :
        \E k \in Asm!Positions(image.made, "insn") :
            /\ Asm!AddressOf(image.made, k) = w - 1
            /\ IsHandCoded(image.arch, image.made[k].insn)}

\* The word that b43-dasm stopped at: in read_input, in disasm_opcodes, or in
\* resolve_labels. It can stop at none when the output cannot be opened.
StoppedAt(w) ==
    /\ pc = "error"
    /\ CASE Len(code) < Len(image.words) -> w = Len(code) + 1
         [] Len(stmts) < Len(code)       -> w = Len(stmts) + 1
         [] i <= Len(stmts)              -> w = InsnsUpTo(stmts, i)
         [] OTHER                        -> FALSE

IsBehindTheEnd(w) ==
    /\ w \in DOMAIN code /\ Len(stmts) >= Len(code)
    /\ LabelAddr(code[w]) = Len(code)

\* Images that b43-asm made come back as they were. Only a word whose machine
\* numbers the programmer wrote can be hidden by the text, make b43-asm refuse
\* it, or make b43-dasm refuse the image, in any of its passes; it refuses one
\* else only for a jump to a label behind the last instruction, whose address
\* get_label_at does not find.
AssembledImagesReturn ==
    image.made # <<>> =>
        /\ WholeText =>
              /\ Refused => \E w \in HandCoded : Unassemblable(code[w])
              /\ ~Refused =>
                    \A w \in DOMAIN code \ HandCoded : Asm!Image(text)[w] = image.words[w]
        /\ \A w \in DOMAIN image.words \ HandCoded : StoppedAt(w) => IsBehindTheEnd(w)
=============================================================================
