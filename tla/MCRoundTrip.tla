---------------------------- MODULE MCRoundTrip ----------------------------
\* Small images for TLC.
EXTENDS RoundTrip, MCPrograms

Word(a, op, x, y, z) == CodeWord(a, Bits(op), <<x, y, z>>)
Gpr(a, n) == RegOperand(a, "gpr", n)
Spr(a, n) == RegOperand(a, "spr", n)

\* Control flow: images of up to four instructions, jumps to every address in
\* and one behind the image, between instructions that do not jump.
Flow(a) ==
    {Word(a, \h160, Gpr(a, 1), Gpr(a, 2), Gpr(a, 3))}
      \cup {Word(a, \h77F, Gpr(a, 0), Gpr(a, 0), Bits(n)) : n \in 0 .. 4}

FlowImages ==
    { [arch |-> 5, header |-> "ok", words |-> w, tail |-> FALSE, made |-> <<>>] :
        w \in BoundedSeq(Flow(5), 4) }

\* Every instruction form with operands of every class.
Opcodes ==
    {\h000, \h001, \h002, \h003, \h004, \h005, \h006, \h101, \h1C3, \h1E0,
     \h040, \h041, \h050, \h0D9, \h0DC, \h0DD, \h0DE, \h23F, \h3F0, \h4A5,
     \h5FF, \h655, \h771, \h800, \hFFF}

OperandFields(a) ==
    {{}, {0}, {1, 2}, Gpr(a, 0), Gpr(a, 63), Spr(a, 1), Spr(a, 511),
     ImmOperand(a, {}), ImmOperand(a, {0, 1}), ImmOperand(a, 0 .. 15),
     IndirectOperand(a, {0}, 6), 0 .. OperandBits(a) - 1}
      \cup (IF a = 15 THEN {Gpr(a, 63) \cup {6}, Spr(a, 511) \cup {9}} ELSE {})

FormWords(a) ==
    {Word(a, op, f[1], f[2], f[3]) :
        op \in Opcodes,
        f \in {<<x, y, z>> : x \in OperandFields(a), y \in {{0}, Gpr(a, 0), Spr(a, 1), ImmOperand(a, {0})},
                                z \in {{}, Gpr(a, 3)}}
             \cup {<<x, x, z>> : x \in {Gpr(a, 0), {}}, z \in OperandFields(a)}}

FormImages ==
    UNION { { [arch |-> a, header |-> "ok", words |-> <<w>>, tail |-> FALSE, made |-> <<>>] :
                w \in FormWords(a) } : a \in Arches }

\* Damaged files.
BadImages ==
    { [arch |-> a, header |-> h, words |-> w, tail |-> t, made |-> <<>>] :
        a \in Arches, h \in {"ok", "none", "other"}, t \in BOOLEAN,
        w \in {<<>>, <<Word(5, \h160, Gpr(5, 1), Gpr(5, 2), Gpr(5, 3))>>,
               <<Word(5, \h160, Gpr(5, 1), Gpr(5, 2), Gpr(5, 3)), {48}>>, <<{51}>>} }

\* Images that b43-asm makes: of every label structure in programs of three
\* statements, of every kind of instruction and of every hand-coded one.
ImageOf(p) ==
    [arch |-> Asm!ArchOf(p), header |-> "ok", words |-> Asm!Image(p), tail |-> FALSE, made |-> p]

AssembledImages ==
    {ImageOf(p) : p \in {q \in LabelPrograms \cup InstructionPrograms \cup HandCodedPrograms :
                           Len(q) <= 5 /\ ~Asm!Rejected(q)}}

AllImages == FlowImages \cup FormImages \cup BadImages \cup AssembledImages
=============================================================================
