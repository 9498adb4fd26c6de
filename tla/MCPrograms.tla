----------------------------- MODULE MCPrograms -----------------------------
\* Small assembler programs for TLC.
EXTENDS AsmInstructions, SequencesExt

G(n)    == [t |-> "reg", kind |-> "gpr", nr |-> n]
S(n)    == [t |-> "reg", kind |-> "spr", nr |-> n]
M(n)    == [t |-> "mem", off |-> Bits(n)]
Arch(n) == [kind |-> "arch", arch |-> n]
Begin(l) == [kind |-> "start", name |-> l]
Lab(l)  == [kind |-> "label", name |-> l]
I(op, opers) == [kind |-> "insn", insn |-> Insn(op, opers)]
Ref(l, d) == [t |-> "label", name |-> l, dir |-> d]

OrInsn == I("or", <<G(1), G(2), G(3)>>)

\* Label structure: every program of at most 4 statements over two labels and
\* all three directions of reference, with and without %start.
LabelStatements ==
    {Lab("a"), Lab("b"), OrInsn,
     I("jmp", <<Ref("a", "absolute")>>),
     I("je", <<G(1), Ref("b", "back"), Ref("a", "back")>>),
     I("jzx", <<RAW({0}), RAW({}), G(1), G(2), Ref("a", "forward")>>)}

LabelPrograms ==
    { <<Arch(5)>> \o s \o b :
        s \in {<<>>, <<Begin("a")>>, <<Begin("b")>>},
        b \in BoundedSeq(LabelStatements, 4) }

\* Directives in every order, number and place, legal or not.
DirectivePrograms ==
    BoundedSeq({Arch(5), Arch(15), Arch(10), Arch(20), Arch(3),
                Begin("a"), Begin("b"), Lab("a"), OrInsn}, 4)

\* Instructions the assembler emulates, restricts or refuses, jumps and
\* returns in every order.
Instructions ==
    {OrInsn,
     I("mov", <<IMM(Bits(\h1234)), G(1)>>),
     I("mov", <<IMM({16}), G(1)>>),
     I("mov", <<Ref("a", "absolute"), G(1)>>),
     I("jand", <<IMM(Bits(\h3800)), G(1), Ref("a", "absolute")>>),
     I("jnand", <<G(1), IMM(Bits(\h3C00)), Ref("a", "absolute")>>),
     I("jand", <<G(1), IMM(Bits(\h5800)), Ref("a", "absolute")>>),
     I("jg", <<G(1), G(2), Ref("a", "absolute")>>),
     I("jle", <<G(1), G(2), Ref("a", "absolute")>>),
     I("orx", <<RAW({0, 4}), RAW({3}), G(1), G(2), G(3)>>),
     I("jnext", <<IMM({8}), Ref("a", "absolute")>>),
     I("jext", <<IMM(Bits(\h71)), Ref("a", "absolute")>>),
     I("add", <<S(1), S(2), G(3)>>),
     I("sub", <<M(1), M(2), G(3)>>),
     I("xor", <<G(1), G(64), G(3)>>),
     I("call", CallOpers(1, Ref("a", "absolute"))),
     I("calls", CallsOpers(Ref("a", "absolute"))),
     I("rets", NapOpers), I("nap", NapOpers),
     I("tkip", TkipOpers(G(1), {0, 1}, G(2))),
     [kind |-> "insn", insn |-> [op |-> "raw", opers |-> <<RAW({1}), G(1), M(5)>>,
                                 code |-> Bits(\hFED)]]}

Ret == I("ret", RetOpers(0, 1))

InstructionPrograms ==
    { <<Arch(a)>> \o s \o <<Lab("a"), x>> \o b \o <<y>> :
        a \in Arches, s \in {<<>>, <<Begin("a")>>},
        b \in {<<>>, <<Lab("b")>>},
        x \in Instructions \cup {Ret}, y \in Instructions \cup {Ret} }

\* Opcodes and operands written as machine numbers: those that have a statement
\* of their own, with operands it would not have, unknown ones and such that do
\* not fit; and jumps to something else than a label.
Raw(opcode, opers) ==
    [kind |-> "insn", insn |-> [op |-> "raw", opers |-> opers, code |-> Bits(opcode)]]

HandCodedInsns ==
    {Raw(n, opers) :
        n \in {0, 1, 2, 3, 4, 5, \h0D0, \h160, \h1E0, \h6FF, \hFED, \h1160},
        opers \in {<<G(0), G(0), RAW({})>>, <<G(1), M(2), G(3)>>, <<M(1), IMM({0, 2}), RAW({1})>>}}
      \cup
    {I("or", <<RAW({}), RAW({0}), G(1)>>), I("or", <<G(1), G(2), RAW({0, 10, 11, 12})>>),
     I("or", <<RAW({12}), G(2), G(3)>>), I("or", <<RAW({13}), G(2), G(3)>>),
     I("je", <<G(1), G(2), RAW({0})>>), I("je", <<G(1), G(2), RAW({0, 1, 2})>>),
     I("je", <<G(1), G(2), IMM({})>>), I("jzx", <<RAW({0}), RAW({}), G(1), G(2), M(1)>>),
     I("tkip", TkipOpers(RAW({3}), {0}, RAW({3})))}

HandCodedPrograms ==
    { <<Arch(a)>> \o s \o <<x, Lab("a"), y>> :
        a \in Arches, s \in {<<>>, <<Begin("a")>>}, x \in HandCodedInsns,
        y \in {OrInsn, I("jmp", <<Ref("a", "absolute")>>), Raw(4, <<G(0), G(0), RAW({})>>)} }

AllPrograms ==
    LabelPrograms \cup DirectivePrograms \cup InstructionPrograms \cup HandCodedPrograms
=============================================================================
