---------------------------- MODULE Disassembler ----------------------------
(***************************************************************************)
(* b43-dasm (disassemble() in disassembler/main.c): an image is read word  *)
(* by word, disassembled into a statement list, labels are inserted into   *)
(* that list where jumps lead, named in list order, and the text written.  *)
(*                                                                         *)
(* An image is [arch, header, words, tail, made]: the --arch it is read    *)
(* with, whether its header is accepted, its code words, whether bytes are *)
(* left behind the last whole word, and the program that b43-asm made it   *)
(* of, <<>> for other images.                                              *)
(***************************************************************************)
EXTENDS DasmInstructions, SequencesExt

CONSTANTS
    Images,         \* the input files
    UnknownDecode   \* the settings of --unknown-decode

ASSUME DisassemblerAssumption ==
    /\ \A m \in Images : m.arch \in Arches
    /\ UnknownDecode \subseteq BOOLEAN

VARIABLES
    image,      \* the input file
    unknown,    \* cmdargs.unknown_decode
    pc,         \* the loop the program is in, or how it ended
    i,          \* the position of the loop
    code,       \* ctx->code: the machine instructions read
    stmts,      \* ctx->stmt_list
    labels,     \* the number of label statements made so far
    text,       \* the statements written to the output file
    outfile     \* the output file: "old", "open", "closed" or "truncated"

vars == <<image, unknown, pc, i, code, stmts, labels, text, outfile>>

\* A statement: an instruction with the label statement it refers to (0 for
\* none), or a label. Label statements are told apart by the number under
\* which they were made, as pointers tell them apart.
InsnStmt(insn, addr) ==
    [type |-> "insn", insn |-> insn, addr |-> addr, label |-> 0, name |-> ""]
LabelStmt(id) ==
    [type |-> "label", insn |-> <<>>, addr |-> -1, label |-> id, name |-> ""]

\* What get_label_at takes for a label when it reads the list head as a
\* statement.
StrayLabel == -1

Init ==
    /\ image \in Images
    /\ unknown \in UnknownDecode
    /\ pc = "read"
    /\ i = 1
    /\ code = <<>>
    /\ stmts = <<>>
    /\ labels = 0
    /\ text = <<>>
    /\ outfile = "old"

DasmError ==
    /\ pc' = "error"
    /\ UNCHANGED <<image, unknown, i, code, stmts, labels, text, outfile>>
-----------------------------------------------------------------------------
\* read_input
ReadInsn ==
    /\ pc = "read" /\ image.header = "ok" /\ i <= Len(image.words)
    /\ ~FormatError(image.arch, image.words[i])
    /\ code' = Append(code, BinInsn(image.arch, image.words[i]))
    /\ i' = i + 1
    /\ UNCHANGED <<image, unknown, pc, stmts, labels, text, outfile>>

\* No or another header; "upper not clear"; "not 8 byte aligned".
ReadError ==
    /\ pc = "read"
    /\ \/ image.header # "ok"
       \/ i <= Len(image.words) /\ FormatError(image.arch, image.words[i])
       \/ i > Len(image.words) /\ image.tail
    /\ DasmError

EndOfInput ==
    /\ pc = "read" /\ image.header = "ok"
    /\ i > Len(image.words) /\ ~image.tail
    /\ pc' = "disasm"
    /\ i' = 1
    /\ UNCHANGED <<image, unknown, code, stmts, labels, text, outfile>>
-----------------------------------------------------------------------------
\* disasm_opcodes
DisasmInsn ==
    /\ pc = "disasm" /\ i <= Len(code)
    /\ ~DisasmError(image.arch, code[i])
    /\ LET insn == Disasm(image.arch, unknown, code[i])
       IN  stmts' = Append(stmts, InsnStmt(insn, IF HasLabelRef(insn)
                                                 THEN LabelAddr(code[i]) ELSE -1))
    /\ i' = i + 1
    /\ UNCHANGED <<image, unknown, pc, code, labels, text, outfile>>

DisasmFails ==
    /\ pc = "disasm" /\ i <= Len(code)
    /\ DisasmError(image.arch, code[i])
    /\ DasmError

EndOfCode ==
    /\ pc = "disasm" /\ i > Len(code)
    /\ pc' = "resolve"
    /\ i' = 1
    /\ UNCHANGED <<image, unknown, code, stmts, labels, text, outfile>>
-----------------------------------------------------------------------------
\* resolve_labels

\* The positions with exactly n instructions in front of them, an instruction
\* themselves: where get_label_at stops for address n, if anywhere.
InsnsUpTo(list, k) == Cardinality({l \in 1 .. k : list[l].type = "insn"})
AtAddress(list, n) ==
    {k \in DOMAIN list : list[k].type = "insn" /\ InsnsUpTo(list, k) = n + 1}

\* The statement in hand has a reference to the instruction at position k.
Refers(k) ==
    /\ pc = "resolve" /\ i <= Len(stmts)
    /\ stmts[i].type = "insn" /\ stmts[i].addr >= 0
    /\ k \in AtAddress(stmts, stmts[i].addr)

\* The statement before the instruction is a label already.
UseLabel ==
    /\ \E k \in DOMAIN stmts :
          /\ Refers(k) /\ k > 1 /\ stmts[k - 1].type = "label"
          /\ stmts' = [stmts EXCEPT ![i].label = stmts[k - 1].label]
    /\ i' = i + 1
    /\ UNCHANGED <<image, unknown, pc, code, labels, text, outfile>>

\* Seeded fault: the label is inserted behind the target.
LabelBehind ==
    /\ \E k \in DOMAIN stmts :
          /\ Refers(k) /\ (k > 1 => stmts[k - 1].type = "insn")
          /\ LET linked == [stmts EXCEPT ![i].label = labels + 1]
             IN  stmts' = InsertAt(linked, k + 1, LabelStmt(labels + 1))
          /\ i' = IF k <= i THEN i + 2 ELSE i + 1
    /\ labels' = labels + 1
    /\ UNCHANGED <<image, unknown, pc, code, text, outfile>>

\* A new label is inserted; the statement in hand moves with the list.
MakeLabel ==
    /\ \E k \in DOMAIN stmts :
          /\ Refers(k) /\ (k > 1 => stmts[k - 1].type = "insn")
          /\ LET linked == [stmts EXCEPT ![i].label = labels + 1]
             IN  stmts' = InsertAt(linked, k, LabelStmt(labels + 1))
          /\ i' = IF k <= i THEN i + 2 ELSE i + 1
    /\ labels' = labels + 1
    /\ UNCHANGED <<image, unknown, pc, code, text, outfile>>

\* For the first statement, stmt->list.prev is the list head, which is read as
\* a struct statement all the same. When what lies before the context on the
\* stack looks like a label's type, the head is returned as the label.
UseListHead ==
    /\ Refers(1)
    /\ stmts' = [stmts EXCEPT ![i].label = StrayLabel]
    /\ i' = i + 1
    /\ UNCHANGED <<image, unknown, pc, code, labels, text, outfile>>

\* Seeded fault: the loop does not get past a label.
StuckAtLabel ==
    /\ pc = "resolve" /\ i <= Len(stmts)
    /\ stmts[i].type = "label" \/ stmts[i].addr = -1
    /\ i' = IF stmts[i].type = "label" THEN i ELSE i + 1
    /\ UNCHANGED <<image, unknown, pc, code, stmts, labels, text, outfile>>

SkipStatement ==
    /\ pc = "resolve" /\ i <= Len(stmts)
    /\ stmts[i].type = "label" \/ stmts[i].addr = -1
    /\ i' = i + 1
    /\ UNCHANGED <<image, unknown, pc, code, stmts, labels, text, outfile>>

\* "Labeladdress out of bounds".
OutOfBounds ==
    /\ pc = "resolve" /\ i <= Len(stmts)
    /\ stmts[i].type = "insn" /\ stmts[i].addr >= 0
    /\ AtAddress(stmts, stmts[i].addr) = {}
    /\ DasmError

\* The naming loop: L0, L1, ... in list order.
LabelName(n) == "L" \o ToString(n)

\* Seeded fault: the counter of the naming loop is not incremented.
SameNames ==
    /\ pc = "resolve" /\ i > Len(stmts)
    /\ stmts' = [k \in DOMAIN stmts |->
                   IF stmts[k].type = "label"
                   THEN [stmts[k] EXCEPT !.name = LabelName(0)] ELSE stmts[k]]
    /\ pc' = "open"
    /\ UNCHANGED <<image, unknown, i, code, labels, text, outfile>>

NameLabels ==
    /\ pc = "resolve" /\ i > Len(stmts)
    /\ stmts' = [k \in DOMAIN stmts |->
                   IF stmts[k].type = "label"
                   THEN [stmts[k] EXCEPT !.name =
                          LabelName(k - 1 - InsnsUpTo(stmts, k))]
                   ELSE stmts[k]]
    /\ pc' = "open"
    /\ UNCHANGED <<image, unknown, i, code, labels, text, outfile>>
-----------------------------------------------------------------------------
\* emit_asm
Prologue ==
    <<[kind |-> "arch", arch |-> image.arch],
      [kind |-> "start", name |-> "entry"],
      [kind |-> "label", name |-> "entry"]>>

OpenOutput ==
    /\ pc = "open"
    /\ outfile' = "open"
    /\ text' = Prologue
    /\ pc' = "emit"
    /\ i' = 1
    /\ UNCHANGED <<image, unknown, code, stmts, labels>>

OpenFails ==
    /\ pc = "open"
    /\ DasmError

\* The name printed for a label reference; the head's is whatever its bytes
\* point to.
NameOf(id) ==
    IF id = StrayLabel THEN "?"
    ELSE stmts[CHOOSE k \in DOMAIN stmts :
                 stmts[k].type = "label" /\ stmts[k].label = id].name

Printed(s) ==
    IF s.type = "label" THEN [kind |-> "label", name |-> s.name]
    ELSE [kind |-> "insn",
          insn |-> IF s.label = 0 THEN s.insn
                   ELSE [s.insn EXCEPT !.opers[Len(s.insn.opers)].name = NameOf(s.label)]]

EmitStatement ==
    /\ pc = "emit" /\ i <= Len(stmts)
    /\ text' = Append(text, Printed(stmts[i]))
    /\ i' = i + 1
    /\ UNCHANGED <<image, unknown, pc, code, stmts, labels, outfile>>

\* Neither fprintf's nor fclose's results are looked at.
CloseOutput ==
    /\ pc = "emit" /\ i > Len(stmts)
    /\ outfile' \in {"closed", "truncated"}
    /\ pc' = "done"
    /\ UNCHANGED <<image, unknown, i, code, stmts, labels, text>>

Ended == pc \in {"done", "error"}

Next ==
    \/ ReadInsn \/ ReadError \/ EndOfInput
    \/ DisasmInsn \/ DisasmFails \/ EndOfCode
    \/ UseLabel \/ MakeLabel \/ UseListHead \/ SkipStatement \/ OutOfBounds
    \/ NameLabels \/ OpenOutput \/ OpenFails \/ EmitStatement \/ CloseOutput

Spec == Init /\ [][Next]_vars

\* One thread, nothing to wait for.
FairSpec == Spec /\ WF_vars(Next)
-----------------------------------------------------------------------------
\* The labels that references stand for.
LabelPositions(id) ==
    {k \in DOMAIN stmts : stmts[k].type = "label" /\ stmts[k].label = id}

\* Inserting a label into the list that is being walked moves no reference
\* made before: whatever is inserted later, the one label that a resolved
\* reference points to has as many instructions in front of it as the jump's
\* address says.
ReferencesStayRight ==
    \A k \in DOMAIN stmts :
        stmts[k].type = "insn" /\ stmts[k].label > 0 =>
            \E l \in DOMAIN stmts :
                /\ LabelPositions(stmts[k].label) = {l}
                /\ InsnsUpTo(stmts, l) = stmts[k].addr

\* No input makes b43-dasm walk its growing list for ever.
Terminates == <>Ended
=============================================================================
