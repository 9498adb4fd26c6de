---------------------------- MODULE TextPatcher ----------------------------
(***************************************************************************)
(* A patcher made from debug/patcher-template with libb43's Disassembler,  *)
(* TextPatcher and Assembler: it disassembles a microcode file, checks the *)
(* text's MD5 sum, edits lines by their numbers in the unmodified text and *)
(* writes the assembled result, perhaps over the file it has read, perhaps *)
(* more than once.  A microcode file stands for the text that b43-dasm     *)
(* prints of it; a damaged one has lost some of that.                      *)
(***************************************************************************)
EXTENDS Integers, SequencesExt

CONSTANTS
    Line,      \* what a line of text may be
    Expected,  \* the text whose MD5 sum the script knows
    Contents,  \* texts of the microcode files before the first run
    Patches,   \* what the script may consist of: sequences of edits
    Names,     \* of files
    MaxRuns,   \* bound: runs of the script
    None

\* Calls of delLine and addText.
Del(line)    == [op |-> "del", line |-> line, text |-> <<>>]
Add(line, t) == [op |-> "add", line |-> line, text |-> t]

IsScript(p) ==
    /\ p \in Seq({p[j] : j \in DOMAIN p})
    /\ \A j \in DOMAIN p :
        /\ p[j].line \in Int
        /\ p[j].text \in Seq(Line)
        /\ p[j] = Del(p[j].line) \/ p[j] = Add(p[j].line, p[j].text)

ASSUME TextPatcherAssumption ==
    /\ MaxRuns \in Nat /\ None \notin Names
    /\ Expected \in Seq(Line) /\ \A t \in Contents : t \in Seq(Line)
    /\ \A p \in Patches : IsScript(p)

VARIABLES
    edits,     \* the script's calls of delLine and addText
    files,     \* the microcode files
    first,     \* what they were before the first run
    runs,      \* bound: runs so far
    pc,        \* where the script is; "idle" between runs
    status,    \* how the last run ended
    from, to,  \* its arguments, to = None: print the text
    text,      \* asmText
    bin,       \* binaryText
    lines,     \* TextPatcher.lines
    k,         \* the edit that comes next
    trouble    \* which of dasm, asm and write has failed

vars == <<edits, files, first, runs, pc, status, from, to, text, bin, lines, k, trouble>>

script == <<edits, first, runs, from, to>>

Image(t)   == [text |-> t, whole |-> TRUE]
Damaged(t) == [text |-> t, whole |-> FALSE]

\* What a tool leaves that has failed: nothing, or all but the end.
Remains(t) == {<<>>, IF t = <<>> THEN t ELSE Front(t)}

Init ==
    /\ edits \in Patches
    /\ files \in [Names -> {Image(t) : t \in Contents}] /\ first = files
    /\ runs = 0 /\ pc = "idle" /\ status = "none"
    /\ from = None /\ to = None
    /\ text = <<>> /\ bin = None /\ lines = <<>> /\ k = 1
    /\ trouble = {}

End(how) == pc' = "idle" /\ status' = how

Run ==
    /\ pc = "idle" /\ runs < MaxRuns
    /\ runs' = runs + 1
    /\ from' \in Names /\ to' \in Names \cup {None}
    /\ pc' = "disassemble" /\ status' = "running"
    /\ UNCHANGED <<edits, files, first, text, bin, lines, k, trouble>>
-----------------------------------------------------------------------------
\* Disassembler: nobody looks at the status of b43-dasm.
Disassemble ==
    /\ pc = "disassemble" /\ files[from].whole
    /\ text' = files[from].text
    /\ pc' = "check"
    /\ UNCHANGED <<script, files, status, bin, lines, k, trouble>>

DisassembleFails ==
    /\ pc = "disassemble"
    /\ text' \in Remains(files[from].text) \cup {files[from].text}
    /\ text' = files[from].text => ~files[from].whole
    /\ pc' = "check"
    /\ trouble' = trouble \cup {"dasm"}
    /\ UNCHANGED <<script, files, status, bin, lines, k>>

TextLine(index, line) == [index |-> index, line |-> line, deleted |-> FALSE]

\* The lines of a text and the after-last dummy.
LinesOf(t) ==
    [n \in DOMAIN t |-> TextLine(n - 1, t[n])]
        \o <<[TextLine(Len(t), None) EXCEPT !.deleted = TRUE]>>

\* TextPatcher's constructor.
Start ==
    /\ lines' = LinesOf(text) /\ k' = 1
    /\ pc' = "edit"
    /\ UNCHANGED <<script, files, status, text, bin, trouble>>

\* Seeded fault: the sum is calculated, but not compared.
FaultyCheck == pc = "check" /\ Start

Check == pc = "check" /\ text = Expected /\ Start

Refuse ==
    /\ pc = "check" /\ text # Expected
    /\ End("refused")
    /\ UNCHANGED <<script, files, text, bin, lines, k, trouble>>
-----------------------------------------------------------------------------
\* delLine and addText: the first line with the number, or an exception.
Edit == edits[k]
Found == {n \in DOMAIN lines : lines[n].index = Edit.line}
FirstFound == CHOOSE n \in Found : \A m \in Found : n <= m

DelLine ==
    /\ pc = "edit" /\ k <= Len(edits) /\ Edit.op = "del" /\ Found # {}
    /\ lines' = [lines EXCEPT ![FirstFound].deleted = TRUE]
    /\ k' = k + 1
    /\ UNCHANGED <<script, files, pc, status, text, bin, trouble>>

Inserted(t, at) == SubSeq(lines, 1, at - 1) \o t \o SubSeq(lines, at, Len(lines))

\* Seeded fault: every new line is inserted at the same place.
FaultyAddText ==
    /\ pc = "edit" /\ k <= Len(edits) /\ Edit.op = "add" /\ Found # {}
    /\ lines' = Inserted(Reverse([n \in DOMAIN Edit.text |-> TextLine(-1, Edit.text[n])]), FirstFound)
    /\ k' = k + 1
    /\ UNCHANGED <<script, files, pc, status, text, bin, trouble>>

AddText ==
    /\ pc = "edit" /\ k <= Len(edits) /\ Edit.op = "add" /\ Found # {}
    /\ lines' = Inserted([n \in DOMAIN Edit.text |-> TextLine(-1, Edit.text[n])], FirstFound)
    /\ k' = k + 1
    /\ UNCHANGED <<script, files, pc, status, text, bin, trouble>>

LineMissing ==
    /\ pc = "edit" /\ k <= Len(edits) /\ Found = {}
    /\ End("refused")
    /\ UNCHANGED <<script, files, text, bin, lines, k, trouble>>

Kept(l) == IF l.deleted THEN <<>> ELSE <<l.line>>
GetText == FlattenSeq([n \in DOMAIN lines |-> Kept(lines[n])])

PrintText ==
    /\ pc = "edit" /\ k > Len(edits) /\ to = None
    /\ End("ok")
    /\ UNCHANGED <<script, files, text, bin, lines, k, trouble>>
-----------------------------------------------------------------------------
\* Assembler: nobody looks at the status of b43-asm, either.
Assemble ==
    /\ pc = "edit" /\ k > Len(edits) /\ to # None
    /\ bin' = Image(GetText)
    /\ pc' = "open"
    /\ UNCHANGED <<script, files, status, text, lines, k, trouble>>

AssembleFails ==
    /\ pc = "edit" /\ k > Len(edits) /\ to # None
    /\ \E rest \in Remains(GetText) : bin' = Damaged(rest)
    /\ pc' = "open"
    /\ trouble' = trouble \cup {"asm"}
    /\ UNCHANGED <<script, files, status, text, lines, k>>

\* open(outfile, "wb")
OpenOutput ==
    /\ pc = "open"
    /\ files' = [files EXCEPT ![to] = Damaged(<<>>)]
    /\ pc' = "write"
    /\ UNCHANGED <<script, status, text, bin, lines, k, trouble>>

WriteOutput ==
    /\ pc = "write"
    /\ files' = [files EXCEPT ![to] = bin]
    /\ End("ok")
    /\ UNCHANGED <<script, text, bin, lines, k, trouble>>

\* write() raises an error, or what is buffered is lost when the file, which is
\* never closed, is dropped.
WriteFails ==
    /\ pc = "write"
    /\ \E rest \in Remains(bin.text) : files' = [files EXCEPT ![to] = Damaged(rest)]
    /\ \E how \in {"crashed", "ok"} : End(how)
    /\ trouble' = trouble \cup {"write"}
    /\ UNCHANGED <<script, text, bin, lines, k>>

\* A file that cannot be opened is an exception that nobody catches.
OpenFails ==
    /\ pc \in {"disassemble", "open"}
    /\ End("crashed")
    /\ UNCHANGED <<script, files, text, bin, lines, k, trouble>>

Next ==
    \/ Run \/ Disassemble \/ DisassembleFails \/ Check \/ Refuse
    \/ DelLine \/ AddText \/ LineMissing \/ PrintText
    \/ Assemble \/ AssembleFails \/ OpenOutput \/ OpenFails \/ WriteOutput \/ WriteFails

Spec == Init /\ [][Next]_vars
-----------------------------------------------------------------------------
\* The first n edits as one change of the unmodified text: in front of every
\* line and behind the last one stand the texts added there, in the order of
\* the calls, and a line that is deleted somewhere is gone.
AddedAt(line, n) ==
    FlattenSeq([j \in 1 .. n |-> IF edits[j].op = "add" /\ edits[j].line = line
                                 THEN edits[j].text ELSE <<>>])
KeptAt(line, n) ==
    IF line = Len(Expected) \/ \E j \in 1 .. n : edits[j] = Del(line)
    THEN <<>> ELSE <<Expected[line + 1]>>

Patched(n) ==
    FlattenSeq([l \in 1 .. Len(Expected) + 1 |-> AddedAt(l - 1, n) \o KeptAt(l - 1, n)])

\* Line numbers of inserted lines are -1, so that an edit with this number
\* finds one of them instead of failing.
Natural(n) == \A j \in 1 .. n : edits[j].line >= 0

\* Every line number means the line of the unmodified text, as delLine's and
\* addText's descriptions say, whatever has been inserted and deleted before.
TextIsEdits == (pc = "edit" /\ Natural(k - 1)) => GetText = Patched(k - 1)

\* However often the script runs, on its own output, too, and whatever of its
\* tools fails: a file holds what it held before, or the expected text with all
\* edits applied once.  Only b43-asm and the writing of the file can damage it,
\* as an incomplete text of b43-dasm does not have the MD5 sum.
PatchedOnce ==
    (pc # "write" /\ Natural(Len(edits))) =>
        \A f \in Names :
            \/ files[f] = first[f]
            \/ /\ \A j \in DOMAIN edits : edits[j].line <= Len(Expected)
               /\ files[f] = Image(Patched(Len(edits)))
            \/ ~files[f].whole /\ trouble \cap {"asm", "write"} # {}
=============================================================================
