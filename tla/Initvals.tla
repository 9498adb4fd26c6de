------------------------------ MODULE Initvals ------------------------------
(***************************************************************************)
(* The .initvals sections of b43-asm: the parser collects the writes of    *)
(* each named section, assemble_initvals() turns them into register writes *)
(* and writes one file per section, after the microcode file.  Any write   *)
(* may fail; fclose() is not checked and may lose what was buffered.       *)
(***************************************************************************)
EXTENDS InitvalDevice

CONSTANTS Sources,      \* the source texts: sequences of lines
          SectionNames  \* the names their .initvals sections have

\* Lines: [kind |-> ".text"], [kind |-> ".initvals", name], [kind |-> "insn"]
\* and [kind |-> "write", op].
ASSUME SourcesAssumption ==
    \A text \in Sources :
        /\ Len(text) \in Nat /\ DOMAIN text = 1 .. Len(text)
        /\ \A k \in 1 .. Len(text) :
              /\ text[k].kind = ".initvals" => text[k].name \in SectionNames
              /\ text[k].kind = "write" =>
                    text[k].op.type \in OpTypes /\ text[k].op.offset \in Nat

VARIABLES src,      \* the source text
          pc,       \* the phase of main()
          i,        \* the line, operation or record it is at
          section,  \* "text" or "ivals"
          cur,      \* cur_initvals_sect: a position in sects, 0 for none
          sects,    \* infile.ivals
          s,        \* the section assemble_initvals() is at
          ctx,      \* struct ivals_context
          files     \* the initvals file of each section name

vars == <<src, pc, i, section, cur, sects, s, ctx, files>>

parserVars == <<section, cur, sects>>
EmptyCtx == [ivals |-> <<>>, ivals_count |-> 0]
OldFile  == [state |-> "old", size |-> 0, records |-> <<>>]

Init ==
    /\ src \in Sources
    /\ pc = "parse" /\ i = 1 /\ s = 0
    /\ section = "text" /\ cur = 0 /\ sects = <<>>
    /\ ctx = EmptyCtx
    /\ files = [n \in SectionNames |-> OldFile]
-----------------------------------------------------------------------------
\* The parser.
AtLine(kind) == pc = "parse" /\ i <= Len(src) /\ src[i].kind = kind

SwitchToText ==
    /\ AtLine(".text")
    /\ section' = "text" /\ i' = i + 1
    /\ UNCHANGED <<src, pc, cur, sects, s, ctx, files>>

Named(n) == {k \in DOMAIN sects : sects[k].name = n}

\* Seeded fault: the search for an existing section forgets the first.
FaultySwitchToIvals ==
    /\ AtLine(".initvals")
    /\ LET found == Named(src[i].name) \ {1}
       IN  IF found # {}
           THEN cur' = (CHOOSE k \in found : TRUE) /\ UNCHANGED sects
           ELSE /\ sects' = Append(sects, [name |-> src[i].name, ops |-> <<>>])
                /\ cur' = Len(sects')
    /\ section' = "ivals" /\ i' = i + 1
    /\ UNCHANGED <<src, pc, s, ctx, files>>

SwitchToIvals ==
    /\ AtLine(".initvals")
    /\ LET found == Named(src[i].name)
       IN  IF found # {}
           THEN cur' = (CHOOSE k \in found : \A l \in found : l <= k) /\ UNCHANGED sects
           ELSE /\ sects' = Append(sects, [name |-> src[i].name, ops |-> <<>>])
                /\ cur' = Len(sects')
    /\ section' = "ivals" /\ i' = i + 1
    /\ UNCHANGED <<src, pc, s, ctx, files>>

Statement ==
    /\ AtLine("insn") /\ section = "text"
    /\ i' = i + 1
    /\ UNCHANGED <<src, pc, parserVars, s, ctx, files>>

IvalsWrite ==
    /\ AtLine("write") /\ section = "ivals"
    /\ sects' = [sects EXCEPT ![cur].ops = Append(@, src[i].op)]
    /\ i' = i + 1
    /\ UNCHANGED <<src, pc, section, cur, s, ctx, files>>

\* yyerror(): a microcode statement or an initvals write in the wrong section.
SectionError ==
    /\ \/ AtLine("insn") /\ section # "text"
       \/ AtLine("write") /\ section # "ivals"
    /\ pc' = "error"
    /\ UNCHANGED <<src, i, parserVars, s, ctx, files>>

EndOfSource ==
    /\ pc = "parse" /\ i > Len(src)
    /\ pc' = "microcode"
    /\ UNCHANGED <<src, i, parserVars, s, ctx, files>>
-----------------------------------------------------------------------------
\* assemble(): module Assembler.  It ends the program on every error.
AssembleMicrocode ==
    /\ pc = "microcode"
    /\ pc' = "section" /\ s' = 1
    /\ UNCHANGED <<src, i, parserVars, ctx, files>>

MicrocodeError ==
    /\ pc = "microcode"
    /\ pc' = "error"
    /\ UNCHANGED <<src, i, parserVars, s, ctx, files>>
-----------------------------------------------------------------------------
\* assemble_initvals().
\* Seeded fault: the context of the section before is kept.
FaultyBeginSection ==
    /\ pc = "section" /\ s <= Len(sects)
    /\ ctx' = [ctx EXCEPT !.ivals_count = 0]
    /\ pc' = "assemble" /\ i' = 1
    /\ UNCHANGED <<src, parserVars, s, files>>

BeginSection ==
    /\ pc = "section" /\ s <= Len(sects)
    /\ ctx' = EmptyCtx
    /\ pc' = "assemble" /\ i' = 1
    /\ UNCHANGED <<src, parserVars, s, files>>

AssembleOp ==
    /\ pc = "assemble" /\ i <= Len(sects[s].ops)
    /\ LET writes == Writes(sects[s].ops[i])
       IN  ctx' = [ivals       |-> ctx.ivals \o writes,
                   ivals_count |-> ctx.ivals_count + Len(writes)]
    /\ i' = i + 1
    /\ UNCHANGED <<src, pc, parserVars, s, files>>

Path == sects[s].name

\* fopen("w+") empties the file, and the header is written; a failing write
\* leaves what was written before it.
OpenFile ==
    /\ pc = "assemble" /\ i > Len(sects[s].ops)
    /\ files' = [files EXCEPT ![Path] =
                    [state |-> "open", size |-> ctx.ivals_count, records |-> <<>>]]
    /\ pc' = "emit" /\ i' = 1
    /\ UNCHANGED <<src, parserVars, s, ctx>>

OpenFails ==
    /\ pc = "assemble" /\ i > Len(sects[s].ops)
    /\ pc' = "ioerror"
    /\ UNCHANGED <<src, i, parserVars, s, ctx, files>>

TooBig(iv) == iv.offset > OffsetLimit

EmitIval ==
    /\ pc = "emit" /\ i <= Len(ctx.ivals) /\ ~TooBig(ctx.ivals[i])
    /\ files' = [files EXCEPT ![Path].records = Append(@, Raw(ctx.ivals[i]))]
    /\ i' = i + 1
    /\ UNCHANGED <<src, pc, parserVars, s, ctx>>

\* iv_error(): the header and the records before are in the file already.
OffsetError ==
    /\ pc = "emit" /\ i <= Len(ctx.ivals) /\ TooBig(ctx.ivals[i])
    /\ files' = [files EXCEPT ![Path].state = "cut"]
    /\ pc' = "error"
    /\ UNCHANGED <<src, i, parserVars, s, ctx>>

WriteFails ==
    /\ pc = "emit" /\ (i = 1 \/ i <= Len(ctx.ivals))
    /\ files' = [files EXCEPT ![Path].state = "cut"]
    /\ pc' = "ioerror"
    /\ UNCHANGED <<src, i, parserVars, s, ctx>>

NextSection == pc' = "section" /\ s' = s + 1 /\ UNCHANGED <<src, i, parserVars, ctx>>

\* Seeded fault: the loop over the records ends one early.
FaultyCloseFile ==
    /\ pc = "emit" /\ i >= Len(ctx.ivals)
    /\ files' = [files EXCEPT ![Path].state = "closed"]
    /\ NextSection

\* Seeded fault: the file stays open.
ForgottenClose ==
    /\ pc = "emit" /\ i > Len(ctx.ivals)
    /\ UNCHANGED files
    /\ NextSection

CloseFile ==
    /\ pc = "emit" /\ i > Len(ctx.ivals)
    /\ files' = [files EXCEPT ![Path].state = "closed"]
    /\ NextSection

\* fclose() fails to write what is buffered, and nobody looks.
CloseLosesData ==
    /\ pc = "emit" /\ i > Len(ctx.ivals)
    /\ files' = [files EXCEPT ![Path].state = "cut"]
    /\ NextSection

LastSection ==
    /\ pc = "section" /\ s > Len(sects)
    /\ pc' = "done"
    /\ UNCHANGED <<src, i, parserVars, s, ctx, files>>

Ended == pc \in {"done", "error", "ioerror"}

Next ==
    \/ SwitchToText \/ SwitchToIvals \/ Statement \/ IvalsWrite
    \/ SectionError \/ EndOfSource
    \/ AssembleMicrocode \/ MicrocodeError
    \/ BeginSection \/ AssembleOp \/ OpenFile \/ OpenFails
    \/ EmitIval \/ OffsetError \/ WriteFails
    \/ CloseFile \/ CloseLosesData \/ LastSection

Spec == Init /\ [][Next]_vars
-----------------------------------------------------------------------------
\* Types.
TypeOK ==
    /\ pc \in {"parse", "microcode", "section", "assemble", "emit",
               "done", "error", "ioerror"}
    /\ section \in {"text", "ivals"}
    /\ i \in Nat /\ s \in Nat
    /\ cur \in 0 .. Len(sects)
    /\ ctx.ivals_count = Len(ctx.ivals)
    /\ \A n \in DOMAIN files :
          /\ files[n].state \in {"old", "open", "closed", "cut"}
          /\ \A k \in DOMAIN files[n].records : Len(files[n].records[k]) \in {2, 3}
-----------------------------------------------------------------------------
\* Safety.

\* The section line k of the source belongs to: the last switch above it.
SwitchesBefore(k) == {l \in 1 .. k - 1 : src[l].kind \in {".text", ".initvals"}}

BelongsTo(k, n) ==
    /\ SwitchesBefore(k) # {}
    /\ LET l == CHOOSE x \in SwitchesBefore(k) : \A y \in SwitchesBefore(k) : y <= x
       IN  src[l].kind = ".initvals" /\ src[l].name = n

LinesOf(n) == {k \in 1 .. Len(src) : src[k].kind = "write" /\ BelongsTo(k, n)}

OpsOf(n) == [k \in 1 .. Cardinality(LinesOf(n)) |->
                LET line == CHOOSE x \in LinesOf(n) :
                                Cardinality({y \in LinesOf(n) : y <= x}) = k
                IN  src[line].op]

\* However often the source switches between sections and reopens them, every
\* section exists once and holds exactly its own writes, in source order.
SectionsHoldTheirWrites ==
    pc \notin {"parse", "error"} =>
        /\ {sects[k].name : k \in DOMAIN sects} =
             {src[k].name : k \in {l \in DOMAIN src : src[l].kind = ".initvals"}}
        /\ Len(sects) = Cardinality({sects[k].name : k \in DOMAIN sects})
        /\ \A k \in DOMAIN sects : sects[k].ops = OpsOf(sects[k].name)

\* The header of a complete file counts the records that follow it, and a file
\* that is not complete never has more of them than its header says.
HeaderCountsRecords ==
    \A n \in DOMAIN files :
        /\ Len(files[n].records) <= files[n].size
        /\ files[n].state = "closed" => Len(files[n].records) = files[n].size

\* The files are written one after the other: while one is being written those
\* of the sections before it are finished and those behind it untouched, so an
\* error leaves the new files of the sections before next to old ones.
FilesInOrder ==
    \A k \in DOMAIN sects :
        /\ k < s => files[sects[k].name].state \in {"closed", "cut"}
        /\ k > s => files[sects[k].name] = OldFile
        /\ k = s /\ pc = "emit" => files[sects[k].name].state = "open"

\* Accesses to the shared memory that initvals.c:125 and 148 would rather assert
\* not to happen, and 32-bit ones to the upper half of a cell.
Misaligned(op) ==
    \/ op.type = "shm32" /\ IsUnaligned(op.routing, op.offset)
    \/ op.type = "shm16" /\ IsShared(op.routing) /\ op.offset % 2 = 1

\* Writes to a window's registers that go past its own operations.
Bypasses(op) ==
    \/ op.type \in {"mmio16", "mmio32"} /\ op.offset \in WindowRegisters
    \/ op.type = "mmio32" /\ op.offset + 2 \in WindowRegisters

MeansItsSection(k) ==
    files[sects[k].name].state = "closed" =>
        Loaded(files[sects[k].name].records) = MemoryMeant(sects[k].ops)

\* Written to a device, a section's file leaves every memory and register as
\* the section's operations say, in order: no operation's control register
\* writes disturb another operation, whatever the offsets and routings are.
FilesMeanTheirSections ==
    \A k \in DOMAIN sects :
        (\A m \in DOMAIN sects[k].ops :
              ~Misaligned(sects[k].ops[m]) /\ ~Bypasses(sects[k].ops[m])) => MeansItsSection(k)

\* The same for 32-bit writes to the upper half of a shared-memory cell, which
\* test.asm:202 calls "Write 0x12345678 to SHM routing 0x0001, register 0x0002".
UnalignedWritesAsMeant == \A k \in DOMAIN sects : MeansItsSection(k)

Body(n) == FlattenSeq(files[n].records)

\* What b43-ivaldump prints of a complete file assembles to the same records
\* again: it never takes a 16-bit record for a 32-bit one or loses its place.
DumpsReturn ==
    \A n \in DOMAIN files :
        files[n].state = "closed" =>
            LET ops == Dump(Body(n))
            IN  /\ \A k \in DOMAIN ops : ops[k] # IndexError
                /\ [k \in DOMAIN ops |-> Raw(Writes(ops[k])[1])] = files[n].records
=============================================================================
