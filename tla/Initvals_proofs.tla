-------------------------- MODULE Initvals_proofs --------------------------
(***************************************************************************)
(* Proofs about Initvals: for every set of source texts, a finished file   *)
(* has as many records as its header says, the files are written one after *)
(* the other, each section has exactly its own writes in source order, a   *)
(* dump of a finished file assembles to its records again, and the file    *)
(* leaves a device as its section's operations say.                        *)
(***************************************************************************)
EXTENDS Initvals, SequenceLemmas

SectionsWellFormed ==
    /\ IsSequence(sects)
    /\ \A k \in DOMAIN sects :
          /\ sects[k] = [name |-> sects[k].name, ops |-> sects[k].ops]
          /\ sects[k].name \in SectionNames
          /\ IsSequence(sects[k].ops)
          /\ \A m \in DOMAIN sects[k].ops : sects[k].ops[m].type \in OpTypes

SectionsDistinct ==
    \A k, l \in DOMAIN sects : sects[k].name = sects[l].name => k = l

FilesWellFormed ==
    /\ DOMAIN files = SectionNames
    /\ files = [n \in SectionNames |-> files[n]]
    /\ \A n \in SectionNames :
          /\ files[n] = [state |-> files[n].state, size |-> files[n].size,
                         records |-> files[n].records]
          /\ files[n].size \in Nat
          /\ IsSequence(files[n].records)

ContextWellFormed ==
    /\ ctx = [ivals |-> ctx.ivals, ivals_count |-> ctx.ivals_count]
    /\ IsSequence(ctx.ivals)

\* Where the program is: no file is touched before the first section begins,
\* and while a file is written it has the records before i.
Progress ==
    /\ pc \in {"parse", "microcode"} =>
          s = 0 /\ \A n \in SectionNames : files[n] = OldFile
    /\ pc \in {"assemble", "emit"} => s \in 1 .. Len(sects)
    /\ pc = "section" => s >= 1
    /\ pc = "emit" =>
          /\ i <= Len(ctx.ivals) + 1
          /\ files[Path].size = ctx.ivals_count
          /\ Len(files[Path].records) = i - 1

IInv ==
    /\ src \in Sources /\ i >= 1
    /\ SectionsWellFormed /\ SectionsDistinct /\ FilesWellFormed /\ ContextWellFormed
    /\ TypeOK /\ HeaderCountsRecords /\ FilesInOrder /\ Progress

LEMMA WritesFacts ==
    ASSUME NEW op, op.type \in OpTypes
    PROVE  IsSequence(Writes(op)) /\ Len(Writes(op)) \in Nat
<1>1. IsSequence(Writes(op))
  <2>1. CASE op.type \in {"mmio16", "mmio32"}
    BY <2>1, TupleFacts DEF Writes
  <2>2. CASE op.type \in {"phy", "radio", "tram"}
    <3>1. CASE op.type = "phy"
      <4>1. Writes(op) = PhyWrites(op.offset, op.value)
        BY <3>1 DEF Writes
      <4>2. PICK a, b : Writes(op) = <<a, b>>
        BY <4>1 DEF PhyWrites
      <4> QED BY <4>2, TupleFacts
    <3>2. CASE op.type = "radio"
      <4>1. Writes(op) = RadioWrites(op.offset, op.value)
        BY <3>2 DEF Writes
      <4>2. PICK a, b : Writes(op) = <<a, b>>
        BY <4>1 DEF RadioWrites
      <4> QED BY <4>2, TupleFacts
    <3>3. CASE op.type = "tram"
      <4>1. Writes(op) = TramWrites(op.offset, op.value)
        BY <3>3 DEF Writes
      <4>2. PICK a, b : Writes(op) = <<a, b>>
        BY <4>1 DEF TramWrites
      <4> QED BY <4>2, TupleFacts
    <3> QED BY <2>2, <3>1, <3>2, <3>3
  <2>3. CASE op.type = "shm16"
    BY <2>3, TupleFacts, ZenonT(60) DEF Writes, Shm16Writes
  <2>4. CASE op.type = "shm32"
    <3>1. Writes(op) = Shm32Writes(op.routing, op.offset, op.value)
      BY <2>4 DEF Writes
    <3>2. CASE IsUnaligned(op.routing, op.offset)
      <4> DEFINE a == ControlWord(op.routing, op.offset \div 4)
                 b == Iv(\h166, 16, <<0, op.value[1]>>)
                 c == ControlWord(op.routing, op.offset \div 4 + 1)
                 d == Iv(\h164, 16, <<0, op.value[2]>>)
      <4>1. Writes(op) = <<a, b, c, d>>
        BY <3>1, <3>2 DEF Shm32Writes
      <4> HIDE DEF a, b, c, d
      <4> QED BY <4>1, TupleFacts
    <3>3. CASE ~IsUnaligned(op.routing, op.offset)
      <4> DEFINE a == ControlWord(op.routing, CellOf(op.routing, op.offset))
                 b == Iv(\h164, 32, op.value)
      <4>1. Writes(op) = <<a, b>>
        BY <3>1, <3>3 DEF Shm32Writes
      <4> HIDE DEF a, b
      <4> QED BY <4>1, TupleFacts
    <3> QED BY <3>2, <3>3
  <2> QED BY <2>1, <2>2, <2>3, <2>4 DEF OpTypes
<1> QED BY <1>1, SequenceFacts

LEMMA RawFacts ==
    ASSUME NEW iv
    PROVE  Len(Raw(iv)) \in {2, 3}
BY DEF Raw

\* A file that is not the one being written stays as it is.
LEMMA FileExcept ==
    ASSUME FilesWellFormed, NEW p \in SectionNames, NEW f
    PROVE  /\ [files EXCEPT ![p] = f][p] = f
           /\ \A n \in SectionNames \ {p} : [files EXCEPT ![p] = f][n] = files[n]
           /\ DOMAIN [files EXCEPT ![p] = f] = SectionNames
           /\ [files EXCEPT ![p] = f] =
                [n \in SectionNames |-> IF n = p THEN f ELSE files[n]]
BY DEF FilesWellFormed

THEOREM Initially == Init => IInv
<1> SUFFICES ASSUME Init PROVE IInv
  OBVIOUS
<1>1. SectionsWellFormed /\ SectionsDistinct /\ Len(sects) = 0 /\ DOMAIN sects = {}
  BY EmptyFacts DEF Init, SectionsWellFormed, SectionsDistinct
<1>2. FilesWellFormed /\ \A n \in SectionNames : files[n] = OldFile
  BY EmptyFacts DEF Init, FilesWellFormed, OldFile
<1>3. ContextWellFormed /\ ctx.ivals_count = Len(ctx.ivals)
  BY EmptyFacts DEF Init, ContextWellFormed, EmptyCtx
<1>4. TypeOK
  BY <1>1, <1>2, <1>3, EmptyFacts DEF Init, TypeOK, OldFile, FilesWellFormed
<1>5. HeaderCountsRecords /\ FilesInOrder /\ Progress
  BY <1>1, <1>2, EmptyFacts DEF Init, HeaderCountsRecords, FilesInOrder, Progress, OldFile,
     FilesWellFormed
<1> QED BY <1>1, <1>2, <1>3, <1>4, <1>5 DEF Init, IInv
-----------------------------------------------------------------------------
\* Steps that change neither a section, nor the context, nor a file.
LEMMA QuietStep ==
    ASSUME IInv, UNCHANGED <<src, cur, sects, ctx, files>>,
           \/ SwitchToText \/ Statement \/ SectionError \/ EndOfSource
           \/ AssembleMicrocode \/ MicrocodeError \/ OpenFails \/ LastSection
    PROVE  IInv'
<1>1. i' >= 1 /\ i' \in Nat /\ s' \in Nat
  BY DEF IInv, TypeOK, SwitchToText, Statement, SectionError, EndOfSource,
     AssembleMicrocode, MicrocodeError, OpenFails, LastSection, parserVars
<1>2. /\ src' \in Sources /\ SectionsWellFormed' /\ SectionsDistinct'
      /\ FilesWellFormed' /\ ContextWellFormed' /\ HeaderCountsRecords'
  BY DEF IInv, SectionsWellFormed, SectionsDistinct, FilesWellFormed,
     ContextWellFormed, HeaderCountsRecords
<1>3. TypeOK'
  <2>1. /\ pc' \in {"parse", "microcode", "section", "assemble", "emit",
                    "done", "error", "ioerror"}
        /\ section' \in {"text", "ivals"}
    BY DEF IInv, TypeOK, SwitchToText, Statement, SectionError, EndOfSource,
       AssembleMicrocode, MicrocodeError, OpenFails, LastSection, parserVars
  <2> QED BY <2>1, <1>1 DEF IInv, TypeOK
<1>4. Progress'
  <2>1. pc' \notin {"assemble", "emit"}
    BY DEF SwitchToText, Statement, SectionError, EndOfSource, AtLine,
       AssembleMicrocode, MicrocodeError, OpenFails, LastSection
  <2>2. pc' \in {"parse", "microcode"} => pc = "parse" /\ s' = s
    BY DEF SwitchToText, Statement, SectionError, EndOfSource, AtLine,
       AssembleMicrocode, MicrocodeError, OpenFails, LastSection
  <2>3. pc' = "section" => s' = 1
    BY DEF SwitchToText, Statement, SectionError, EndOfSource, AtLine,
       AssembleMicrocode, MicrocodeError, OpenFails, LastSection
  <2> QED BY <2>1, <2>2, <2>3 DEF IInv, Progress
<1>5. FilesInOrder'
  <2>1. CASE AssembleMicrocode
    <3>1. \A k \in DOMAIN sects : k \in Nat /\ k >= 1 /\ sects[k].name \in SectionNames
      BY SequenceFacts DEF IInv, SectionsWellFormed
    <3> QED BY <2>1, <3>1 DEF AssembleMicrocode, IInv, Progress, FilesInOrder, parserVars
  <2>2. CASE ~AssembleMicrocode
    BY <2>2 DEF IInv, FilesInOrder, SwitchToText, Statement, SectionError, EndOfSource,
       MicrocodeError, OpenFails, LastSection, parserVars
  <2> QED BY <2>1, <2>2
<1> QED BY <1>1, <1>2, <1>3, <1>4, <1>5 DEF IInv

LEMMA SwitchStep == ASSUME IInv, SwitchToIvals PROVE IInv'
<1> DEFINE new == [name |-> src[i].name, ops |-> <<>>]
<1>1. pc = "parse" /\ pc' = "parse" /\ s = 0 /\ s' = 0 /\ i \in 1 .. Len(src)
      /\ UNCHANGED <<src, ctx, files>> /\ i' = i + 1 /\ section' = "ivals"
  BY DEF SwitchToIvals, AtLine, IInv, Progress, TypeOK
<1>2. src[i].name \in SectionNames
  BY <1>1, SourcesAssumption DEF SwitchToIvals, AtLine, IInv
<1>3. \/ UNCHANGED sects /\ cur' \in DOMAIN sects
      \/ /\ sects' = Append(sects, new) /\ cur' = Len(sects')
         /\ \A k \in DOMAIN sects : sects[k].name # src[i].name
  <2>1. CASE Named(src[i].name) = {}
    BY <2>1 DEF SwitchToIvals, Named
  <2>2. CASE Named(src[i].name) # {}
    <3>1. PICK k \in DOMAIN sects : k \in Named(src[i].name)
      BY <2>2 DEF Named
    <3>2. \A l \in Named(src[i].name) : l = k
      BY <3>1 DEF Named, IInv, SectionsDistinct
    <3>3. k <= k
      BY <3>1, SequenceFacts DEF IInv, SectionsWellFormed
    <3>4. (CHOOSE m \in Named(src[i].name) : \A l \in Named(src[i].name) : l <= m) = k
      BY <3>1, <3>2, <3>3
    <3>5. UNCHANGED sects /\ cur' = k
      BY <2>2, <3>4 DEF SwitchToIvals
    <3> QED BY <3>1, <3>5
  <2> QED BY <2>1, <2>2
<1>4. Len(sects) \in Nat /\ DOMAIN sects = 1 .. Len(sects)
  BY SequenceFacts DEF IInv, SectionsWellFormed
<1>5. SectionsWellFormed' /\ SectionsDistinct' /\ cur' \in 0 .. Len(sects')
  <2>1. CASE UNCHANGED sects /\ cur' \in DOMAIN sects
    BY <2>1, <1>4 DEF IInv, SectionsWellFormed, SectionsDistinct
  <2>2. CASE /\ sects' = Append(sects, new) /\ cur' = Len(sects')
             /\ \A k \in DOMAIN sects : sects[k].name # src[i].name
    <3>1. /\ IsSequence(sects') /\ Len(sects') = Len(sects) + 1
          /\ DOMAIN sects' = 1 .. Len(sects) + 1
          /\ \A k \in 1 .. Len(sects) : sects'[k] = sects[k]
          /\ sects'[Len(sects) + 1] = new
      BY <2>2, AppendFacts DEF IInv, SectionsWellFormed
    <3>2. \A k \in DOMAIN sects' : k \in DOMAIN sects \/ k = Len(sects) + 1
      BY <3>1, <1>4
    <3>3. SectionsWellFormed'
      BY <3>1, <3>2, <1>2, <1>4, EmptyFacts DEF IInv, SectionsWellFormed
    <3>4. SectionsDistinct'
      BY <3>1, <3>2, <1>4, <2>2 DEF IInv, SectionsDistinct
    <3> QED BY <3>1, <3>3, <3>4, <2>2, <1>4
  <2> QED BY <1>3, <2>1, <2>2
<1>6. FilesWellFormed' /\ ContextWellFormed' /\ HeaderCountsRecords' /\ Progress'
  BY <1>1 DEF IInv, FilesWellFormed, ContextWellFormed, HeaderCountsRecords, Progress
<1>7. TypeOK'
  BY <1>1, <1>5 DEF IInv, TypeOK
<1>8. FilesInOrder'
  <2>1. \A k \in DOMAIN sects' : k \in Nat /\ k >= 1 /\ sects'[k].name \in SectionNames
    BY <1>5, SequenceFacts DEF SectionsWellFormed
  <2> QED BY <2>1, <1>1 DEF IInv, FilesInOrder, Progress
<1> QED BY <1>1, <1>5, <1>6, <1>7, <1>8 DEF IInv, TypeOK

LEMMA WriteStep == ASSUME IInv, IvalsWrite PROVE IInv'
<1>1. pc = "parse" /\ pc' = "parse" /\ s = 0 /\ s' = 0 /\ i \in 1 .. Len(src)
      /\ UNCHANGED <<src, section, cur, ctx, files>> /\ i' = i + 1
  BY DEF IvalsWrite, AtLine, IInv, Progress, TypeOK
<1>2. src[i].op.type \in OpTypes
  BY <1>1, SourcesAssumption DEF IvalsWrite, AtLine, IInv
<1>3. /\ IsSequence(sects) /\ Len(sects) \in Nat /\ DOMAIN sects = 1 .. Len(sects)
  BY SequenceFacts DEF IInv, SectionsWellFormed
<1>4. CASE cur \notin DOMAIN sects
  <2>1. UNCHANGED sects
    BY <1>3, <1>4 DEF IvalsWrite, IsSequence
  <2>2. SectionsWellFormed' /\ SectionsDistinct' /\ FilesInOrder'
    BY <1>1, <2>1 DEF IInv, SectionsWellFormed, SectionsDistinct, FilesInOrder
  <2>3. FilesWellFormed' /\ ContextWellFormed' /\ HeaderCountsRecords' /\ Progress' /\ TypeOK'
    BY <1>1, <2>1 DEF IInv, FilesWellFormed, ContextWellFormed, HeaderCountsRecords,
       Progress, TypeOK
  <2> QED BY <1>1, <2>2, <2>3 DEF IInv, TypeOK
<1>5. CASE cur \in DOMAIN sects
  <2> DEFINE old == sects[cur]
             new == [name |-> old.name, ops |-> Append(old.ops, src[i].op)]
  <2>1. sects' = [sects EXCEPT ![cur] = new]
    <3>1. old = [name |-> old.name, ops |-> old.ops]
      BY <1>5 DEF IInv, SectionsWellFormed
    <3>2. [old EXCEPT !.ops = Append(@, src[i].op)] = new
      BY <3>1
    <3>3. sects' = [sects EXCEPT ![cur] = [old EXCEPT !.ops = Append(@, src[i].op)]]
      BY DEF IvalsWrite
    <3> QED BY <3>2, <3>3
  <2>2. IsSequence(old.ops) /\ old.name \in SectionNames
        /\ \A m \in DOMAIN old.ops : old.ops[m].type \in OpTypes
    BY <1>5 DEF IInv, SectionsWellFormed
  <2>3. IsSequence(new.ops) /\ \A m \in DOMAIN new.ops : new.ops[m].type \in OpTypes
    <3>1. /\ IsSequence(new.ops) /\ DOMAIN new.ops = 1 .. Len(old.ops) + 1
          /\ \A m \in 1 .. Len(old.ops) : new.ops[m] = old.ops[m]
          /\ new.ops[Len(old.ops) + 1] = src[i].op
      BY <2>2, AppendFacts
    <3>2. Len(old.ops) \in Nat /\ DOMAIN old.ops = 1 .. Len(old.ops)
      BY <2>2, SequenceFacts
    <3>3. \A m \in DOMAIN new.ops : m \in DOMAIN old.ops \/ m = Len(old.ops) + 1
      BY <3>1, <3>2
    <3> HIDE DEF old, new
    <3> QED BY <3>1, <3>2, <3>3, <2>2, <1>2
  <2>4. IsSequence(sects') /\ Len(sects') = Len(sects) /\ DOMAIN sects' = DOMAIN sects
    BY <2>1, <1>3, <1>5, ExceptFacts, SequenceFacts
  <2>5. \A k \in DOMAIN sects : sects'[k] = IF k = cur THEN new ELSE sects[k]
    BY <2>1
  <2>6. \A k \in DOMAIN sects : sects'[k].name = sects[k].name
    BY <2>5
  <2>7. SectionsWellFormed'
    <3>1. SectionsWellFormed
      BY DEF IInv
    <3>2. new = [name |-> new.name, ops |-> new.ops] /\ new.name \in SectionNames
      BY <2>2
    <3> HIDE DEF old, new
    <3> QED BY <2>3, <2>4, <2>5, <3>1, <3>2 DEF SectionsWellFormed
  <2>8. SectionsDistinct'
    BY <2>4, <2>6 DEF IInv, SectionsDistinct
  <2>9. FilesWellFormed' /\ ContextWellFormed' /\ HeaderCountsRecords' /\ Progress'
    BY <1>1 DEF IInv, FilesWellFormed, ContextWellFormed, HeaderCountsRecords, Progress
  <2>10. FilesInOrder'
    BY <1>1, <2>4, <2>6 DEF IInv, FilesInOrder
  <2>11. TypeOK'
    BY <1>1, <2>4 DEF IInv, TypeOK
  <2> QED BY <1>1, <2>7, <2>8, <2>9, <2>10, <2>11 DEF IInv, TypeOK
<1> QED BY <1>4, <1>5
-----------------------------------------------------------------------------
\* assemble_initvals().
LEMMA BeginStep == ASSUME IInv, BeginSection PROVE IInv'
<1>1. pc = "section" /\ pc' = "assemble" /\ i' = 1 /\ s \in 1 .. Len(sects)
      /\ UNCHANGED <<src, section, cur, sects, s, files>> /\ ctx' = EmptyCtx
  BY DEF BeginSection, parserVars, IInv, Progress, TypeOK
<1>2. SectionsWellFormed' /\ SectionsDistinct' /\ FilesWellFormed' /\ HeaderCountsRecords'
      /\ FilesInOrder' /\ Progress'
  BY <1>1 DEF IInv, SectionsWellFormed, SectionsDistinct, FilesWellFormed,
     HeaderCountsRecords, FilesInOrder, Progress
<1>3. ContextWellFormed' /\ ctx'.ivals_count = Len(ctx'.ivals)
  BY <1>1, EmptyFacts DEF ContextWellFormed, EmptyCtx
<1>4. TypeOK'
  BY <1>1, <1>3 DEF IInv, TypeOK
<1> QED BY <1>1, <1>2, <1>3, <1>4 DEF IInv

LEMMA AssembleStep == ASSUME IInv, AssembleOp PROVE IInv'
<1> DEFINE op == sects[s].ops[i]
<1>1. pc = "assemble" /\ pc' = "assemble" /\ i' = i + 1 /\ s \in 1 .. Len(sects)
      /\ i \in 1 .. Len(sects[s].ops) /\ UNCHANGED <<src, section, cur, sects, s, files>>
  BY DEF AssembleOp, parserVars, IInv, Progress, TypeOK
<1>2. op.type \in OpTypes
  BY <1>1, SequenceFacts DEF IInv, SectionsWellFormed
<1>3. SectionsWellFormed' /\ SectionsDistinct' /\ FilesWellFormed' /\ HeaderCountsRecords'
      /\ FilesInOrder' /\ Progress'
  BY <1>1 DEF IInv, SectionsWellFormed, SectionsDistinct, FilesWellFormed,
     HeaderCountsRecords, FilesInOrder, Progress
<1>4. ContextWellFormed' /\ ctx'.ivals_count = Len(ctx'.ivals)
  <2>1. IsSequence(Writes(op)) /\ IsSequence(ctx.ivals)
    BY <1>2, WritesFacts DEF IInv, ContextWellFormed
  <2>2. ctx' = [ivals |-> ctx.ivals \o Writes(op), ivals_count |-> ctx.ivals_count + Len(Writes(op))]
    BY DEF AssembleOp
  <2>3. IsSequence(ctx.ivals \o Writes(op))
        /\ Len(ctx.ivals \o Writes(op)) = Len(ctx.ivals) + Len(Writes(op))
    BY <2>1, ConcatFacts
  <2> QED BY <2>2, <2>3 DEF IInv, TypeOK, ContextWellFormed
<1>5. TypeOK'
  BY <1>1, <1>4 DEF IInv, TypeOK
<1> QED BY <1>1, <1>3, <1>4, <1>5 DEF IInv, TypeOK

LEMMA OpenStep == ASSUME IInv, OpenFile PROVE IInv'
<1> DEFINE p == sects[s].name
           f == [state |-> "open", size |-> ctx.ivals_count, records |-> <<>>]
<1>1. pc = "assemble" /\ pc' = "emit" /\ i' = 1 /\ s \in 1 .. Len(sects)
      /\ UNCHANGED <<src, section, cur, sects, s, ctx>>
  BY DEF OpenFile, parserVars, IInv, Progress, TypeOK
<1>2. p \in SectionNames /\ s \in DOMAIN sects
  BY <1>1, SequenceFacts DEF IInv, SectionsWellFormed
<1>3. /\ files'[p] = f /\ DOMAIN files' = SectionNames
      /\ \A n \in SectionNames \ {p} : files'[n] = files[n]
      /\ files' = [n \in SectionNames |-> IF n = p THEN f ELSE files[n]]
  BY <1>2, FileExcept DEF OpenFile, Path, IInv
<1>4. ctx.ivals_count = Len(ctx.ivals) /\ ctx.ivals_count \in Nat
  BY SequenceFacts DEF IInv, TypeOK, ContextWellFormed
<1>5. SectionsWellFormed' /\ SectionsDistinct' /\ ContextWellFormed'
  BY <1>1 DEF IInv, SectionsWellFormed, SectionsDistinct, ContextWellFormed
<1>6. FilesWellFormed'
  BY <1>3, <1>4, EmptyFacts DEF IInv, FilesWellFormed
<1>7. TypeOK'
  BY <1>1, <1>3, EmptyFacts DEF IInv, TypeOK, FilesWellFormed
<1>8. HeaderCountsRecords'
  BY <1>3, <1>4, EmptyFacts DEF IInv, HeaderCountsRecords, FilesWellFormed
<1>9. FilesInOrder'
  <2>1. \A k \in DOMAIN sects : k # s => sects[k].name \in SectionNames \ {p}
    BY <1>2 DEF IInv, SectionsDistinct, SectionsWellFormed
  <2> QED BY <1>1, <1>2, <1>3, <2>1, SequenceFacts DEF IInv, FilesInOrder, SectionsWellFormed
<1>10. Progress'
  BY <1>1, <1>3, <1>4, EmptyFacts DEF IInv, Progress, Path
<1> QED BY <1>1, <1>5, <1>6, <1>7, <1>8, <1>9, <1>10 DEF IInv

\* What the steps that write to or finish the open file have in common.
LEMMA OpenFileFacts ==
    ASSUME IInv, pc = "emit"
    PROVE  /\ s \in 1 .. Len(sects) /\ s \in DOMAIN sects /\ Path \in SectionNames
           /\ files[Path] = [state |-> "open", size |-> ctx.ivals_count,
                             records |-> files[Path].records]
           /\ Len(files[Path].records) = i - 1 /\ IsSequence(files[Path].records)
           /\ ctx.ivals_count = Len(ctx.ivals) /\ Len(ctx.ivals) \in Nat
           /\ IsSequence(ctx.ivals) /\ i \in 1 .. Len(ctx.ivals) + 1
           /\ \A k \in DOMAIN sects :
                 /\ k \in Nat
                 /\ k # s => sects[k].name \in SectionNames \ {Path}
<1>1. s \in 1 .. Len(sects) /\ s \in DOMAIN sects /\ Path \in SectionNames
  BY SequenceFacts DEF IInv, Progress, SectionsWellFormed, Path
<1>2. files[Path].state = "open" /\ files[Path].size = ctx.ivals_count
  BY <1>1 DEF IInv, FilesInOrder, Progress, Path
<1>3. files[Path] = [state |-> "open", size |-> ctx.ivals_count,
                     records |-> files[Path].records]
  BY <1>1, <1>2 DEF IInv, FilesWellFormed
<1>4. Len(files[Path].records) = i - 1 /\ IsSequence(files[Path].records)
  BY <1>1 DEF IInv, Progress, FilesWellFormed
<1>5. ctx.ivals_count = Len(ctx.ivals) /\ Len(ctx.ivals) \in Nat /\ IsSequence(ctx.ivals)
  BY SequenceFacts DEF IInv, TypeOK, ContextWellFormed
<1>6. i \in 1 .. Len(ctx.ivals) + 1
  BY <1>5 DEF IInv, Progress, TypeOK
<1>7. \A k \in DOMAIN sects : k \in Nat /\ (k # s => sects[k].name \in SectionNames \ {Path})
  BY <1>1, SequenceFacts DEF IInv, SectionsDistinct, SectionsWellFormed, Path
<1> QED BY <1>1, <1>3, <1>4, <1>5, <1>6, <1>7

LEMMA EmitStep == ASSUME IInv, EmitIval PROVE IInv'
<1> DEFINE r == Raw(ctx.ivals[i])
           old == files[Path]
           f == [state |-> "open", size |-> old.size, records |-> Append(old.records, r)]
<1>1. pc = "emit" /\ pc' = "emit" /\ i' = i + 1 /\ i <= Len(ctx.ivals)
      /\ UNCHANGED <<src, section, cur, sects, s, ctx>>
  BY DEF EmitIval, parserVars
<1>2. /\ s \in 1 .. Len(sects) /\ Path \in SectionNames /\ i \in 1 .. Len(ctx.ivals) + 1
      /\ old = [state |-> "open", size |-> ctx.ivals_count, records |-> old.records]
      /\ Len(old.records) = i - 1 /\ IsSequence(old.records)
      /\ ctx.ivals_count = Len(ctx.ivals) /\ Len(ctx.ivals) \in Nat
      /\ \A k \in DOMAIN sects : k \in Nat /\ (k # s => sects[k].name \in SectionNames \ {Path})
  BY <1>1, OpenFileFacts
<1>3. files' = [files EXCEPT ![Path] = f]
  <2>1. files' = [files EXCEPT ![Path] = [old EXCEPT !.records = Append(@, r)]]
    BY DEF EmitIval
  <2> DEFINE recs == Append(old.records, r)
  <2>2. [old EXCEPT !.records = recs] = [state |-> "open", size |-> old.size, records |-> recs]
    <3> HIDE DEF recs
    <3> QED BY <1>2
  <2> QED BY <2>1, <2>2
<1>4. /\ files'[Path] = f /\ DOMAIN files' = SectionNames
      /\ \A n \in SectionNames \ {Path} : files'[n] = files[n]
      /\ files' = [n \in SectionNames |-> IF n = Path THEN f ELSE files[n]]
  BY <1>2, <1>3, FileExcept DEF IInv
<1>5. /\ IsSequence(f.records) /\ Len(f.records) = i
      /\ \A k \in DOMAIN f.records : Len(f.records[k]) \in {2, 3}
  <2>1. /\ IsSequence(f.records) /\ Len(f.records) = (i - 1) + 1
        /\ DOMAIN f.records = 1 .. (i - 1) + 1
        /\ \A k \in 1 .. i - 1 : f.records[k] = old.records[k]
        /\ f.records[(i - 1) + 1] = r
    BY <1>2, AppendFacts
  <2>2. \A k \in 1 .. i - 1 : Len(old.records[k]) \in {2, 3}
    <3>1. DOMAIN old.records = 1 .. i - 1
      BY <1>2, SequenceFacts
    <3>2. Path \in DOMAIN files
      BY <1>2 DEF IInv, FilesWellFormed
    <3> QED BY <3>1, <3>2 DEF IInv, TypeOK
  <2>3. Len(r) \in {2, 3}
    BY RawFacts
  <2> HIDE DEF f, r, old
  <2>4. i \in Nat
    BY DEF IInv, TypeOK
  <2>5. \A k \in DOMAIN f.records : k \in 1 .. i - 1 \/ k = (i - 1) + 1
    BY <2>1, <2>4
  <2> QED BY <2>1, <2>2, <2>3, <2>4, <2>5
<1>6. SectionsWellFormed' /\ SectionsDistinct' /\ ContextWellFormed'
  BY <1>1 DEF IInv, SectionsWellFormed, SectionsDistinct, ContextWellFormed
<1>7. f = [state |-> f.state, size |-> f.size, records |-> f.records]
      /\ f.size = Len(ctx.ivals) /\ f.state = "open" /\ Path' = Path /\ f.size \in Nat
  BY <1>1, <1>2 DEF Path
<1> HIDE DEF f
<1>8. FilesWellFormed'
  BY <1>4, <1>5, <1>7 DEF IInv, FilesWellFormed
<1>9. TypeOK'
  BY <1>1, <1>4, <1>5, <1>7 DEF IInv, TypeOK, FilesWellFormed
<1>10. HeaderCountsRecords'
  BY <1>1, <1>4, <1>5, <1>7 DEF IInv, HeaderCountsRecords, FilesWellFormed
<1>11. FilesInOrder'
  BY <1>1, <1>2, <1>4, <1>7 DEF IInv, FilesInOrder, Path
<1>12. Progress'
  BY <1>1, <1>2, <1>4, <1>5, <1>7 DEF IInv, Progress
<1> QED BY <1>1, <1>2, <1>6, <1>8, <1>9, <1>10, <1>11, <1>12 DEF IInv

\* Steps that end the writing of a file, in success or not.
LEMMA EndStep ==
    ASSUME IInv, OffsetError \/ WriteFails \/ CloseFile \/ CloseLosesData
    PROVE  IInv'
<1> DEFINE old == files[Path]
<1>1. /\ pc = "emit" /\ UNCHANGED <<src, i, section, cur, sects, ctx>>
      /\ \/ pc' \in {"error", "ioerror"} /\ s' = s
         \/ pc' = "section" /\ s' = s + 1
  BY DEF OffsetError, WriteFails, CloseFile, CloseLosesData, NextSection, parserVars
<1>2. /\ s \in 1 .. Len(sects) /\ Path \in SectionNames /\ i \in 1 .. Len(ctx.ivals) + 1
      /\ old = [state |-> "open", size |-> ctx.ivals_count, records |-> old.records]
      /\ Len(old.records) = i - 1 /\ IsSequence(old.records)
      /\ ctx.ivals_count = Len(ctx.ivals) /\ Len(ctx.ivals) \in Nat
      /\ \A k \in DOMAIN sects : k \in Nat /\ (k # s => sects[k].name \in SectionNames \ {Path})
  BY <1>1, OpenFileFacts
<1>3. PICK st \in {"cut", "closed"} :
        /\ files' = [files EXCEPT ![Path].state = st]
        /\ st = "closed" => i > Len(ctx.ivals)
  BY DEF OffsetError, WriteFails, CloseFile, CloseLosesData
<1> DEFINE f == [state |-> st, size |-> old.size, records |-> old.records]
<1>4. files' = [files EXCEPT ![Path] = f]
  <2>1. files' = [files EXCEPT ![Path] = [old EXCEPT !.state = st]]
    BY <1>3
  <2>2. [old EXCEPT !.state = st] = f
    BY <1>2
  <2> QED BY <2>1, <2>2
<1>5. /\ files'[Path] = f /\ DOMAIN files' = SectionNames
      /\ \A n \in SectionNames \ {Path} : files'[n] = files[n]
      /\ files' = [n \in SectionNames |-> IF n = Path THEN f ELSE files[n]]
  BY <1>2, <1>4, FileExcept, ZenonT(60) DEF IInv
<1>6. SectionsWellFormed' /\ SectionsDistinct' /\ ContextWellFormed'
  BY <1>1 DEF IInv, SectionsWellFormed, SectionsDistinct, ContextWellFormed
<1>7. /\ f = [state |-> f.state, size |-> f.size, records |-> f.records]
      /\ f.size = Len(ctx.ivals) /\ f.size \in Nat /\ f.state = st
      /\ Len(f.records) = i - 1 /\ IsSequence(f.records) /\ f.records = old.records
  BY <1>2
<1>8. \A k \in DOMAIN old.records : Len(old.records[k]) \in {2, 3}
  <2>1. Path \in DOMAIN files
    BY <1>2 DEF IInv, FilesWellFormed
  <2> QED BY <2>1 DEF IInv, TypeOK
<1> HIDE DEF f, old
<1>9. FilesWellFormed'
  BY <1>5, <1>7 DEF IInv, FilesWellFormed
<1>10. TypeOK'
  BY <1>1, <1>5, <1>7, <1>8 DEF IInv, TypeOK, FilesWellFormed
<1>11. HeaderCountsRecords'
  <2>1. Len(f.records) <= f.size /\ (f.state = "closed" => Len(f.records) = f.size)
    BY <1>2, <1>3, <1>7
  <2>2. \A n \in SectionNames :
           /\ Len(files[n].records) <= files[n].size
           /\ files[n].state = "closed" => Len(files[n].records) = files[n].size
    BY DEF IInv, HeaderCountsRecords, FilesWellFormed
  <2> QED BY <2>1, <2>2, <1>5 DEF HeaderCountsRecords
<1>12. FilesInOrder'
  <2>1. \A k \in DOMAIN sects : k # s => files'[sects[k].name] = files[sects[k].name]
    BY <1>2, <1>5
  <2>2. files'[sects[s].name].state \in {"cut", "closed"}
    BY <1>5, <1>7 DEF Path
  <2>3. \A k \in DOMAIN sects : k < s => files[sects[k].name].state \in {"closed", "cut"}
    BY DEF IInv, FilesInOrder
  <2>4. \A k \in DOMAIN sects : k > s => files[sects[k].name] = OldFile
    BY DEF IInv, FilesInOrder
  <2>5. \A k \in DOMAIN sects' : k < s' => files'[sects'[k].name].state \in {"closed", "cut"}
    BY <1>1, <1>2, <2>1, <2>2, <2>3
  <2>6. \A k \in DOMAIN sects' : k > s' => files'[sects'[k].name] = OldFile
    BY <1>1, <1>2, <2>1, <2>4
  <2>7. pc' # "emit"
    BY <1>1
  <2>8. OldFile' = OldFile
    BY DEF OldFile
  <2> QED BY <2>5, <2>6, <2>7, <2>8 DEF FilesInOrder
<1>13. Progress'
  BY <1>1, <1>2 DEF IInv, Progress
<1> QED BY <1>1, <1>2, <1>6, <1>9, <1>10, <1>11, <1>12, <1>13 DEF IInv
-----------------------------------------------------------------------------
LEMMA Stutter == ASSUME IInv, UNCHANGED vars PROVE IInv'
BY DEF vars, IInv, SectionsWellFormed, SectionsDistinct, FilesWellFormed, ContextWellFormed,
   TypeOK, HeaderCountsRecords, FilesInOrder, Progress, Path

LEMMA StepInv == IInv /\ [Next]_vars => IInv'
<1> SUFFICES ASSUME IInv, [Next]_vars PROVE IInv'
  OBVIOUS
<1>1. CASE \/ SwitchToText \/ Statement \/ SectionError \/ EndOfSource
           \/ AssembleMicrocode \/ MicrocodeError \/ OpenFails \/ LastSection
  <2>1. UNCHANGED <<src, cur, sects, ctx, files>>
    BY <1>1 DEF SwitchToText, Statement, SectionError, EndOfSource,
       AssembleMicrocode, MicrocodeError, OpenFails, LastSection, parserVars
  <2> QED BY <1>1, <2>1, QuietStep
<1>2. CASE SwitchToIvals
  BY <1>2, SwitchStep
<1>3. CASE IvalsWrite
  BY <1>3, WriteStep
<1>4. CASE BeginSection
  BY <1>4, BeginStep
<1>5. CASE AssembleOp
  BY <1>5, AssembleStep
<1>6. CASE OpenFile
  BY <1>6, OpenStep
<1>7. CASE EmitIval
  BY <1>7, EmitStep
<1>8. CASE OffsetError \/ WriteFails \/ CloseFile \/ CloseLosesData
  BY <1>8, EndStep
<1>9. CASE UNCHANGED vars
  BY <1>9, Stutter
<1> QED BY <1>1, <1>2, <1>3, <1>4, <1>5, <1>6, <1>7, <1>8, <1>9 DEF Next

\* Every step of the section handling of initvals.c and parser.y preserves the
\* inductive invariant.
THEOREM Invariant == Spec => []IInv
BY Initially, StepInv, PTL DEF Spec

\* The lists, files and counters of initvals.c keep their shape, and the counter
\* ivals_count stays the length of its list.
THEOREM TypesCorrect == Spec => []TypeOK
<1>1. IInv => TypeOK
  BY DEF IInv
<1> QED BY <1>1, Invariant, PTL

\* Whatever the source text, a closed initvals file has exactly the records its
\* header announces to the driver.
THEOREM HeadersCountRecords == Spec => []HeaderCountsRecords
<1>1. IInv => HeaderCountsRecords
  BY DEF IInv
<1> QED BY <1>1, Invariant, PTL

\* assemble_initvals() finishes one file before it opens the next, and each
\* section has a file of its own, however the source reopens sections.
THEOREM FilesAreInOrder == Spec => []FilesInOrder
<1>1. IInv => FilesInOrder
  BY DEF IInv
<1> QED BY <1>1, Invariant, PTL
-----------------------------------------------------------------------------
\* Sections and their writes. Which section a line of the source belongs to.
SwitchLines(t, k) == {l \in 1 .. k - 1 : t[l].kind \in {".text", ".initvals"}}
LastSwitch(t, k)  == CHOOSE x \in SwitchLines(t, k) : \A y \in SwitchLines(t, k) : y <= x

InSection(t, k, n) ==
    /\ SwitchLines(t, k) # {}
    /\ t[LastSwitch(t, k)].kind = ".initvals" /\ t[LastSwitch(t, k)].name = n

IsWriteLine(t, l, n) == t[l].kind = "write" /\ InSection(t, l, n)

\* The operations of section n that the first m lines have, in their order.
Lines(t, ops, n, m, g) ==
    /\ g \in [DOMAIN ops -> 1 .. m]
    /\ \A j, k \in DOMAIN ops : j < k => g[j] < g[k]
    /\ \A j \in DOMAIN ops : IsWriteLine(t, g[j], n) /\ ops[j] = t[g[j]].op
    /\ \A l \in 1 .. m : IsWriteLine(t, l, n) => \E j \in DOMAIN ops : g[j] = l

Holds(t, ops, n, m) == \E g : Lines(t, ops, n, m, g)

Names(list) == {list[k].name : k \in DOMAIN list}
NamedLines(t, m) == {l \in 1 .. m : t[l].kind = ".initvals"}
LineNames(t, m) == {t[l].name : l \in NamedLines(t, m)}

AllHeld(t, list, m) ==
    /\ Names(list) = LineNames(t, m)
    /\ \A k \in DOMAIN list : Holds(t, list[k].ops, list[k].name, m)

\* What the parser knows of the lines before i.
ParsedSoFar ==
    /\ pc = "parse" =>
          /\ i <= Len(src) + 1
          /\ section = "ivals" => cur \in DOMAIN sects
          /\ \A n : InSection(src, i, n) <=> section = "ivals" /\ sects[cur].name = n
          /\ AllHeld(src, sects, i - 1)
    /\ pc \notin {"parse", "error"} => AllHeld(src, sects, Len(src))

ParseInv == IInv /\ ParsedSoFar

LEMMA SwitchFacts ==
    ASSUME NEW t, NEW k \in Nat, SwitchLines(t, k) # {}
    PROVE  LastSwitch(t, k) \in SwitchLines(t, k) /\ \A y \in SwitchLines(t, k) : y <= LastSwitch(t, k)
<1> DEFINE S == SwitchLines(t, k)
           D == {k - x : x \in S}
<1>1. \A x \in S : x \in Nat /\ k - x \in Nat
  BY DEF SwitchLines
<1>2. D \subseteq Nat /\ D # {}
  BY <1>1
<1>3. PICK d \in D : \A e \in D : d <= e
  <2> HIDE DEF D
  <2> QED BY <1>2, LeastNatural
<1>4. PICK x \in S : d = k - x
  BY <1>3
<1>5. \A y \in S : y <= x
  <2> SUFFICES ASSUME NEW y \in S PROVE y <= x
    OBVIOUS
  <2>1. k - y \in D
    OBVIOUS
  <2>2. k - x <= k - y
    BY <1>3, <1>4, <2>1
  <2> QED BY <1>1, <2>2
<1> QED BY <1>4, <1>5 DEF LastSwitch

LEMMA NextLine ==
    ASSUME NEW t, NEW k \in Nat \ {0}, NEW n
    PROVE  InSection(t, k + 1, n) <=>
             IF t[k].kind \in {".text", ".initvals"} THEN t[k].kind = ".initvals" /\ t[k].name = n
             ELSE InSection(t, k, n)
<1>1. \A l : l \in 1 .. (k + 1) - 1 <=> l \in 1 .. k - 1 \/ l = k
  OBVIOUS
<1>2. CASE t[k].kind \in {".text", ".initvals"}
  <2>1. k \in SwitchLines(t, k + 1) /\ \A y \in SwitchLines(t, k + 1) : y <= k /\ y \in Nat
    BY <1>1, <1>2 DEF SwitchLines
  <2>2. /\ LastSwitch(t, k + 1) \in SwitchLines(t, k + 1)
        /\ \A y \in SwitchLines(t, k + 1) : y <= LastSwitch(t, k + 1)
    BY <2>1, SwitchFacts
  <2>3. LastSwitch(t, k + 1) = k
    BY <2>1, <2>2
  <2> QED BY <1>2, <2>1, <2>3 DEF InSection
<1>3. CASE t[k].kind \notin {".text", ".initvals"}
  <2>1. SwitchLines(t, k + 1) = SwitchLines(t, k)
    BY <1>1, <1>3 DEF SwitchLines
  <2>2. LastSwitch(t, k + 1) = LastSwitch(t, k)
    BY <2>1 DEF LastSwitch
  <2> QED BY <1>3, <2>1, <2>2 DEF InSection
<1> QED BY <1>2, <1>3

\* A section that no line has named has no writes.
LEMMA NoLines ==
    ASSUME NEW t, NEW n, NEW m \in Nat, n \notin LineNames(t, m)
    PROVE  /\ \A l \in 1 .. m : ~IsWriteLine(t, l, n)
           /\ Holds(t, <<>>, n, m)
<1>1. ASSUME NEW l \in 1 .. m, IsWriteLine(t, l, n) PROVE FALSE
  <2> DEFINE x == LastSwitch(t, l)
  <2>1. x \in SwitchLines(t, l) /\ t[x].kind = ".initvals" /\ t[x].name = n
    BY <1>1, SwitchFacts DEF IsWriteLine, InSection
  <2>2. x \in 1 .. m
    BY <2>1 DEF SwitchLines
  <2> HIDE DEF x
  <2>3. n \in LineNames(t, m)
    BY <2>1, <2>2 DEF LineNames, NamedLines
  <2> QED BY <2>3
<1>2. Lines(t, <<>>, n, m, [j \in {} |-> 0])
  <2> DEFINE g == [j \in {} |-> 0]
  <2>1. DOMAIN <<>> = {} /\ g \in [{} -> 1 .. m]
    BY EmptyFacts
  <2> HIDE DEF g
  <2>2. Lines(t, <<>>, n, m, g)
    BY <1>1, <2>1 DEF Lines
  <2> QED BY <2>2 DEF g
<1> QED BY <1>1, <1>2 DEF Holds

\* The next line: a write of the section, or another.
LEMMA OtherLine ==
    ASSUME NEW t, NEW ops, NEW n, NEW m \in Nat, Holds(t, ops, n, m), ~IsWriteLine(t, m + 1, n)
    PROVE  Holds(t, ops, n, m + 1)
<1>1. PICK g : Lines(t, ops, n, m, g)
  BY DEF Holds
<1>2. \A l : l \in 1 .. m + 1 <=> l \in 1 .. m \/ l = m + 1
  OBVIOUS
<1>3. g \in [DOMAIN ops -> 1 .. m + 1]
  <2>1. g \in [DOMAIN ops -> 1 .. m] /\ 1 .. m \subseteq 1 .. m + 1
    BY <1>1 DEF Lines
  <2> QED BY <2>1
<1>4. Lines(t, ops, n, m + 1, g)
  BY <1>1, <1>2, <1>3 DEF Lines
<1> QED BY <1>4 DEF Holds

LEMMA WriteLine ==
    ASSUME NEW t, NEW ops, IsSequence(ops), NEW n, NEW m \in Nat, Holds(t, ops, n, m),
           IsWriteLine(t, m + 1, n)
    PROVE  Holds(t, Append(ops, t[m + 1].op), n, m + 1)
<1> DEFINE N   == Len(ops)
           op  == t[m + 1].op
           new == Append(ops, op)
<1>1. PICK f : Lines(t, ops, n, m, f)
  BY DEF Holds
<1>2. /\ N \in Nat /\ DOMAIN ops = 1 .. N /\ DOMAIN new = 1 .. N + 1
      /\ \A j \in 1 .. N : new[j] = ops[j]
      /\ new[N + 1] = op
  BY SequenceFacts, AppendFacts
<1> DEFINE g == [j \in 1 .. N + 1 |-> IF j = N + 1 THEN m + 1 ELSE f[j]]
<1> HIDE DEF N, new
<1>3. \A j \in 1 .. N + 1 : j = N + 1 \/ (j \in 1 .. N /\ j # N + 1)
  BY <1>2
<1>4. f \in [1 .. N -> 1 .. m] /\ \A j \in 1 .. N : f[j] \in 1 .. m
  BY <1>1, <1>2 DEF Lines
<1>5. \A j \in 1 .. N : g[j] = f[j] /\ j \in 1 .. N + 1
  BY <1>2
<1>6. g[N + 1] = m + 1 /\ N + 1 \in 1 .. N + 1
  BY <1>2
<1>7. g \in [1 .. N + 1 -> 1 .. m + 1]
  BY <1>3, <1>4
<1> HIDE DEF g
<1>8. ASSUME NEW j \in 1 .. N + 1, NEW k \in 1 .. N + 1, j < k PROVE g[j] < g[k]
  <2>1. j \in 1 .. N
    BY <1>2, <1>8
  <2>2. CASE k = N + 1
    <3>1. g[j] \in 1 .. m
      BY <1>4, <1>5, <2>1
    <3> QED BY <1>6, <2>2, <3>1
  <2>3. CASE k \in 1 .. N
    <3>1. f[j] < f[k]
      BY <1>1, <1>2, <1>8, <2>1, <2>3 DEF Lines
    <3> QED BY <1>5, <2>1, <2>3, <3>1
  <2> QED BY <1>3, <2>2, <2>3
<1>9. ASSUME NEW l \in 1 .. m + 1, IsWriteLine(t, l, n)
      PROVE  \E j \in 1 .. N + 1 : g[j] = l
  <2>1. CASE l = m + 1
    BY <1>6, <2>1
  <2>2. CASE l # m + 1
    <3>1. l \in 1 .. m
      BY <2>2
    <3>2. PICK j \in 1 .. N : f[j] = l
      BY <1>1, <1>2, <1>9, <3>1 DEF Lines
    <3> QED BY <1>5, <3>2
  <2> QED BY <2>1, <2>2
<1>10. ASSUME NEW j \in 1 .. N + 1 PROVE IsWriteLine(t, g[j], n) /\ new[j] = t[g[j]].op
  <2>1. CASE j = N + 1
    BY <1>2, <1>6, <2>1
  <2>2. CASE j \in 1 .. N
    <3>1. IsWriteLine(t, f[j], n) /\ ops[j] = t[f[j]].op
      BY <1>1, <1>2, <2>2 DEF Lines
    <3> QED BY <1>2, <1>5, <2>2, <3>1
  <2> QED BY <1>3, <2>1, <2>2
<1>11. Lines(t, new, n, m + 1, g)
  BY <1>2, <1>7, <1>8, <1>9, <1>10 DEF Lines
<1> QED BY <1>11 DEF Holds, new

\* Counting a set through its elements in increasing order.
Increasing(N, g) == g \in [1 .. N -> Nat] /\ \A j, k \in 1 .. N : j < k => g[j] < g[k]

Counts(L, N, g) ==
    /\ \A k \in 1 .. N : Cardinality({y \in L : y <= g[k]}) = k
    /\ Cardinality(L) = N

LEMMA CountUpTo ==
    ASSUME NEW N \in Nat, NEW g, Increasing(N, g), NEW L, L = {g[j] : j \in 1 .. N}
    PROVE  Counts(L, N, g)
<1> USE DEF Increasing, Counts
<1> DEFINE upto(k) == {y \in L : y <= g[k]}
           T == {k \in 1 .. N : IsFiniteSet(upto(k)) /\ Cardinality(upto(k)) = k}
<1>1. \A j, k \in 1 .. N : g[j] <= g[k] <=> j <= k
  <2> SUFFICES ASSUME NEW j \in 1 .. N, NEW k \in 1 .. N PROVE g[j] <= g[k] <=> j <= k
    OBVIOUS
  <2>1. g[j] \in Nat /\ g[k] \in Nat
    OBVIOUS
  <2>2. j < k \/ k < j \/ j = k
    OBVIOUS
  <2>3. (j < k => g[j] < g[k]) /\ (k < j => g[k] < g[j])
    OBVIOUS
  <2> QED BY <2>1, <2>2, <2>3
<1>2. \A k \in 1 .. N : upto(k) = {g[j] : j \in 1 .. k}
  <2> SUFFICES ASSUME NEW k \in 1 .. N PROVE upto(k) = {g[j] : j \in 1 .. k}
    OBVIOUS
  <2>1. ASSUME NEW y \in upto(k) PROVE y \in {g[j] : j \in 1 .. k}
    <3>1. PICK j \in 1 .. N : y = g[j]
      OBVIOUS
    <3>2. j <= k
      BY <1>1, <3>1
    <3> QED BY <3>1, <3>2
  <2>2. ASSUME NEW j \in 1 .. k PROVE g[j] \in upto(k)
    <3>1. j \in 1 .. N /\ j <= k
      OBVIOUS
    <3> QED BY <1>1, <3>1
  <2> QED BY <2>1, <2>2
<1>3. CASE N # 0
  <2>1. 1 \in T
    <3>1. 1 \in 1 .. N /\ 1 .. 1 = {1}
      BY <1>3
    <3>2. upto(1) = {g[1]}
      BY <1>2, <3>1
    <3>3. IsFiniteSet({g[1]}) /\ Cardinality({g[1]}) = 1
      BY FS_Singleton
    <3> HIDE DEF upto
    <3> QED BY <3>1, <3>2, <3>3
  <2>2. ASSUME NEW k \in 1 .. N - 1, k \in T PROVE k + 1 \in T
    <3>1. k \in 1 .. N /\ k + 1 \in 1 .. N /\ ~(k + 1 <= k) /\ \A j : j \in 1 .. k + 1 <=> j \in 1 .. k \/ j = k + 1
      OBVIOUS
    <3>2. upto(k + 1) = upto(k) \cup {g[k + 1]}
      <4>1. upto(k + 1) = {g[j] : j \in 1 .. k + 1} /\ upto(k) = {g[j] : j \in 1 .. k}
        BY <1>2, <3>1
      <4>2. {g[j] : j \in 1 .. k + 1} = {g[j] : j \in 1 .. k} \cup {g[k + 1]}
        BY <3>1
      <4> QED BY <4>1, <4>2
    <3>3. g[k + 1] \notin upto(k)
      BY <1>1, <3>1
    <3>4. IsFiniteSet(upto(k)) /\ Cardinality(upto(k)) = k
      BY <2>2
    <3> HIDE DEF upto
    <3>5. /\ IsFiniteSet(upto(k) \cup {g[k + 1]})
          /\ Cardinality(upto(k) \cup {g[k + 1]}) = Cardinality(upto(k)) + 1
      BY <3>3, <3>4, FS_AddElement
    <3> QED BY <3>1, <3>2, <3>4, <3>5
  <2>3. 1 .. N \subseteq T
    <3> HIDE DEF T
    <3> QED BY <2>1, <2>2, InductionOnEntries
  <2>4. N \in 1 .. N
    BY <1>3
  <2>5. upto(N) = L
    BY <1>2, <2>4
  <2> HIDE DEF upto
  <2> QED BY <2>3, <2>4, <2>5 DEF upto
<1>4. CASE N = 0
  <2>1. L = {} /\ 1 .. N = {}
    BY <1>4
  <2>2. Cardinality({}) = 0
    BY FS_EmptySet
  <2> QED BY <1>4, <2>1, <2>2
<1> QED BY <1>3, <1>4

NthOf(L, k) == CHOOSE x \in L : Cardinality({y \in L : y <= x}) = k

LEMMA NthIs ==
    ASSUME NEW N \in Nat, NEW g, Increasing(N, g),
           NEW L, L = {g[j] : j \in 1 .. N}, NEW k \in 1 .. N
    PROVE  NthOf(L, k) = g[k]
<1> DEFINE count(x) == Cardinality({y \in L : y <= x})
<1>1. \A j \in 1 .. N : count(g[j]) = j
  <2>1. Counts(L, N, g)
    BY CountUpTo
  <2> QED BY <2>1 DEF Counts
<1>2. g[k] \in L /\ count(g[k]) = k
  BY <1>1
<1>3. ASSUME NEW x \in L, count(x) = k PROVE x = g[k]
  <2>1. PICK j \in 1 .. N : x = g[j]
    OBVIOUS
  <2> HIDE DEF count
  <2> QED BY <1>1, <1>3, <2>1
<1> HIDE DEF count
<1>4. (CHOOSE x \in L : count(x) = k) = g[k]
  BY <1>2, <1>3
<1> QED BY <1>4 DEF count, NthOf

\* The invariant's functions give the lines that OpsOf counts.
LEMMA HeldOps ==
    ASSUME NEW n, NEW ops, IsSequence(ops), DOMAIN src = 1 .. Len(src),
           Holds(src, ops, n, Len(src))
    PROVE  ops = OpsOf(n)
<1> DEFINE N == Len(ops)
           L == LinesOf(n)
<1>1. PICK g : Lines(src, ops, n, Len(src), g)
  BY DEF Holds
<1>2. N \in Nat /\ DOMAIN ops = 1 .. N /\ ops = [k \in 1 .. N |-> ops[k]]
  BY SequenceFacts DEF IsSequence
<1>3. \A l : BelongsTo(l, n) <=> InSection(src, l, n)
  BY DEF BelongsTo, SwitchesBefore, InSection, LastSwitch, SwitchLines
<1>4. L = {l \in 1 .. Len(src) : IsWriteLine(src, l, n)}
  BY <1>3 DEF LinesOf, IsWriteLine
<1>5. /\ g \in [1 .. N -> 1 .. Len(src)]
      /\ \A j, k \in 1 .. N : j < k => g[j] < g[k]
      /\ \A j \in 1 .. N : IsWriteLine(src, g[j], n) /\ ops[j] = src[g[j]].op
      /\ \A l \in 1 .. Len(src) : IsWriteLine(src, l, n) => \E j \in 1 .. N : g[j] = l
  BY <1>1, <1>2 DEF Lines
<1> HIDE DEF N, L
<1>6. L = {g[j] : j \in 1 .. N}
  BY <1>4, <1>5
<1>7. Increasing(N, g)
  <2>1. 1 .. Len(src) \subseteq Nat
    OBVIOUS
  <2> QED BY <1>5, <2>1 DEF Increasing
<1>8. Cardinality(L) = N
  <2>1. Counts(L, N, g)
    BY <1>2, <1>6, <1>7, CountUpTo
  <2> QED BY <2>1 DEF Counts
<1>9. ASSUME NEW k \in 1 .. N PROVE NthOf(L, k) = g[k]
  BY <1>2, <1>6, <1>7, NthIs
<1>10. OpsOf(n) = [k \in 1 .. Cardinality(L) |-> src[NthOf(L, k)].op]
  BY DEF OpsOf, L, NthOf
<1> QED BY <1>2, <1>5, <1>8, <1>9, <1>10

LEMMA SourceFacts ==
    ASSUME IInv
    PROVE  /\ Len(src) \in Nat /\ DOMAIN src = 1 .. Len(src) /\ i \in Nat \ {0}
           /\ IsSequence(sects) /\ Len(sects) \in Nat /\ DOMAIN sects = 1 .. Len(sects)
           /\ \A k \in DOMAIN sects : IsSequence(sects[k].ops)
<1>1. src \in Sources /\ i \in Nat /\ i >= 1 /\ IsSequence(sects)
      /\ \A k \in DOMAIN sects : IsSequence(sects[k].ops)
  BY DEF IInv, TypeOK, SectionsWellFormed
<1>2. Len(src) \in Nat /\ DOMAIN src = 1 .. Len(src)
  BY <1>1, SourcesAssumption
<1> QED BY <1>1, <1>2, SequenceFacts

LEMMA ParseInit == Init => ParseInv
<1> SUFFICES ASSUME Init PROVE ParsedSoFar
  BY Initially DEF ParseInv
<1>1. Len(src) \in Nat
  BY SourcesAssumption DEF Init
<1>2. \A n : ~InSection(src, 1, n)
  <2>1. SwitchLines(src, 1) = {}
    BY DEF SwitchLines
  <2> QED BY <2>1 DEF InSection
<1>3. DOMAIN <<>> = {}
  BY EmptyFacts
<1>4. AllHeld(src, <<>>, 0)
  <2>1. NamedLines(src, 0) = {}
    BY DEF NamedLines
  <2> QED BY <1>3, <2>1 DEF AllHeld, Names, LineNames
<1>5. 1 - 1 = 0
  OBVIOUS
<1> QED BY <1>1, <1>2, <1>4, <1>5 DEF Init, ParsedSoFar

LEMMA NextNames ==
    ASSUME NEW t, NEW m \in Nat
    PROVE  LineNames(t, m + 1) =
             LineNames(t, m) \cup (IF t[m + 1].kind = ".initvals" THEN {t[m + 1].name} ELSE {})
<1>1. \A l : l \in 1 .. m + 1 <=> l \in 1 .. m \/ l = m + 1
  OBVIOUS
<1>2. NamedLines(t, m + 1) = NamedLines(t, m) \cup (IF t[m + 1].kind = ".initvals" THEN {m + 1} ELSE {})
  BY <1>1 DEF NamedLines
<1> QED BY <1>2 DEF LineNames

\* The lines of the parser's loop.
LEMMA ParseLine ==
    ASSUME ParseInv, SwitchToText \/ SwitchToIvals \/ Statement \/ IvalsWrite
    PROVE  ParsedSoFar'
<1>1. /\ pc = "parse" /\ pc' = "parse" /\ i <= Len(src) /\ i' = i + 1 /\ src' = src
  BY DEF SwitchToText, SwitchToIvals, Statement, IvalsWrite, AtLine
<1>2. /\ Len(src) \in Nat /\ DOMAIN src = 1 .. Len(src) /\ i \in Nat \ {0}
      /\ IsSequence(sects) /\ Len(sects) \in Nat /\ DOMAIN sects = 1 .. Len(sects)
      /\ \A k \in DOMAIN sects : IsSequence(sects[k].ops)
  BY SourceFacts DEF ParseInv
<1>3. PICK m \in Nat : i = m + 1
  <2>1. i - 1 \in Nat /\ i = (i - 1) + 1
    BY <1>2
  <2> QED BY <2>1
<1>4. i - 1 = m /\ i' - 1 = m + 1 /\ i' <= Len(src) + 1 /\ m + 1 \in Nat \ {0} /\ i' = (m + 1) + 1
  BY <1>1, <1>2, <1>3
<1>5. /\ section = "ivals" => cur \in DOMAIN sects
      /\ \A n : InSection(src, m + 1, n) <=> section = "ivals" /\ sects[cur].name = n
      /\ Names(sects) = LineNames(src, m)
      /\ \A k \in DOMAIN sects : Holds(src, sects[k].ops, sects[k].name, m)
  BY <1>1, <1>3, <1>4 DEF ParseInv, ParsedSoFar, AllHeld
<1>6. \A n : InSection(src, (m + 1) + 1, n) <=>
               IF src[m + 1].kind \in {".text", ".initvals"}
               THEN src[m + 1].kind = ".initvals" /\ src[m + 1].name = n
               ELSE InSection(src, m + 1, n)
  BY <1>4, NextLine
<1> SUFFICES /\ section' = "ivals" => cur' \in DOMAIN sects'
             /\ \A n : InSection(src, (m + 1) + 1, n) <=> section' = "ivals" /\ sects'[cur'].name = n
             /\ Names(sects') = LineNames(src, m + 1)
             /\ \A k \in DOMAIN sects' : Holds(src, sects'[k].ops, sects'[k].name, m + 1)
  BY <1>1, <1>4 DEF ParsedSoFar, AllHeld
<1>7. LineNames(src, m + 1) =
        LineNames(src, m) \cup (IF src[m + 1].kind = ".initvals" THEN {src[m + 1].name} ELSE {})
  BY NextNames
<1>8. CASE SwitchToText \/ Statement
  <2>1. /\ sects' = sects /\ cur' = cur /\ src[m + 1].kind \in {".text", "insn"}
        /\ \/ src[m + 1].kind = ".text" /\ section' = "text"
           \/ src[m + 1].kind = "insn" /\ section = "text" /\ section' = section
    BY <1>3, <1>8 DEF SwitchToText, Statement, AtLine, parserVars
  <2>2. \A n : ~IsWriteLine(src, m + 1, n)
    BY <2>1 DEF IsWriteLine
  <2>3. \A k \in DOMAIN sects : Holds(src, sects[k].ops, sects[k].name, m + 1)
    BY <1>5, <2>2, OtherLine
  <2> QED BY <1>5, <1>6, <1>7, <2>1, <2>3
<1>9. CASE SwitchToIvals
  <2> DEFINE n == src[m + 1].name
             found == Named(n)
  <2>1. /\ src[m + 1].kind = ".initvals" /\ section' = "ivals"
        /\ IF found # {}
           THEN cur' = (CHOOSE k \in found : \A l \in found : l <= k) /\ UNCHANGED sects
           ELSE /\ sects' = Append(sects, [name |-> n, ops |-> <<>>])
                /\ cur' = Len(sects')
    BY <1>3, <1>9 DEF SwitchToIvals, AtLine
  <2>2. \A x : ~IsWriteLine(src, m + 1, x)
    BY <2>1 DEF IsWriteLine
  <2>3. \A k \in DOMAIN sects : Holds(src, sects[k].ops, sects[k].name, m + 1)
    BY <1>5, <2>2, OtherLine
  <2>4. \A x : InSection(src, (m + 1) + 1, x) <=> n = x
    BY <1>6, <2>1
  <2>5. LineNames(src, m + 1) = LineNames(src, m) \cup {n}
    BY <1>7, <2>1
  <2>6. CASE found # {}
    <3>1. PICK k \in DOMAIN sects : sects[k].name = n
      BY <2>6 DEF Named
    <3>2. found = {k}
      BY <3>1 DEF Named, ParseInv, IInv, SectionsDistinct
    <3>3. sects' = sects /\ cur' = (CHOOSE l \in found : \A x \in found : x <= l)
      BY <2>1, <2>6
    <3>4. cur' = k
      <4>1. k <= k /\ k \in Nat
        BY <1>2
      <4> HIDE DEF found
      <4> QED BY <3>2, <3>3, <4>1
    <3>5. n \in Names(sects)
      BY <3>1 DEF Names
    <3> HIDE DEF n, found
    <3> QED BY <1>5, <2>1, <2>3, <2>4, <2>5, <3>1, <3>3, <3>4, <3>5
  <2>7. CASE found = {}
    <3> DEFINE new == [name |-> n, ops |-> <<>>]
               N == Len(sects)
    <3>1. /\ sects' = Append(sects, new) /\ cur' = Len(sects')
      BY <2>1, <2>7
    <3>2. /\ DOMAIN sects' = 1 .. N + 1 /\ Len(sects') = N + 1
          /\ \A j \in 1 .. N : sects'[j] = sects[j]
          /\ sects'[N + 1] = new
      <4> HIDE DEF new
      <4>1. /\ IsSequence(sects') /\ DOMAIN sects' = 1 .. N + 1
            /\ \A j \in 1 .. N : sects'[j] = sects[j]
            /\ sects'[N + 1] = new
        BY <1>2, <3>1, AppendFacts
      <4>2. Len(sects') \in Nat /\ DOMAIN sects' = 1 .. Len(sects')
        BY <4>1, SequenceFacts
      <4>3. Len(sects') = N + 1
        BY <1>2, <3>1, AppendFacts
      <4> QED BY <4>1, <4>3
    <3>3. new.name = n /\ new.ops = <<>>
      OBVIOUS
    <3>4. n \notin LineNames(src, m)
      <4>1. n \notin Names(sects)
        BY <2>7 DEF Named, Names
      <4> QED BY <1>5, <4>1
    <3>5. Holds(src, <<>>, n, m + 1)
      <4>1. Holds(src, <<>>, n, m)
        BY <3>4, NoLines
      <4> QED BY <2>2, <4>1, OtherLine
    <3> HIDE DEF new, n, found, N
    <3>6. \A j : j \in DOMAIN sects' <=> j \in 1 .. N \/ j = N + 1
      <4>1. N \in Nat
        BY <1>2 DEF N
      <4> QED BY <3>2, <4>1
    <3>7. DOMAIN sects = 1 .. N
      BY <1>2 DEF N
    <3>8. Names(sects') = Names(sects) \cup {n}
      BY <3>2, <3>3, <3>6, <3>7 DEF Names
    <3>9. \A k \in DOMAIN sects' : Holds(src, sects'[k].ops, sects'[k].name, m + 1)
      BY <2>3, <3>2, <3>3, <3>5, <3>6, <3>7
    <3>10. cur' = N + 1 /\ cur' \in DOMAIN sects' /\ sects'[cur'].name = n
      BY <3>1, <3>2, <3>3, <3>6
    <3> QED BY <1>5, <2>1, <2>4, <2>5, <3>8, <3>9, <3>10
  <2> QED BY <2>6, <2>7
<1>10. CASE IvalsWrite
  <2> DEFINE op == src[m + 1].op
             old == sects[cur]
             new == [name |-> old.name, ops |-> Append(old.ops, op)]
  <2>1. /\ src[m + 1].kind = "write" /\ section = "ivals" /\ UNCHANGED <<section, cur>>
        /\ sects' = [sects EXCEPT ![cur].ops = Append(@, op)]
    BY <1>3, <1>10 DEF IvalsWrite, AtLine
  <2>2. cur \in DOMAIN sects /\ old = [name |-> old.name, ops |-> old.ops] /\ IsSequence(old.ops)
    BY <1>2, <1>5, <2>1 DEF ParseInv, IInv, SectionsWellFormed
  <2>3. /\ DOMAIN sects' = DOMAIN sects
        /\ \A k \in DOMAIN sects : sects'[k] = IF k = cur THEN new ELSE sects[k]
    <3>1. sects' = [sects EXCEPT ![cur] = [old EXCEPT !.ops = Append(@, op)]]
      BY <2>1
    <3>2. [old EXCEPT !.ops = Append(@, op)] = new
      <4> HIDE DEF old, op
      <4>1. old = [name |-> old.name, ops |-> old.ops]
        BY <2>2
      <4> QED BY <4>1
    <3> HIDE DEF new, old, op
    <3> QED BY <3>1, <3>2
  <2>4. new.name = old.name /\ new.ops = Append(old.ops, op)
    OBVIOUS
  <2> HIDE DEF new
  <2>5. \A k \in DOMAIN sects : sects'[k].name = sects[k].name
    BY <2>3, <2>4
  <2>6. Names(sects') = Names(sects)
    BY <2>3, <2>5 DEF Names
  <2>7. \A x : InSection(src, m + 1, x) <=> old.name = x
    BY <1>5, <2>1
  <2>8. ASSUME NEW k \in DOMAIN sects PROVE Holds(src, sects'[k].ops, sects'[k].name, m + 1)
    <3>1. CASE k = cur
      <4>1. IsWriteLine(src, m + 1, old.name)
        BY <2>1, <2>7 DEF IsWriteLine
      <4>2. Holds(src, old.ops, old.name, m)
        BY <1>5, <2>2
      <4> HIDE DEF old
      <4>3. Holds(src, Append(old.ops, src[m + 1].op), old.name, m + 1)
        BY <2>2, <4>1, <4>2, WriteLine
      <4> QED BY <2>3, <2>4, <3>1, <4>3
    <3>2. CASE k # cur
      <4>1. sects[k].name # old.name
        BY <2>2, <3>2 DEF ParseInv, IInv, SectionsDistinct
      <4>2. ~IsWriteLine(src, m + 1, sects[k].name)
        BY <2>7, <4>1 DEF IsWriteLine
      <4>3. Holds(src, sects[k].ops, sects[k].name, m)
        BY <1>5
      <4>4. Holds(src, sects[k].ops, sects[k].name, m + 1)
        BY <4>2, <4>3, OtherLine
      <4> QED BY <2>3, <3>2, <4>4
    <3> QED BY <3>1, <3>2
  <2>9. LineNames(src, m + 1) = LineNames(src, m)
    BY <1>7, <2>1
  <2>10. \A x : InSection(src, (m + 1) + 1, x) <=> InSection(src, m + 1, x)
    BY <1>6, <2>1
  <2> QED BY <1>5, <2>1, <2>2, <2>3, <2>5, <2>6, <2>8, <2>9, <2>10
<1> QED BY <1>8, <1>9, <1>10

LEMMA ParseOthers ==
    ASSUME ParseInv,
           \/ SectionError \/ EndOfSource \/ AssembleMicrocode \/ MicrocodeError
           \/ BeginSection \/ AssembleOp \/ OpenFile \/ OpenFails
           \/ EmitIval \/ OffsetError \/ WriteFails
           \/ CloseFile \/ CloseLosesData \/ LastSection \/ UNCHANGED vars
    PROVE  ParsedSoFar'
<1>1. UNCHANGED <<src, sects, section, cur>>
  BY DEF SectionError, EndOfSource, AssembleMicrocode, MicrocodeError, BeginSection, AssembleOp,
         OpenFile, OpenFails, EmitIval, OffsetError, WriteFails, CloseFile, CloseLosesData,
         LastSection, NextSection, parserVars, vars
<1>2. CASE UNCHANGED vars
  BY <1>1, <1>2 DEF vars, ParseInv, ParsedSoFar
<1>3. CASE EndOfSource
  <2>1. pc = "parse" /\ pc' = "microcode" /\ i > Len(src)
    BY <1>3 DEF EndOfSource
  <2>2. i - 1 = Len(src)
    BY <2>1, SourceFacts DEF ParseInv, ParsedSoFar
  <2>3. AllHeld(src, sects, Len(src))
    BY <2>1, <2>2 DEF ParseInv, ParsedSoFar
  <2> QED BY <1>1, <2>1, <2>3 DEF ParsedSoFar
<1>4. CASE ~UNCHANGED vars /\ ~EndOfSource
  <2>1. pc' # "parse" /\ (pc' = "error" \/ pc \notin {"parse", "error"})
    BY <1>4 DEF SectionError, AssembleMicrocode, MicrocodeError, BeginSection, AssembleOp,
                OpenFile, OpenFails, EmitIval, OffsetError, WriteFails, CloseFile, CloseLosesData,
                LastSection, NextSection
  <2> QED BY <1>1, <2>1 DEF ParseInv, ParsedSoFar
<1> QED BY <1>2, <1>3, <1>4

\* However a source switches between its sections and reopens them, the
\* assembler has each section once, and in it the writes of its lines in the
\* order of the source: what assemble_initvals() writes to a file is one section.
THEOREM SectionsAreRight == Spec => []SectionsHoldTheirWrites
<1>1. Init => ParseInv
  BY ParseInit
<1>2. ParseInv /\ [Next]_vars => ParseInv'
  <2> SUFFICES ASSUME ParseInv, [Next]_vars PROVE ParseInv'
    OBVIOUS
  <2>1. IInv'
    BY StepInv DEF ParseInv
  <2>2. ParsedSoFar'
    BY ParseLine, ParseOthers DEF Next
  <2> QED BY <2>1, <2>2 DEF ParseInv
<1>3. ParseInv => SectionsHoldTheirWrites
  <2> SUFFICES ASSUME ParseInv, pc \notin {"parse", "error"}
               PROVE  /\ Names(sects) = {src[k].name : k \in {l \in DOMAIN src : src[l].kind = ".initvals"}}
                      /\ Len(sects) = Cardinality(Names(sects))
                      /\ \A k \in DOMAIN sects : sects[k].ops = OpsOf(sects[k].name)
    BY DEF SectionsHoldTheirWrites, Names
  <2>1. AllHeld(src, sects, Len(src))
    BY DEF ParseInv, ParsedSoFar
  <2>2. Names(sects) = {src[k].name : k \in {l \in DOMAIN src : src[l].kind = ".initvals"}}
    BY <2>1, SourceFacts DEF ParseInv, AllHeld, LineNames, NamedLines
  <2>3. Len(sects) = Cardinality(Names(sects))
    <3> DEFINE g == [k \in 1 .. Len(sects) |-> sects[k].name]
    <3>1. Len(sects) \in Nat /\ DOMAIN sects = 1 .. Len(sects)
      BY SourceFacts DEF ParseInv
    <3>2. g \in Bijection(1 .. Len(sects), Names(sects))
      BY <3>1 DEF Bijection, Injection, Surjection, IsInjective, Names, ParseInv, IInv, SectionsDistinct
    <3>3. IsFiniteSet(1 .. Len(sects)) /\ Cardinality(1 .. Len(sects)) = Len(sects)
      <4>1. /\ IsFiniteSet(1 .. Len(sects))
            /\ Cardinality(1 .. Len(sects)) = IF 1 > Len(sects) THEN 0 ELSE Len(sects) - 1 + 1
        BY <3>1, FS_Interval
      <4> QED BY <3>1, <4>1
    <3>4. ExistsBijection(1 .. Len(sects), Names(sects))
      <4> HIDE DEF g
      <4> QED BY <3>2 DEF ExistsBijection
    <3>5. Cardinality(Names(sects)) = Cardinality(1 .. Len(sects))
      BY <3>3, <3>4, FS_Bijection
    <3> QED BY <3>3, <3>5
  <2>4. ASSUME NEW k \in DOMAIN sects PROVE sects[k].ops = OpsOf(sects[k].name)
    BY <2>1, SourceFacts, HeldOps DEF ParseInv, AllHeld
  <2> QED BY <2>2, <2>3, <2>4
<1> QED BY <1>1, <1>2, <1>3, PTL DEF Spec
-----------------------------------------------------------------------------
\* A record that b43-ivaldump reads: an offset, with the flag if it is one of
\* three words, and a value.
IsRecord(r) ==
    \E a \in 0 .. OffsetLimit :
        \/ \E x : r = <<a, x>>
        \/ \E x, y : r = <<a + Flag32, x, y>>

OpsHaveOffsets ==
    \A k \in DOMAIN sects : \A m \in DOMAIN sects[k].ops : sects[k].ops[m].offset \in Nat

WritesHaveOffsets == \A m \in DOMAIN ctx.ivals : ctx.ivals[m].offset \in Nat

FilesHaveRecords ==
    \A n \in SectionNames : \A m \in DOMAIN files[n].records : IsRecord(files[n].records[m])

RecordInv == IInv /\ OpsHaveOffsets /\ WritesHaveOffsets /\ FilesHaveRecords

\* The writes of an operation go to registers the hardware knows, or to the one
\* the source names.
LEMMA WritesOffsets ==
    ASSUME NEW op, op.type \in OpTypes, op.offset \in Nat
    PROVE  \A m \in DOMAIN Writes(op) : Writes(op)[m].offset \in Nat
<1>1. ASSUME NEW o, NEW sz, NEW v PROVE Iv(o, sz, v).offset = o
  BY DEF Iv
<1>2. ASSUME NEW r, NEW o PROVE ControlWord(r, o).offset = \h160
  BY <1>1 DEF ControlWord
<1>3. CASE op.type \in {"mmio16", "mmio32"}
  <2>1. PICK a : Writes(op) = <<a>> /\ a.offset = op.offset
    BY <1>1, <1>3 DEF Writes
  <2> QED BY <2>1
<1>4. ASSUME NEW a, NEW b, Writes(op) = <<a, b>>, a.offset \in Nat, b.offset \in Nat
      PROVE  \A m \in DOMAIN Writes(op) : Writes(op)[m].offset \in Nat
  BY <1>4
<1>5. CASE op.type = "phy"
  <2>1. Writes(op) = <<Iv(\h3FC, 16, Halves(op.offset)), Iv(\h3FE, 16, op.value)>>
    BY <1>5 DEF Writes, PhyWrites
  <2>2. Iv(\h3FC, 16, Halves(op.offset)).offset \in Nat /\ Iv(\h3FE, 16, op.value).offset \in Nat
    BY <1>1
  <2> QED BY <1>4, <2>1, <2>2
<1>6. CASE op.type = "radio"
  <2>1. Writes(op) = <<Iv(\h3F6, 16, Halves(op.offset)), Iv(\h3FA, 16, op.value)>>
    BY <1>6 DEF Writes, RadioWrites
  <2>2. Iv(\h3F6, 16, Halves(op.offset)).offset \in Nat /\ Iv(\h3FA, 16, op.value).offset \in Nat
    BY <1>1
  <2> QED BY <1>4, <2>1, <2>2
<1>7. CASE op.type = "tram"
  <2>1. Writes(op) = <<Iv(\h130, 32, Halves(op.offset)), Iv(\h134, 32, op.value)>>
    BY <1>7 DEF Writes, TramWrites
  <2>2. Iv(\h130, 32, Halves(op.offset)).offset \in Nat /\ Iv(\h134, 32, op.value).offset \in Nat
    BY <1>1
  <2> QED BY <1>4, <2>1, <2>2
<1>8. CASE op.type = "shm16"
  <2> DEFINE r == IF IsUnaligned(op.routing, op.offset) THEN \h166 ELSE \h164
             a == ControlWord(op.routing, CellOf(op.routing, op.offset))
             b == Iv(r, 16, op.value)
  <2>1. Writes(op) = <<a, b>>
    BY <1>8 DEF Writes, Shm16Writes
  <2>2. r \in Nat
    OBVIOUS
  <2>3. a.offset \in Nat /\ b.offset \in Nat
    <3> HIDE DEF r
    <3> QED BY <1>1, <1>2, <2>2
  <2> HIDE DEF a, b
  <2> QED BY <1>4, <2>1, <2>3
<1>9. CASE op.type = "shm32"
  <2>1. Writes(op) = Shm32Writes(op.routing, op.offset, op.value)
    BY <1>9 DEF Writes
  <2>2. CASE IsUnaligned(op.routing, op.offset)
    <3> DEFINE a == ControlWord(op.routing, op.offset \div 4)
               b == Iv(\h166, 16, <<0, op.value[1]>>)
               c == ControlWord(op.routing, op.offset \div 4 + 1)
               d == Iv(\h164, 16, <<0, op.value[2]>>)
    <3>1. Writes(op) = <<a, b, c, d>>
      BY <2>1, <2>2 DEF Shm32Writes
    <3>2. a.offset \in Nat /\ b.offset \in Nat /\ c.offset \in Nat /\ d.offset \in Nat
      BY <1>1, <1>2
    <3> HIDE DEF a, b, c, d
    <3> QED BY <3>1, <3>2
  <2>3. CASE ~IsUnaligned(op.routing, op.offset)
    <3> DEFINE a == ControlWord(op.routing, CellOf(op.routing, op.offset))
               b == Iv(\h164, 32, op.value)
    <3>1. Writes(op) = <<a, b>>
      BY <2>1, <2>3 DEF Shm32Writes
    <3>2. a.offset \in Nat /\ b.offset \in Nat
      BY <1>1, <1>2
    <3> HIDE DEF a, b
    <3> QED BY <1>4, <3>1, <3>2
  <2> QED BY <2>2, <2>3
<1> QED BY <1>3, <1>5, <1>6, <1>7, <1>8, <1>9 DEF OpTypes

\* What initval_to_raw() makes of a write it does not refuse.
LEMMA RawIsRecord ==
    ASSUME NEW iv, iv.offset \in Nat, ~TooBig(iv)
    PROVE  IsRecord(Raw(iv))
<1>1. OffsetLimit \in Nat
  BY SMT DEF OffsetLimit
<1>2. iv.offset \in 0 .. OffsetLimit
  BY <1>1, SMT DEF TooBig
<1>3. CASE iv.size = 32
  <2>1. Raw(iv) = <<iv.offset + Flag32, iv.value[1], iv.value[2]>>
    BY <1>3 DEF Raw
  <2> QED BY <1>2, <2>1 DEF IsRecord
<1>4. CASE iv.size # 32
  <2>1. Raw(iv) = <<iv.offset, iv.value[2]>>
    BY <1>4 DEF Raw
  <2> QED BY <1>2, <2>1 DEF IsRecord
<1> QED BY <1>3, <1>4
-----------------------------------------------------------------------------
LEMMA RecordsAtFirst == ASSUME Init PROVE RecordInv
<1>1. IInv
  BY Initially
<1>2. sects = <<>> /\ ctx.ivals = <<>> /\ \A n \in SectionNames : files[n].records = <<>>
  BY DEF Init, EmptyCtx, OldFile
<1>3. OpsHaveOffsets /\ WritesHaveOffsets /\ FilesHaveRecords
  BY <1>2, EmptyFacts DEF OpsHaveOffsets, WritesHaveOffsets, FilesHaveRecords
<1> QED BY <1>1, <1>3 DEF RecordInv

LEMMA OpsStep ==
    ASSUME RecordInv, [Next]_vars
    PROVE  OpsHaveOffsets'
<1>1. CASE UNCHANGED sects
  BY <1>1 DEF RecordInv, OpsHaveOffsets
<1>2. CASE SwitchToIvals /\ ~UNCHANGED sects
  <2>1. PICK n : sects' = Append(sects, [name |-> n, ops |-> <<>>])
    BY <1>2 DEF SwitchToIvals
  <2> DEFINE new == [name |-> n, ops |-> <<>>]
  <2>2. IsSequence(sects) /\ Len(sects) \in Nat /\ DOMAIN sects = 1 .. Len(sects)
    BY SequenceFacts DEF RecordInv, IInv, SectionsWellFormed
  <2>3. new.ops = <<>>
    OBVIOUS
  <2> HIDE DEF new
  <2>4. /\ DOMAIN sects' = 1 .. Len(sects) + 1 /\ sects'[Len(sects) + 1] = new
        /\ \A k \in 1 .. Len(sects) : sects'[k] = sects[k]
    BY <2>1, <2>2, AppendFacts DEF new
  <2>5. \A k \in DOMAIN sects' : k \in DOMAIN sects \/ k = Len(sects) + 1
    BY <2>2, <2>4
  <2>6. \A m \in DOMAIN new.ops : FALSE
    BY <2>3, EmptyFacts
  <2> QED BY <2>2, <2>4, <2>5, <2>6 DEF RecordInv, OpsHaveOffsets
<1>3. CASE IvalsWrite /\ ~UNCHANGED sects
  <2> DEFINE op == src[i].op
             old == sects[cur]
             new == [name |-> old.name, ops |-> Append(old.ops, op)]
  <2>1. op.offset \in Nat
    <3>1. i \in 1 .. Len(src) /\ src[i].kind = "write" /\ src \in Sources
      BY <1>3 DEF IvalsWrite, AtLine, RecordInv, IInv, TypeOK
    <3> QED BY <3>1, SourcesAssumption
  <2>2. sects' = [sects EXCEPT ![cur].ops = Append(@, op)]
    BY <1>3 DEF IvalsWrite
  <2>3. IsSequence(sects) /\ Len(sects) \in Nat /\ DOMAIN sects = 1 .. Len(sects)
    BY SequenceFacts DEF RecordInv, IInv, SectionsWellFormed
  <2>4. cur \in DOMAIN sects
    BY <1>3, <2>2, <2>3 DEF IsSequence
  <2>5. old = [name |-> old.name, ops |-> old.ops] /\ IsSequence(old.ops)
    BY <2>4 DEF RecordInv, IInv, SectionsWellFormed
  <2>6. sects' = [sects EXCEPT ![cur] = new]
    <3>1. [old EXCEPT !.ops = Append(@, op)] = new
      BY <2>5
    <3>2. sects' = [sects EXCEPT ![cur] = [old EXCEPT !.ops = Append(@, op)]]
      BY <2>2
    <3> QED BY <3>1, <3>2
  <2>7. DOMAIN sects' = DOMAIN sects /\ \A k \in DOMAIN sects : sects'[k] = IF k = cur THEN new ELSE sects[k]
    BY <2>6
  <2>8. \A m \in DOMAIN new.ops : new.ops[m].offset \in Nat
    <3>1. /\ DOMAIN new.ops = 1 .. Len(old.ops) + 1
          /\ \A m \in 1 .. Len(old.ops) : new.ops[m] = old.ops[m]
          /\ new.ops[Len(old.ops) + 1] = op
      BY <2>5, AppendFacts
    <3>2. Len(old.ops) \in Nat /\ DOMAIN old.ops = 1 .. Len(old.ops)
      BY <2>5, SequenceFacts
    <3>3. \A m \in DOMAIN old.ops : old.ops[m].offset \in Nat
      BY <2>4 DEF RecordInv, OpsHaveOffsets
    <3> HIDE DEF old, new, op
    <3>4. \A m \in DOMAIN new.ops : m \in DOMAIN old.ops \/ m = Len(old.ops) + 1
      BY <3>1, <3>2
    <3> QED BY <2>1, <3>1, <3>2, <3>3, <3>4
  <2> HIDE DEF new
  <2> QED BY <2>7, <2>8 DEF RecordInv, OpsHaveOffsets
<1>4. UNCHANGED sects \/ SwitchToIvals \/ IvalsWrite
  BY DEF Next, SwitchToText, SwitchToIvals, Statement, IvalsWrite, SectionError, EndOfSource,
         AssembleMicrocode, MicrocodeError, BeginSection, AssembleOp, OpenFile, OpenFails, EmitIval,
         OffsetError, WriteFails, CloseFile, CloseLosesData, NextSection, LastSection, parserVars, vars
<1> QED BY <1>1, <1>2, <1>3, <1>4

LEMMA WritesStep ==
    ASSUME RecordInv, [Next]_vars
    PROVE  WritesHaveOffsets'
<1>1. CASE UNCHANGED ctx
  BY <1>1 DEF RecordInv, WritesHaveOffsets
<1>2. CASE BeginSection
  <2>1. ctx'.ivals = <<>>
    BY <1>2 DEF BeginSection, EmptyCtx
  <2> QED BY <2>1, EmptyFacts DEF WritesHaveOffsets
<1>3. CASE AssembleOp
  <2> DEFINE op == sects[s].ops[i]
             w == Writes(op)
  <2>1. s \in DOMAIN sects /\ i \in DOMAIN sects[s].ops
    BY <1>3, SequenceFacts DEF AssembleOp, RecordInv, IInv, Progress, TypeOK, SectionsWellFormed
  <2>2. op.type \in OpTypes /\ op.offset \in Nat
    BY <2>1 DEF RecordInv, IInv, SectionsWellFormed, OpsHaveOffsets
  <2>3. IsSequence(w) /\ Len(w) \in Nat /\ DOMAIN w = 1 .. Len(w)
    BY <2>2, WritesFacts, SequenceFacts
  <2>4. \A m \in DOMAIN w : w[m].offset \in Nat
    BY <2>2, WritesOffsets
  <2>5. ctx' = [ivals |-> ctx.ivals \o w, ivals_count |-> ctx.ivals_count + Len(w)]
    BY <1>3 DEF AssembleOp
  <2> HIDE DEF w, op
  <2> DEFINE all == ctx.ivals \o w
  <2>6. IsSequence(ctx.ivals) /\ Len(ctx.ivals) \in Nat /\ DOMAIN ctx.ivals = 1 .. Len(ctx.ivals)
    BY SequenceFacts DEF RecordInv, IInv, ContextWellFormed
  <2>7. /\ DOMAIN all = 1 .. Len(ctx.ivals) + Len(w)
        /\ \A m \in 1 .. Len(ctx.ivals) : all[m] = ctx.ivals[m]
        /\ \A m \in 1 .. Len(w) : all[Len(ctx.ivals) + m] = w[m]
    BY <2>3, <2>6, ConcatFacts
  <2> HIDE DEF all
  <2>8. ASSUME NEW m \in DOMAIN all PROVE all[m].offset \in Nat
    <3>1. CASE m \in 1 .. Len(ctx.ivals)
      BY <2>6, <2>7, <3>1 DEF RecordInv, WritesHaveOffsets
    <3>2. CASE m \notin 1 .. Len(ctx.ivals)
      <4>1. m - Len(ctx.ivals) \in 1 .. Len(w) /\ m = Len(ctx.ivals) + (m - Len(ctx.ivals))
        BY <2>3, <2>6, <2>7, <3>2
      <4> QED BY <2>3, <2>4, <2>7, <4>1
    <3> QED BY <3>1, <3>2
  <2>9. ctx'.ivals = all
    BY <2>5 DEF all
  <2> QED BY <2>8, <2>9 DEF WritesHaveOffsets
<1>4. UNCHANGED ctx \/ BeginSection \/ AssembleOp
  BY DEF Next, SwitchToText, SwitchToIvals, Statement, IvalsWrite, SectionError, EndOfSource,
         AssembleMicrocode, MicrocodeError, BeginSection, AssembleOp, OpenFile, OpenFails, EmitIval,
         OffsetError, WriteFails, CloseFile, CloseLosesData, NextSection, LastSection, parserVars, vars
<1> QED BY <1>1, <1>2, <1>3, <1>4

LEMMA RecordsStep ==
    ASSUME RecordInv, [Next]_vars
    PROVE  FilesHaveRecords'
<1>1. CASE UNCHANGED files
  BY <1>1 DEF RecordInv, FilesHaveRecords
<1>2. ASSUME NEW p \in SectionNames, NEW f, files' = [files EXCEPT ![p] = f],
             \A m \in DOMAIN f.records : IsRecord(f.records[m])
      PROVE  FilesHaveRecords'
  <2>1. files'[p] = f /\ \A n \in SectionNames \ {p} : files'[n] = files[n]
    BY <1>2, FileExcept DEF RecordInv, IInv
  <2> QED BY <1>2, <2>1 DEF RecordInv, FilesHaveRecords
<1>3. CASE OpenFile
  <2>1. Path \in SectionNames
    BY <1>3, SequenceFacts DEF OpenFile, RecordInv, IInv, Progress, SectionsWellFormed, Path
  <2> DEFINE f == [state |-> "open", size |-> ctx.ivals_count, records |-> <<>>]
  <2>2. files' = [files EXCEPT ![Path] = f]
    BY <1>3 DEF OpenFile
  <2>3. f.records = <<>>
    OBVIOUS
  <2>4. \A m \in DOMAIN f.records : IsRecord(f.records[m])
    BY <2>3, EmptyFacts
  <2> HIDE DEF f
  <2> QED BY <1>2, <2>1, <2>2, <2>4
<1>4. CASE EmitIval
  <2> DEFINE old == files[Path]
             r == Raw(ctx.ivals[i])
             f == [state |-> "open", size |-> old.size, records |-> Append(old.records, r)]
  <2>1. /\ Path \in SectionNames /\ i \in DOMAIN ctx.ivals
        /\ old = [state |-> "open", size |-> ctx.ivals_count, records |-> old.records]
        /\ IsSequence(old.records)
    <3>1. pc = "emit" /\ i <= Len(ctx.ivals)
      BY <1>4 DEF EmitIval
    <3>2. /\ Path \in SectionNames /\ IsSequence(ctx.ivals) /\ Len(ctx.ivals) \in Nat
          /\ i \in 1 .. Len(ctx.ivals) + 1
          /\ old = [state |-> "open", size |-> ctx.ivals_count, records |-> old.records]
          /\ IsSequence(old.records)
      BY <3>1, OpenFileFacts DEF RecordInv
    <3>3. i \in 1 .. Len(ctx.ivals)
      BY <3>1, <3>2
    <3>4. DOMAIN ctx.ivals = 1 .. Len(ctx.ivals)
      BY <3>2, SequenceFacts
    <3> QED BY <3>2, <3>3, <3>4
  <2>2. files' = [files EXCEPT ![Path] = f]
    <3>1. files' = [files EXCEPT ![Path] = [old EXCEPT !.records = Append(@, r)]]
      BY <1>4 DEF EmitIval
    <3> DEFINE recs == Append(old.records, r)
    <3>2. [old EXCEPT !.records = recs] = [state |-> "open", size |-> old.size, records |-> recs]
      <4> HIDE DEF recs
      <4> QED BY <2>1
    <3> QED BY <3>1, <3>2
  <2>3. IsRecord(r)
    <3>1. ctx.ivals[i].offset \in Nat /\ ~TooBig(ctx.ivals[i])
      BY <1>4, <2>1 DEF EmitIval, RecordInv, WritesHaveOffsets
    <3> QED BY <3>1, RawIsRecord
  <2>4. \A m \in DOMAIN f.records : IsRecord(f.records[m])
    <3>1. /\ DOMAIN f.records = 1 .. Len(old.records) + 1
          /\ \A m \in 1 .. Len(old.records) : f.records[m] = old.records[m]
          /\ f.records[Len(old.records) + 1] = r
      BY <2>1, AppendFacts
    <3>2. Len(old.records) \in Nat /\ DOMAIN old.records = 1 .. Len(old.records)
      BY <2>1, SequenceFacts
    <3>3. \A m \in DOMAIN old.records : IsRecord(old.records[m])
      BY <2>1 DEF RecordInv, FilesHaveRecords
    <3> HIDE DEF old, r, f
    <3>4. \A m \in DOMAIN f.records : m \in DOMAIN old.records \/ m = Len(old.records) + 1
      BY <3>1, <3>2
    <3> QED BY <2>3, <3>1, <3>2, <3>3, <3>4
  <2> HIDE DEF f
  <2> QED BY <1>2, <2>1, <2>2, <2>4
<1>5. CASE OffsetError \/ WriteFails \/ CloseFile \/ CloseLosesData
  <2> DEFINE old == files[Path]
  <2>1. PICK st : files' = [files EXCEPT ![Path].state = st]
    BY <1>5 DEF OffsetError, WriteFails, CloseFile, CloseLosesData
  <2>2. pc = "emit"
    BY <1>5 DEF OffsetError, WriteFails, CloseFile, CloseLosesData
  <2>3. /\ Path \in SectionNames
        /\ old = [state |-> "open", size |-> ctx.ivals_count, records |-> old.records]
    BY <2>2, OpenFileFacts DEF RecordInv
  <2> DEFINE f == [state |-> st, size |-> old.size, records |-> old.records]
  <2>4. files' = [files EXCEPT ![Path] = f]
    <3>1. files' = [files EXCEPT ![Path] = [old EXCEPT !.state = st]]
      BY <2>1
    <3>2. [old EXCEPT !.state = st] = f
      BY <2>3
    <3> QED BY <3>1, <3>2
  <2>5. \A m \in DOMAIN f.records : IsRecord(f.records[m])
    <3>1. f.records = files[Path].records
      OBVIOUS
    <3> QED BY <2>3, <3>1 DEF RecordInv, FilesHaveRecords
  <2> HIDE DEF f, old
  <2> QED BY <1>2, <2>3, <2>4, <2>5
<1>6. \/ UNCHANGED files \/ OpenFile \/ EmitIval
      \/ OffsetError \/ WriteFails \/ CloseFile \/ CloseLosesData
  BY DEF Next, SwitchToText, SwitchToIvals, Statement, IvalsWrite, SectionError, EndOfSource,
         AssembleMicrocode, MicrocodeError, BeginSection, AssembleOp, OpenFails, LastSection, vars
<1> QED BY <1>1, <1>3, <1>4, <1>5, <1>6
-----------------------------------------------------------------------------
\* The operations at the places at are what b43-ivaldump prints, if each record
\* ends where the next one begins and the last one at the end.
ArePlaces(words, ops, at) ==
    /\ at \in [1 .. Len(ops) + 1 -> 1 .. Len(words) + 1]
    /\ at[1] = 1 /\ at[Len(ops) + 1] = Len(words) + 1
    /\ \A n \in 1 .. Len(ops) :
          /\ DumpedOp(words, at[n]) = ops[n]
          /\ at[n] + RecordLen(words[at[n]]) = at[n + 1]

\* b43-ivaldump goes from place to place.
LEMMA DumpIs ==
    ASSUME NEW words, Len(words) \in Nat, NEW V, NEW ops \in Seq(V), NEW at, ArePlaces(words, ops, at)
    PROVE  Dump(words) = ops
<1> DEFINE N == Len(words)
           next == [p \in 1 .. N + 1 |-> p + RecordLen(words[p])]
           IsEnd(p) == p > N
           IsShort(p) == p + RecordLen(words[p]) > N + 1
           stop == {p \in 1 .. N + 1 : IsEnd(p) \/ IsShort(p)}
           end == [p \in 1 .. N + 1 |-> IF IsEnd(p) THEN <<>> ELSE <<IndexError>>]
           op == [p \in 1 .. N + 1 |-> DumpedOp(words, p)]
           Step(f) == [p \in 1 .. N + 1 |->
                         IF IsEnd(p) THEN <<>>
                         ELSE IF IsShort(p) THEN <<IndexError>>
                         ELSE <<DumpedOp(words, p)>> \o f[p + RecordLen(words[p])]]
           from == CHOOSE f : f = Step(f)
<1>1. Dump(words) = from[1]
  BY DEF Dump
<1>2. N \in Nat /\ \A p \in 1 .. N + 1 : RecordLen(words[p]) \in {2, 3}
  BY DEF RecordLen
<1> HIDE DEF N
<1>3. \A f : f = Step(f) <=> IsReading(N, stop, end, op, next, f)
  <2> SUFFICES ASSUME NEW f
               PROVE  Step(f) = [p \in 1 .. N + 1 |-> IF p \in stop THEN end[p] ELSE <<op[p]>> \o f[next[p]]]
    BY DEF IsReading
  <2> SUFFICES ASSUME NEW p \in 1 .. N + 1
               PROVE  (IF IsEnd(p) THEN <<>>
                         ELSE IF IsShort(p) THEN <<IndexError>>
                         ELSE <<DumpedOp(words, p)>> \o f[p + RecordLen(words[p])])
                      = IF p \in stop THEN end[p] ELSE <<op[p]>> \o f[next[p]]
    OBVIOUS
  <2>1. p \in stop <=> IsEnd(p) \/ IsShort(p)
    OBVIOUS
  <2>2. end[p] = (IF IsEnd(p) THEN <<>> ELSE <<IndexError>>) /\ op[p] = DumpedOp(words, p)
        /\ next[p] = p + RecordLen(words[p])
    OBVIOUS
  <2> HIDE DEF stop, end, op, next, IsEnd, IsShort
  <2> QED BY <2>1, <2>2
<1> DEFINE U == {DumpedOp(words, p) : p \in 1 .. N + 1} \cup {IndexError}
<1>4. \E f : IsReading(N, stop, end, op, next, f)
  <2>1. end \in [1 .. N + 1 -> Seq(U)] /\ op \in [1 .. N + 1 -> U]
    <3>1. <<>> \in Seq(U) /\ <<IndexError>> \in Seq(U)
      OBVIOUS
    <3> HIDE DEF IsEnd
    <3> QED BY <3>1
  <2>2. \A p \in 1 .. N + 1 : p \notin stop => next[p] \in p + 1 .. N + 1
    <3> SUFFICES ASSUME NEW p \in 1 .. N + 1, p \notin stop PROVE next[p] \in p + 1 .. N + 1
      OBVIOUS
    <3>1. ~IsShort(p) /\ next[p] = p + RecordLen(words[p]) /\ RecordLen(words[p]) \in {2, 3}
      BY <1>2
    <3> HIDE DEF stop, next
    <3> QED BY <1>2, <3>1
  <2> HIDE DEF U, stop, end, op, next
  <2> QED BY <1>2, <2>1, <2>2, ReadingExists
<1>5. IsReading(N, stop, end, op, next, from)
  <2> HIDE DEF Step, stop, end, op, next
  <2> QED BY <1>3, <1>4
<1> DEFINE M == Len(ops)
<1>6. /\ at \in [1 .. M + 1 -> 1 .. N + 1] /\ at[1] = 1 /\ at[M + 1] = N + 1 /\ M \in Nat
      /\ \A n \in 1 .. M : DumpedOp(words, at[n]) = ops[n] /\ at[n] + RecordLen(words[at[n]]) = at[n + 1]
  BY DEF ArePlaces, N
<1> HIDE DEF M
<1>7. at[M + 1] \in stop /\ end[at[M + 1]] = <<>>
  <2>1. N + 1 \in 1 .. N + 1 /\ IsEnd(N + 1)
    BY <1>2
  <2> HIDE DEF IsEnd, IsShort
  <2> QED BY <1>6, <2>1
<1>8. ASSUME NEW n \in 1 .. M PROVE at[n] \notin stop /\ op[at[n]] = ops[n] /\ next[at[n]] = at[n + 1]
  <2> DEFINE p == at[n]
  <2>1. n \in 1 .. M + 1 /\ n + 1 \in 1 .. M + 1
    BY <1>6
  <2>2. p \in 1 .. N + 1 /\ at[n + 1] \in 1 .. N + 1 /\ p + RecordLen(words[p]) = at[n + 1]
        /\ DumpedOp(words, p) = ops[n] /\ RecordLen(words[p]) \in {2, 3}
    BY <1>2, <1>6, <2>1
  <2>3. next[p] = p + RecordLen(words[p]) /\ op[p] = DumpedOp(words, p)
    BY <2>2
  <2>4. ~IsEnd(p) /\ ~IsShort(p)
    BY <1>2, <2>2
  <2>5. p \notin stop
    <3> HIDE DEF IsEnd, IsShort
    <3> QED BY <2>4
  <2> HIDE DEF stop, op, next, p
  <2>6. p \notin stop /\ op[p] = ops[n] /\ next[p] = at[n + 1]
    BY <2>2, <2>3, <2>5
  <2> QED BY <2>6 DEF p
<1> HIDE DEF stop, end, op, next, from
<1>9. from[1] = ops
  BY <1>2, <1>5, <1>6, <1>7, <1>8, ReadingIs DEF M
<1> QED BY <1>1, <1>9
-----------------------------------------------------------------------------
\* What b43-ivaldump prints of a record.
PrintedRecord(r) ==
    [type |-> IF Len(r) = 3 THEN "mmio32" ELSE "mmio16", offset |-> r[1] % Flag32, routing |-> 0,
     value |-> IF Len(r) = 3 THEN <<r[2], r[3]>> ELSE <<0, r[2]>>]

\* The flag of the offset tells how long a record is.
LEMMA RecordFacts ==
    ASSUME NEW r, IsRecord(r)
    PROVE  /\ Len(r) \in {2, 3} /\ r[1] \in Nat /\ (IsDword(r[1]) <=> Len(r) = 3)
           /\ Len(r) = 3 => r[1] = (r[1] % Flag32) + Flag32 /\ r = <<r[1], r[2], r[3]>>
           /\ Len(r) = 2 => r[1] = r[1] % Flag32 /\ r = <<r[1], r[2]>>
<1>1. PICK a \in 0 .. OffsetLimit : (\E x : r = <<a, x>>) \/ (\E x, y : r = <<a + Flag32, x, y>>)
  BY DEF IsRecord
<1>2. /\ a \in Nat /\ a + Flag32 \in Nat /\ a % Flag32 = a /\ (a + Flag32) % Flag32 = a
      /\ ~(a >= Flag32) /\ a + Flag32 >= Flag32
  <2>1. a \in Int /\ 0 <= a /\ a < 32768 /\ Flag32 = 32768
    BY SMT DEF OffsetLimit, Flag32
  <2> DEFINE b == a + Flag32
  <2>2. b \in Int /\ b = a + 32768
    BY <2>1, SMT
  <2> HIDE DEF b
  <2>3. a % 32768 = a
    BY ONLY <2>1, SMT
  <2>4. b % 32768 = a
    BY ONLY <2>1, <2>2, SMT
  <2> QED BY <2>1, <2>2, <2>3, <2>4, SMT DEF b
<1>3. ASSUME NEW x, r = <<a, x>>
      PROVE  Len(r) = 2 /\ r[1] = a /\ r = <<r[1], r[2]>>
  BY <1>3
<1>4. ASSUME NEW x, NEW y, r = <<a + Flag32, x, y>>
      PROVE  Len(r) = 3 /\ r[1] = a + Flag32 /\ r = <<r[1], r[2], r[3]>>
  BY <1>4
<1>5. CASE \E x : r = <<a, x>>
  <2>1. Len(r) = 2 /\ r[1] = a /\ r = <<r[1], r[2]>>
    BY <1>3, <1>5
  <2> QED BY <1>2, <2>1 DEF IsDword
<1>6. CASE \E x, y : r = <<a + Flag32, x, y>>
  <2>1. Len(r) = 3 /\ r[1] = a + Flag32 /\ r = <<r[1], r[2], r[3]>>
    BY <1>4, <1>6
  <2>2. r[1] % Flag32 = a
    BY <1>2, <2>1
  <2> QED BY <1>2, <2>1, <2>2 DEF IsDword
<1> QED BY <1>1, <1>5, <1>6

\* A record is printed as it is, wherever it begins.
LEMMA RecordIsPrinted ==
    ASSUME NEW r, IsRecord(r), NEW words, NEW k \in Nat, words[k] = r[1], words[k + 1] = r[2],
           Len(r) = 3 => words[k + 2] = r[3]
    PROVE  DumpedOp(words, k) = PrintedRecord(r) /\ RecordLen(words[k]) = Len(r)
<1>1. Len(r) \in {2, 3} /\ (IsDword(r[1]) <=> Len(r) = 3)
  BY RecordFacts
<1> DEFINE d == IsDword(words[k])
<1>2. d <=> Len(r) = 3
  BY <1>1
<1>3. RecordLen(words[k]) = IF d THEN 3 ELSE 2
  BY DEF RecordLen
<1>4. DumpedOp(words, k) = [type |-> IF d THEN "mmio32" ELSE "mmio16", offset |-> words[k] % Flag32, routing |-> 0,
                            value |-> IF d THEN <<words[k + 1], words[k + 2]>> ELSE <<0, words[k + 1]>>]
  BY DEF DumpedOp
<1> HIDE DEF d
<1>5. CASE d
  <2>1. DumpedOp(words, k) = [type |-> "mmio32", offset |-> r[1] % Flag32, routing |-> 0, value |-> <<r[2], r[3]>>]
    BY <1>2, <1>4, <1>5
  <2>2. PrintedRecord(r) = [type |-> "mmio32", offset |-> r[1] % Flag32, routing |-> 0, value |-> <<r[2], r[3]>>]
    BY <1>2, <1>5 DEF PrintedRecord
  <2> QED BY <1>2, <1>3, <1>5, <2>1, <2>2
<1>6. CASE ~d
  <2>1. DumpedOp(words, k) = [type |-> "mmio16", offset |-> r[1] % Flag32, routing |-> 0, value |-> <<0, r[2]>>]
    BY <1>4, <1>6
  <2>2. PrintedRecord(r) = [type |-> "mmio16", offset |-> r[1] % Flag32, routing |-> 0, value |-> <<0, r[2]>>]
    BY <1>2, <1>6 DEF PrintedRecord
  <2>3. Len(r) = 2
    BY <1>1, <1>2, <1>6
  <2> QED BY <1>3, <1>6, <2>1, <2>2, <2>3
<1> QED BY <1>5, <1>6

\* What is printed assembles to the record.
LEMMA RecordReturns ==
    ASSUME NEW r, IsRecord(r)
    PROVE  Raw(Writes(PrintedRecord(r))[1]) = r /\ PrintedRecord(r) # IndexError
<1> DEFINE o == r[1] % Flag32
<1>1. /\ Len(r) \in {2, 3} /\ Len(r) = 3 => r[1] = o + Flag32 /\ r = <<r[1], r[2], r[3]>>
  BY RecordFacts
<1>2. Len(r) = 2 => r[1] = o /\ r = <<r[1], r[2]>>
  BY RecordFacts
<1>3. Len(r) \in {2, 3}
  BY RecordFacts
<1> HIDE DEF o
<1>4. CASE Len(r) = 3
  <2> DEFINE v == <<r[2], r[3]>>
             p == [type |-> "mmio32", offset |-> o, routing |-> 0, value |-> v]
  <2>1. PrintedRecord(r) = p
    BY <1>4 DEF PrintedRecord, o
  <2>2. Writes(p) = <<Iv(o, 32, v)>>
    <3>1. p.type = "mmio32" /\ p.offset = o /\ p.value = v
      OBVIOUS
    <3> HIDE DEF p
    <3> QED BY <3>1 DEF Writes
  <2>3. Raw(Iv(o, 32, v)) = <<o + Flag32, v[1], v[2]>>
    <3> HIDE DEF v
    <3> QED BY DEF Raw, Iv
  <2>4. v[1] = r[2] /\ v[2] = r[3] /\ p.type # "IndexError"
    OBVIOUS
  <2>5. Writes(p)[1] = Iv(o, 32, v)
    BY <2>2
  <2>6. p # IndexError
    BY <2>4 DEF IndexError
  <2>7. r = <<o + Flag32, r[2], r[3]>>
    BY <1>1, <1>4
  <2> HIDE DEF p, v
  <2> QED BY <2>1, <2>3, <2>4, <2>5, <2>6, <2>7
<1>5. CASE Len(r) = 2
  <2> DEFINE v == <<0, r[2]>>
             p == [type |-> "mmio16", offset |-> o, routing |-> 0, value |-> v]
  <2>1. PrintedRecord(r) = p
    BY <1>5 DEF PrintedRecord, o
  <2>2. Writes(p) = <<Iv(o, 16, v)>>
    <3>1. p.type = "mmio16" /\ p.offset = o /\ p.value = v
      OBVIOUS
    <3> HIDE DEF p
    <3> QED BY <3>1 DEF Writes
  <2>3. Raw(Iv(o, 16, v)) = <<o, v[2]>>
    <3> HIDE DEF v
    <3> QED BY DEF Raw, Iv
  <2>4. v[2] = r[2] /\ p.type # "IndexError"
    OBVIOUS
  <2>5. Writes(p)[1] = Iv(o, 16, v)
    BY <2>2
  <2>6. p # IndexError
    BY <2>4 DEF IndexError
  <2>7. r = <<o, r[2]>>
    BY <1>2, <1>5
  <2> HIDE DEF p, v
  <2> QED BY <2>1, <2>3, <2>4, <2>5, <2>6, <2>7
<1> QED BY <1>3, <1>4, <1>5
-----------------------------------------------------------------------------
\* Each record begins where the one before it ends, at the word behind q.
AreStarts(recs, q) ==
    /\ q \in [1 .. Len(recs) + 1 -> Nat] /\ q[1] = 0
    /\ \A n \in 1 .. Len(recs) : q[n + 1] = q[n] + Len(recs[n])

LEMMA StartsExist ==
    ASSUME NEW recs, Len(recs) \in Nat, \A n \in 1 .. Len(recs) : Len(recs[n]) \in Nat
    PROVE  \E q : AreStarts(recs, q)
<1> DEFINE N == Len(recs)
           L(n) == IF n \in 1 .. N THEN Len(recs[n]) ELSE 0
           G == [n \in Nat |-> [x \in Nat |-> x + L(n - 1)]]
<1>1. N \in Nat
  OBVIOUS
<1>2. \A n : L(n) \in Nat
  OBVIOUS
<1>3. \A n \in 1 .. N : L(n) = Len(recs[n])
  OBVIOUS
<1> HIDE DEF N, L
<1>4. G \in [Nat -> [Nat -> Nat]]
  BY <1>2
<1>5. \A n \in Nat, x \in Nat : G[n][x] = x + L(n - 1)
  OBVIOUS
<1> HIDE DEF G
<1> DEFINE V == Nat
           a == 0
           M == N + 1
<1>6. PICK q \in [1 .. M -> Nat] : \A n \in 1 .. M : q[n] = IF n = 1 THEN a ELSE G[n][q[n - 1]]
  <2>0. G \in [Nat -> [V -> V]]
    BY ONLY <1>4
  <2>1. a \in V /\ M \in Nat
    BY <1>1
  <2> HIDE DEF V, a, M
  <2>2. Recursion(V, a, G, M) # {}
    BY <2>0, <2>1, RecursionExists
  <2> QED BY <2>2 DEF Recursion, V
<1>7. q[1] = 0
  BY <1>1, <1>6
<1>8. ASSUME NEW n \in 1 .. N PROVE q[n + 1] = q[n] + Len(recs[n])
  <2>1. n + 1 \in 1 .. M /\ n \in 1 .. M /\ n + 1 # 1 /\ (n + 1) - 1 = n /\ n + 1 \in Nat
    BY <1>1
  <2>2. q[n + 1] = G[n + 1][q[n]] /\ q[n] \in Nat
    BY <1>6, <2>1
  <2>3. L(n) = Len(recs[n])
    BY <1>3
  <2> QED BY <1>5, <2>1, <2>2, <2>3
<1> QED BY <1>6, <1>7, <1>8 DEF AreStarts, N

\* The words of all records.
WordsOfAll(recs) == UNION {{recs[n][1], recs[n][2], recs[n][3]} : n \in 1 .. Len(recs)}

LEMMA RecordsType ==
    ASSUME NEW recs, IsSequence(recs), \A n \in DOMAIN recs : IsRecord(recs[n])
    PROVE  /\ recs = [n \in 1 .. Len(recs) |-> recs[n]] /\ Len(recs) \in Nat
           /\ DOMAIN recs = 1 .. Len(recs)
           /\ recs \in [1 .. Len(recs) -> Seq(WordsOfAll(recs))]
<1>1. recs = [n \in 1 .. Len(recs) |-> recs[n]] /\ Len(recs) \in Nat /\ DOMAIN recs = 1 .. Len(recs)
  BY DEF IsSequence
<1> DEFINE W == WordsOfAll(recs)
<1>2. ASSUME NEW n \in 1 .. Len(recs) PROVE recs[n] \in Seq(W)
  <2> DEFINE r == recs[n]
  <2>1. Len(r) \in {2, 3} /\ (Len(r) = 3 => r = <<r[1], r[2], r[3]>>) /\ (Len(r) = 2 => r = <<r[1], r[2]>>)
    <3>1. IsRecord(r)
      BY <1>1
    <3>2. Len(r) \in {2, 3}
      BY <3>1, RecordFacts
    <3>3. Len(r) = 3 => r = <<r[1], r[2], r[3]>>
      BY <3>1, RecordFacts
    <3>4. Len(r) = 2 => r = <<r[1], r[2]>>
      BY <3>1, RecordFacts
    <3> QED BY <3>2, <3>3, <3>4
  <2>2. r[1] \in W /\ r[2] \in W /\ r[3] \in W
    BY DEF WordsOfAll
  <2> HIDE DEF W
  <2> DEFINE x == r[1]
             y == r[2]
             z == r[3]
  <2>3. x \in W /\ y \in W /\ z \in W
    BY <2>2
  <2>4. r = <<x, y, z>> \/ r = <<x, y>>
    BY <2>1
  <2> HIDE DEF x, y, z
  <2>5. <<x, y, z>> \in Seq(W) /\ <<x, y>> \in Seq(W)
    BY <2>3
  <2> QED BY <2>4, <2>5
<1> HIDE DEF W
<1>3. recs \in [1 .. Len(recs) -> Seq(W)]
  BY <1>1, <1>2
<1> QED BY <1>1, <1>3 DEF W

\* Each record lies in the file's words at its place.
LEMMA RecordsInBody ==
    ASSUME NEW recs, IsSequence(recs), \A n \in DOMAIN recs : IsRecord(recs[n]), recs # <<>>,
           NEW q, AreStarts(recs, q)
    PROVE  /\ Len(FlattenSeq(recs)) = q[Len(recs) + 1]
           /\ \A n \in 1 .. Len(recs) :
                 /\ q[n] + Len(recs[n]) <= Len(FlattenSeq(recs))
                 /\ \A j \in 1 .. Len(recs[n]) : FlattenSeq(recs)[q[n] + j] = recs[n][j]
<1> DEFINE N == Len(recs)
           S == WordsOfAll(recs)
           T == Seq(S)
           p == [n \in 1 .. N |-> q[n]]
           body == FlattenSeq(recs)
<1>1. /\ recs \in [1 .. N -> T] /\ N \in Nat /\ recs = [n \in 1 .. N |-> recs[n]]
  BY RecordsType
<1>2. N # 0
  <2>1. IsSequence(recs)
    OBVIOUS
  <2> QED BY <2>1 DEF IsSequence
<1>3. \A n \in 1 .. N : Len(recs[n]) \in Nat
  <2>1. \A n \in 1 .. N : recs[n] \in Seq(S)
    BY <1>1
  <2> HIDE DEF S, N
  <2> QED BY <2>1
<1>4. q \in [1 .. N + 1 -> Nat] /\ q[1] = 0 /\ \A n \in 1 .. N : q[n + 1] = q[n] + Len(recs[n])
  BY DEF AreStarts
<1>5. recs \in Seq(T) /\ Len(recs) = N
  <2> HIDE DEF N, T
  <2> QED BY <1>1, FunctionIsSequence
<1> HIDE DEF N, S
<1>6. p \in [1 .. N -> Nat] /\ \A n \in 1 .. N : p[n] = q[n] /\ q[n] \in Nat
  <2>1. \A n \in 1 .. N : n \in 1 .. N + 1
    BY <1>1
  <2>2. \A n \in 1 .. N : q[n] \in Nat
    BY <1>4, <2>1
  <2> QED BY <2>2
<1>7. ASSUME NEW n \in 1 .. N PROVE p[n] = IF n = 1 THEN 0 ELSE p[n - 1] + Len(recs[n - 1])
  <2>1. CASE n = 1
    BY <1>4, <1>6, <2>1
  <2>2. CASE n # 1
    <3>1. n - 1 \in 1 .. N /\ (n - 1) + 1 = n
      BY <1>1, <2>2
    <3>2. q[n] = q[n - 1] + Len(recs[n - 1])
      BY <1>4, <3>1
    <3>3. p[n] = q[n] /\ p[n - 1] = q[n - 1]
      BY <1>6, <3>1
    <3> QED BY <2>2, <3>2, <3>3
  <2> QED BY <2>1, <2>2
<1> HIDE DEF p
<1>8. ASSUME NEW n \in 1 .. N
      PROVE  /\ p[n] + Len(recs[n]) <= Len(body)
             /\ \A j \in 1 .. Len(recs[n]) : body[p[n] + j] = recs[n][j]
             /\ n = N => Len(body) = p[n] + Len(recs[n])
  <2>1. p \in [1 .. Len(recs) -> Nat] /\ n \in 1 .. Len(recs)
    BY <1>5, <1>6
  <2>2. \A m \in 1 .. Len(recs) : p[m] = IF m = 1 THEN 0 ELSE p[m - 1] + Len(recs[m - 1])
    BY <1>5, <1>7
  <2>3. recs \in Seq(Seq(S))
    BY <1>5
  <2> QED BY <1>5, <2>1, <2>2, <2>3, FlattenFacts
<1> HIDE DEF body, T
<1>9. Len(body) = q[N + 1]
  <2>1. N \in 1 .. N
    BY <1>1, <1>2
  <2>2. Len(body) = p[N] + Len(recs[N]) /\ p[N] = q[N]
    BY <1>6, <1>8, <2>1
  <2>3. q[N + 1] = q[N] + Len(recs[N])
    BY <1>4, <2>1
  <2> QED BY <2>2, <2>3
<1>10. ASSUME NEW n \in 1 .. N
       PROVE  /\ q[n] + Len(recs[n]) <= Len(body)
              /\ \A j \in 1 .. Len(recs[n]) : body[q[n] + j] = recs[n][j]
  <2>1. p[n] = q[n]
    BY <1>6
  <2>2. p[n] + Len(recs[n]) <= Len(body) /\ \A j \in 1 .. Len(recs[n]) : body[p[n] + j] = recs[n][j]
    BY <1>8
  <2> QED BY <2>1, <2>2
<1> QED BY <1>9, <1>10 DEF N, body

\* What b43-ivaldump prints of joined records: each of them, and nothing else.
LEMMA DumpOfRecords ==
    ASSUME NEW recs, IsSequence(recs), \A n \in DOMAIN recs : IsRecord(recs[n])
    PROVE  Dump(FlattenSeq(recs)) = [n \in 1 .. Len(recs) |-> PrintedRecord(recs[n])]
<1> DEFINE N == Len(recs)
           words == FlattenSeq(recs)
           ops == [n \in 1 .. N |-> PrintedRecord(recs[n])]
           V == {PrintedRecord(recs[n]) : n \in 1 .. N}
<1>1. N \in Nat /\ DOMAIN recs = 1 .. N
  BY RecordsType
<1>2. \A n \in 1 .. N : IsRecord(recs[n])
  BY <1>1
<1>3. ops \in Seq(V) /\ Len(ops) = N
  <2>1. ops \in [1 .. N -> V]
    OBVIOUS
  <2> HIDE DEF ops, V
  <2> QED BY <1>1, <2>1, FunctionIsSequence
<1>4. CASE recs = <<>>
  <2>1. N = 0 /\ words = <<>>
    BY <1>4, FlattenEmpty
  <2> DEFINE at == [n \in 1 .. 1 |-> 1]
  <2>2. ArePlaces(words, ops, at)
    <3>1. Len(ops) = 0
      BY <1>3, <2>1
    <3>2. Len(words) = 0
      BY <2>1
    <3>3. at \in [1 .. 0 + 1 -> 1 .. 0 + 1] /\ at[1] = 1 /\ at[0 + 1] = 0 + 1
      OBVIOUS
    <3> HIDE DEF at, words, ops
    <3> QED BY <3>1, <3>2, <3>3 DEF ArePlaces
  <2>3. Len(words) \in Nat
    BY <2>1
  <2> HIDE DEF at, words, ops, V
  <2>4. Dump(words) = ops
    BY <1>3, <2>2, <2>3, DumpIs
  <2> QED BY <2>4 DEF words, ops
<1>5. CASE recs # <<>>
  <2>1. \A n \in 1 .. N : Len(recs[n]) \in {2, 3}
    BY <1>2, RecordFacts
  <2>2. PICK q : AreStarts(recs, q)
    <3>1. \A n \in 1 .. N : Len(recs[n]) \in Nat
      BY <2>1
    <3> QED BY <1>1, <3>1, StartsExist
  <2>3. /\ Len(words) = q[N + 1]
        /\ \A n \in 1 .. N :
              /\ q[n] + Len(recs[n]) <= Len(words)
              /\ \A j \in 1 .. Len(recs[n]) : words[q[n] + j] = recs[n][j]
    BY <1>5, <2>2, RecordsInBody
  <2>4. q \in [1 .. N + 1 -> Nat] /\ q[1] = 0 /\ \A n \in 1 .. N : q[n + 1] = q[n] + Len(recs[n])
    BY <2>2 DEF AreStarts
  <2> DEFINE at == [n \in 1 .. N + 1 |-> q[n] + 1]
             L == Len(words)
  <2> HIDE DEF words, N
  <2>5. L \in Nat
    <3>1. N + 1 \in 1 .. N + 1
      BY <1>1
    <3> QED BY <2>3, <2>4, <3>1
  <2>6. ASSUME NEW n \in 1 .. N
        PROVE  DumpedOp(words, at[n]) = ops[n] /\ at[n] + RecordLen(words[at[n]]) = at[n + 1]
    <3> DEFINE r == recs[n]
               k == q[n] + 1
               l == Len(r)
    <3>1. n \in 1 .. N + 1 /\ n + 1 \in 1 .. N + 1
      BY <1>1
    <3>2. q[n] \in Nat /\ l \in {2, 3} /\ IsRecord(r) /\ q[n + 1] = q[n] + l
      BY <1>2, <2>1, <2>4, <3>1
    <3>3. \A j \in 1 .. l : words[q[n] + j] = r[j]
      BY <2>3
    <3>4. at[n] = k /\ at[n + 1] = q[n + 1] + 1 /\ ops[n] = PrintedRecord(r)
      BY <3>1
    <3> HIDE DEF at, ops, r, l
    <3>5. /\ k \in Nat /\ k + 1 = q[n] + 2 /\ k + 2 = q[n] + 3
          /\ 1 \in 1 .. l /\ 2 \in 1 .. l /\ (l = 3 => 3 \in 1 .. l)
      BY <3>2
    <3>6. words[k] = r[1] /\ words[q[n] + 2] = r[2] /\ (l = 3 => words[q[n] + 3] = r[3])
      BY <3>3, <3>5
    <3> HIDE DEF k
    <3>7. words[k + 1] = r[2] /\ (l = 3 => words[k + 2] = r[3])
      BY <3>5, <3>6
    <3>8. DumpedOp(words, k) = PrintedRecord(r) /\ RecordLen(words[k]) = l
      BY <3>2, <3>5, <3>6, <3>7, RecordIsPrinted DEF l
    <3>9. k + l = q[n + 1] + 1
      BY <3>2 DEF k
    <3> QED BY <3>4, <3>8, <3>9
  <2>7. at \in [1 .. N + 1 -> 1 .. L + 1] /\ at[1] = 1 /\ at[N + 1] = L + 1
    <3>1. ASSUME NEW n \in 1 .. N + 1 PROVE q[n] + 1 \in 1 .. L + 1
      <4>1. n \in 1 .. N \/ n = N + 1
        BY <1>1
      <4>2. q[n] \in Nat
        BY <2>4
      <4>3. CASE n = N + 1
        BY <2>3, <2>5, <4>2, <4>3
      <4>4. CASE n \in 1 .. N
        <5>1. q[n] + Len(recs[n]) <= L /\ Len(recs[n]) \in {2, 3}
          BY <2>1, <2>3, <4>4
        <5> QED BY <2>5, <4>2, <5>1
      <4> QED BY <4>1, <4>3, <4>4
    <3>2. 1 \in 1 .. N + 1 /\ N + 1 \in 1 .. N + 1
      BY <1>1
    <3>3. at \in [1 .. N + 1 -> 1 .. L + 1]
      BY <3>1
    <3>4. at[1] = q[1] + 1 /\ at[N + 1] = q[N + 1] + 1
      BY <3>2
    <3> QED BY <2>3, <2>4, <3>3, <3>4
  <2> HIDE DEF at, ops, V
  <2>8. ArePlaces(words, ops, at)
    BY <1>3, <2>6, <2>7 DEF ArePlaces
  <2>9. Dump(words) = ops
    BY <1>3, <2>5, <2>8, DumpIs
  <2> QED BY <2>9 DEF words, ops, N
<1> QED BY <1>4, <1>5

\* What b43-ivaldump prints of a finished file assembles to the same records again,
\* for every set of sources: the offset limit of initval_to_raw() keeps the flag of
\* 32-bit records free, so that the dump finds where each of them begins.
THEOREM DumpsAssembleToTheFile == Spec => []DumpsReturn
<1>1. Init => RecordInv
  BY RecordsAtFirst
<1>2. RecordInv /\ [Next]_vars => RecordInv'
  <2> SUFFICES ASSUME RecordInv, [Next]_vars PROVE RecordInv'
    OBVIOUS
  <2>1. IInv'
    BY StepInv DEF RecordInv
  <2> QED BY <2>1, OpsStep, WritesStep, RecordsStep DEF RecordInv
<1>3. RecordInv => DumpsReturn
  <2> SUFFICES ASSUME RecordInv, NEW n \in DOMAIN files
               PROVE  LET ops == Dump(Body(n))
                      IN  /\ \A k \in DOMAIN ops : ops[k] # IndexError
                          /\ [k \in DOMAIN ops |-> Raw(Writes(ops[k])[1])] = files[n].records
    BY DEF DumpsReturn
  <2> DEFINE recs == files[n].records
  <2>1. IsSequence(recs) /\ \A m \in DOMAIN recs : IsRecord(recs[m])
    BY DEF RecordInv, IInv, FilesWellFormed, FilesHaveRecords
  <2> HIDE DEF recs
  <2>2. recs = [k \in 1 .. Len(recs) |-> recs[k]] /\ DOMAIN recs = 1 .. Len(recs)
    BY <2>1, RecordsType
  <2> DEFINE ops == [k \in 1 .. Len(recs) |-> PrintedRecord(recs[k])]
  <2>3. Dump(Body(n)) = ops
    <3>1. Body(n) = FlattenSeq(recs)
      BY DEF Body, recs
    <3> QED BY <2>1, <3>1, DumpOfRecords
  <2>4. ASSUME NEW k \in 1 .. Len(recs)
        PROVE  ops[k] # IndexError /\ Raw(Writes(ops[k])[1]) = recs[k]
    <3>1. ops[k] = PrintedRecord(recs[k]) /\ IsRecord(recs[k])
      BY <2>1, <2>2
    <3> HIDE DEF ops
    <3> QED BY <3>1, RecordReturns
  <2>5. DOMAIN ops = 1 .. Len(recs)
    OBVIOUS
  <2> HIDE DEF ops
  <2>6. [k \in DOMAIN ops |-> Raw(Writes(ops[k])[1])] = recs
    BY <2>2, <2>4, <2>5
  <2> QED BY <2>3, <2>4, <2>5, <2>6 DEF recs
<1> QED BY <1>1, <1>2, <1>3, PTL DEF Spec
-----------------------------------------------------------------------------
\* The registers of the windows.
ShmControl   == \h160
ShmData      == \h164
ShmUpper     == \h166
TramControl  == \h130
TramData     == \h134
PhyControl   == \h3FC
PhyData      == \h3FE
RadioControl == \h3F6
RadioData    == \h3FA

\* A device with these registers and this memory.
Device(shm, phy, radio, tram, mem) ==
    [shm |-> shm, phy |-> phy, radio |-> radio, tram |-> tram, mem |-> mem]

IsDevice(dev) == dev = Device(dev.shm, dev.phy, dev.radio, dev.tram, dev.mem)

\* What is read from a file is what was written to it: 32-bit values whole, of
\* others the low half.
LEMMA ReadIsWritten ==
    ASSUME NEW o \in Nat, o <= OffsetLimit, NEW v
    PROVE  /\ Read(Raw(Iv(o, 32, v))) = Iv(o, 32, <<v[1], v[2]>>)
           /\ Read(Raw(Iv(o, 16, v))) = Iv(o, 16, <<0, v[2]>>)
<1>1. o + Flag32 \in Nat /\ o + Flag32 >= Flag32 /\ (o + Flag32) - Flag32 = o /\ ~(o >= Flag32)
  BY SMT DEF OffsetLimit, Flag32
<1>2. Raw(Iv(o, 32, v)) = <<o + Flag32, v[1], v[2]>>
  BY DEF Raw, Iv
<1>3. Raw(Iv(o, 16, v)) = <<o, v[2]>>
  BY DEF Raw, Iv
<1>4. ASSUME NEW r, NEW a, NEW b, r = <<o + Flag32, a, b>>
      PROVE  Read(r) = Iv(o, 32, <<a, b>>)
  <2>1. r[1] = o + Flag32 /\ r[2] = a /\ r[3] = b
    BY <1>4
  <2>2. IsDword(r[1]) /\ r[1] - Flag32 = o
    BY <1>1, <2>1 DEF IsDword
  <2> QED BY <2>1, <2>2 DEF Read
<1>5. ASSUME NEW r, NEW b, r = <<o, b>>
      PROVE  Read(r) = Iv(o, 16, <<0, b>>)
  <2>1. r[1] = o /\ r[2] = b
    BY <1>5
  <2>2. ~IsDword(r[1])
    BY <1>1, <2>1 DEF IsDword
  <2> QED BY <2>1, <2>2 DEF Read
<1> QED BY <1>2, <1>3, <1>4, <1>5

\* Writes to the control registers.
LEMMA ControlWrites ==
    ASSUME NEW dev, IsDevice(dev), NEW v
    PROVE  /\ Written(dev, Iv(ShmControl, 32, v)) = Device(v, dev.phy, dev.radio, dev.tram, dev.mem)
           /\ Written(dev, Iv(TramControl, 32, v)) = Device(dev.shm, dev.phy, dev.radio, v, dev.mem)
           /\ Written(dev, Iv(PhyControl, 16, v)) = Device(dev.shm, v[2], dev.radio, dev.tram, dev.mem)
           /\ Written(dev, Iv(RadioControl, 16, v)) = Device(dev.shm, dev.phy, v[2], dev.tram, dev.mem)
<1>1. Written(dev, Iv(ShmControl, 32, v)) = [dev EXCEPT !.shm = v]
  BY DEF Written, Iv, ShmControl, ShmData, ShmUpper, TramControl, TramData, PhyControl, PhyData,
         RadioControl, RadioData
<1>2. Written(dev, Iv(TramControl, 32, v)) = [dev EXCEPT !.tram = v]
  BY DEF Written, Iv, ShmControl, ShmData, ShmUpper, TramControl, TramData, PhyControl, PhyData,
         RadioControl, RadioData
<1>3. Written(dev, Iv(PhyControl, 16, v)) = [dev EXCEPT !.phy = v[2]]
  BY DEF Written, Iv, ShmControl, ShmData, ShmUpper, TramControl, TramData, PhyControl, PhyData,
         RadioControl, RadioData
<1>4. Written(dev, Iv(RadioControl, 16, v)) = [dev EXCEPT !.radio = v[2]]
  BY DEF Written, Iv, ShmControl, ShmData, ShmUpper, TramControl, TramData, PhyControl, PhyData,
         RadioControl, RadioData
<1> QED BY <1>1, <1>2, <1>3, <1>4 DEF IsDevice, Device

\* The device with another memory.
Changed(dev, mem) == Device(dev.shm, dev.phy, dev.radio, dev.tram, mem)

LEMMA PutChanges ==
    ASSUME NEW dev, IsDevice(dev), NEW a, NEW b, NEW v
    PROVE  /\ Put(dev, a, v) = Changed(dev, With(dev.mem, a, v))
           /\ PutPair(dev, a, b, v) = Changed(dev, WithPair(dev.mem, a, b, v))
<1> DEFINE m == With(dev.mem, a, v)
           n == WithPair(dev.mem, a, b, v)
<1>1. Put(dev, a, v) = [dev EXCEPT !.mem = m] /\ PutPair(dev, a, b, v) = [dev EXCEPT !.mem = n]
  BY DEF Put, PutPair
<1> HIDE DEF m, n
<1>2. [dev EXCEPT !.mem = m] = Changed(dev, m) /\ [dev EXCEPT !.mem = n] = Changed(dev, n)
  BY DEF Changed, IsDevice, Device
<1> QED BY <1>1, <1>2 DEF m, n

\* Writes to the data registers.
LEMMA DataWrites ==
    ASSUME NEW dev, IsDevice(dev), NEW v
    PROVE  /\ Written(dev, Iv(ShmData, 32, v)) =
                Changed(dev, WithPair(dev.mem, <<"shm", dev.shm, 0>>, <<"shm", dev.shm, 1>>, v))
           /\ Written(dev, Iv(ShmData, 16, v)) = Changed(dev, With(dev.mem, <<"shm", dev.shm, 0>>, v[2]))
           /\ Written(dev, Iv(ShmUpper, 16, v)) = Changed(dev, With(dev.mem, <<"shm", dev.shm, 1>>, v[2]))
           /\ Written(dev, Iv(TramData, 32, v)) =
                Changed(dev, WithPair(dev.mem, <<"tram", dev.tram, 0>>, <<"tram", dev.tram, 1>>, v))
           /\ Written(dev, Iv(PhyData, 16, v)) = Changed(dev, With(dev.mem, <<"phy", dev.phy, 0>>, v[2]))
           /\ Written(dev, Iv(RadioData, 16, v)) = Changed(dev, With(dev.mem, <<"radio", dev.radio, 0>>, v[2]))
<1>1. Written(dev, Iv(ShmData, 32, v)) = PutPair(dev, <<"shm", dev.shm, 0>>, <<"shm", dev.shm, 1>>, v)
  BY DEF Written, Iv, ShmControl, ShmData, ShmUpper, TramControl, TramData, PhyControl, PhyData,
         RadioControl, RadioData
<1>2. Written(dev, Iv(ShmData, 16, v)) = Put(dev, <<"shm", dev.shm, 0>>, v[2])
  BY DEF Written, Iv, ShmControl, ShmData, ShmUpper, TramControl, TramData, PhyControl, PhyData,
         RadioControl, RadioData
<1>3. Written(dev, Iv(ShmUpper, 16, v)) = Put(dev, <<"shm", dev.shm, 1>>, v[2])
  BY DEF Written, Iv, ShmControl, ShmData, ShmUpper, TramControl, TramData, PhyControl, PhyData,
         RadioControl, RadioData
<1>4. Written(dev, Iv(TramData, 32, v)) = PutPair(dev, <<"tram", dev.tram, 0>>, <<"tram", dev.tram, 1>>, v)
  BY DEF Written, Iv, ShmControl, ShmData, ShmUpper, TramControl, TramData, PhyControl, PhyData,
         RadioControl, RadioData
<1>5. Written(dev, Iv(PhyData, 16, v)) = Put(dev, <<"phy", dev.phy, 0>>, v[2])
  BY DEF Written, Iv, ShmControl, ShmData, ShmUpper, TramControl, TramData, PhyControl, PhyData,
         RadioControl, RadioData
<1>6. Written(dev, Iv(RadioData, 16, v)) = Put(dev, <<"radio", dev.radio, 0>>, v[2])
  BY DEF Written, Iv, ShmControl, ShmData, ShmUpper, TramControl, TramData, PhyControl, PhyData,
         RadioControl, RadioData
<1> QED BY <1>1, <1>2, <1>3, <1>4, <1>5, <1>6, PutChanges

\* Writes to other registers.
LEMMA RegisterWrites ==
    ASSUME NEW dev, IsDevice(dev), NEW o \in Nat, o \notin WindowRegisters, NEW v
    PROVE  /\ Written(dev, Iv(o, 16, v)) = Changed(dev, With(dev.mem, <<"mmio", o, 0>>, v[2]))
           /\ Written(dev, Iv(o, 32, v)) =
                Changed(dev, WithPair(dev.mem, <<"mmio", o, 0>>, <<"mmio", o + 2, 0>>, v))
<1>1. o \notin {ShmControl, ShmData, ShmUpper, TramControl, TramData, PhyControl, PhyData, RadioControl, RadioData}
  BY DEF WindowRegisters, ShmControl, ShmData, ShmUpper, TramControl, TramData, PhyControl, PhyData,
         RadioControl, RadioData
<1>2. ASSUME NEW z \in {16, 32}
      PROVE  Written(dev, Iv(o, z, v)) =
                IF z = 16 THEN Put(dev, <<"mmio", o, 0>>, v[2])
                ELSE PutPair(dev, <<"mmio", o, 0>>, <<"mmio", o + 2, 0>>, v)
  <2> DEFINE iv == Iv(o, z, v)
  <2>1. iv.offset = o /\ iv.size = z /\ iv.value = v
    BY DEF Iv
  <2> HIDE DEF iv
  <2>2. Written(dev, iv) = IF iv.size = 16 THEN Put(dev, <<"mmio", iv.offset, 0>>, iv.value[2])
                           ELSE PutPair(dev, <<"mmio", iv.offset, 0>>, <<"mmio", iv.offset + 2, 0>>, iv.value)
    BY <1>1, <2>1 DEF Written, ShmControl, ShmData, ShmUpper, TramControl, TramData, PhyControl, PhyData,
         RadioControl, RadioData
  <2> QED BY <2>1, <2>2 DEF iv
<1>3. Written(dev, Iv(o, 16, v)) = Put(dev, <<"mmio", o, 0>>, v[2])
  BY <1>2
<1>4. Written(dev, Iv(o, 32, v)) = PutPair(dev, <<"mmio", o, 0>>, <<"mmio", o + 2, 0>>, v)
  BY <1>2
<1> QED BY <1>3, <1>4, PutChanges
-----------------------------------------------------------------------------
\* The writes of an operation, as they are read from a file, one after the other.
Applied(dev, w) ==
    IF Len(w) = 1 THEN Written(dev, Read(Raw(w[1])))
    ELSE Written(Written(dev, Read(Raw(w[1]))), Read(Raw(w[2])))

\* An operation's writes leave a device with the memory the operation means.
Means(dev, op) ==
    /\ Len(Writes(op)) \in {1, 2}
    /\ IsDevice(Applied(dev, Writes(op)))
    /\ Applied(dev, Writes(op)).mem = Meant(dev.mem, op)

LEMMA ChangedFacts ==
    ASSUME NEW dev, NEW mem
    PROVE  /\ IsDevice(Changed(dev, mem)) /\ Changed(dev, mem).mem = mem
           /\ Changed(dev, mem).shm = dev.shm /\ Changed(dev, mem).phy = dev.phy
           /\ Changed(dev, mem).radio = dev.radio /\ Changed(dev, mem).tram = dev.tram
BY DEF Changed, IsDevice, Device

LEMMA DeviceFacts ==
    ASSUME NEW a, NEW b, NEW c, NEW d, NEW mem
    PROVE  LET dev == Device(a, b, c, d, mem)
           IN  /\ IsDevice(dev) /\ dev.shm = a /\ dev.phy = b /\ dev.radio = c
               /\ dev.tram = d /\ dev.mem = mem
BY DEF IsDevice, Device

\* An operation that is one write, or a write of a window's control register and
\* one of its data register.
LEMMA OneWrite ==
    ASSUME NEW dev, NEW op, NEW a, Writes(op) = <<a>>, NEW mem,
           Written(dev, Read(Raw(a))) = Changed(dev, mem), mem = Meant(dev.mem, op)
    PROVE  Means(dev, op)
<1>1. Len(Writes(op)) = 1 /\ Writes(op)[1] = a
  OBVIOUS
<1>2. Applied(dev, Writes(op)) = Changed(dev, mem)
  BY <1>1 DEF Applied
<1> QED BY <1>1, <1>2, ChangedFacts DEF Means

LEMMA TwoWrites ==
    ASSUME NEW dev, NEW op, NEW a, NEW b, Writes(op) = <<a, b>>, NEW next, NEW mem,
           Written(dev, Read(Raw(a))) = next,
           Written(next, Read(Raw(b))) = Changed(next, mem), mem = Meant(dev.mem, op)
    PROVE  Means(dev, op)
<1>1. Len(Writes(op)) = 2 /\ Writes(op)[1] = a /\ Writes(op)[2] = b
  OBVIOUS
<1>2. Applied(dev, Writes(op)) = Changed(next, mem)
  BY <1>1 DEF Applied
<1> QED BY <1>1, <1>2, ChangedFacts DEF Means

LEMMA PairsOfHalves ==
    ASSUME NEW m, NEW l, NEW h, NEW v
    PROVE  WithPair(m, l, h, <<v[1], v[2]>>) = WithPair(m, l, h, v)
BY DEF WithPair

HardwareRegisters == {ShmControl, ShmData, ShmUpper, TramControl, TramData, PhyControl, PhyData, RadioControl, RadioData}

LEMMA HardwareRead ==
    ASSUME NEW o \in HardwareRegisters, NEW v
    PROVE  /\ Read(Raw(Iv(o, 32, v))) = Iv(o, 32, <<v[1], v[2]>>)
           /\ Read(Raw(Iv(o, 16, v))) = Iv(o, 16, <<0, v[2]>>)
<1>1. o \in Nat /\ o <= OffsetLimit
  BY SMT DEF OffsetLimit, HardwareRegisters, ShmControl, ShmData, ShmUpper, TramControl, TramData, PhyControl, PhyData,
         RadioControl, RadioData
<1> QED BY <1>1, ReadIsWritten

LEMMA RegisterMeans ==
    ASSUME NEW dev, IsDevice(dev), NEW op, op.type \in {"mmio16", "mmio32"}, op.offset \in Nat,
           op.offset <= OffsetLimit, ~Bypasses(op)
    PROVE  Means(dev, op)
<1> DEFINE o == op.offset
           v == op.value
<1>1. o \in Nat /\ o <= OffsetLimit /\ o \notin WindowRegisters
  BY DEF Bypasses
<1>2. CASE op.type = "mmio16"
  <2> DEFINE a == Iv(o, 16, v)
             mem == With(dev.mem, <<"mmio", o, 0>>, v[2])
  <2>1. Writes(op) = <<a>>
    BY <1>2 DEF Writes
  <2>2. Meant(dev.mem, op) = mem
    BY <1>2 DEF Meant
  <2> HIDE DEF o, v
  <2>3. Read(Raw(a)) = Iv(o, 16, <<0, v[2]>>)
    BY <1>1, ReadIsWritten
  <2> DEFINE u == <<0, v[2]>>
  <2>4. u[2] = v[2]
    OBVIOUS
  <2> HIDE DEF u
  <2>5. Written(dev, Iv(o, 16, u)) = Changed(dev, With(dev.mem, <<"mmio", o, 0>>, u[2]))
    BY <1>1, RegisterWrites
  <2>6. Written(dev, Read(Raw(a))) = Changed(dev, mem)
    BY <2>3, <2>4, <2>5 DEF u
  <2> HIDE DEF a, mem
  <2> QED BY <2>1, <2>2, <2>6, OneWrite
<1>3. CASE op.type = "mmio32"
  <2> DEFINE a == Iv(o, 32, v)
             mem == WithPair(dev.mem, <<"mmio", o, 0>>, <<"mmio", o + 2, 0>>, v)
  <2>1. Writes(op) = <<a>>
    BY <1>3 DEF Writes
  <2>2. Meant(dev.mem, op) = mem
    BY <1>3 DEF Meant
  <2> HIDE DEF o, v
  <2> DEFINE u == <<v[1], v[2]>>
  <2>3. Read(Raw(a)) = Iv(o, 32, u)
    BY <1>1, ReadIsWritten
  <2>4. WithPair(dev.mem, <<"mmio", o, 0>>, <<"mmio", o + 2, 0>>, u) = mem
    BY PairsOfHalves
  <2> HIDE DEF u
  <2>5. Written(dev, Iv(o, 32, u)) = Changed(dev, WithPair(dev.mem, <<"mmio", o, 0>>, <<"mmio", o + 2, 0>>, u))
    BY <1>1, RegisterWrites
  <2>6. Written(dev, Read(Raw(a))) = Changed(dev, mem)
    BY <2>3, <2>4, <2>5
  <2> HIDE DEF a, mem
  <2> QED BY <2>1, <2>2, <2>6, OneWrite
<1> QED BY <1>2, <1>3

LEMMA WindowMeans ==
    ASSUME NEW dev, IsDevice(dev), NEW op, op.type \in {"phy", "radio", "tram"}
    PROVE  Means(dev, op)
<1> DEFINE h == Halves(op.offset)
           v == op.value
           u == <<0, v[2]>>
           w == <<v[1], v[2]>>
           g == <<0, h[2]>>
           k == <<h[1], h[2]>>
<1>1. h = k /\ h[2] = op.offset % 65536
  BY DEF Halves
<1>2. u[2] = v[2] /\ g[2] = h[2]
  OBVIOUS
<1>3. \A m, l, c : WithPair(m, l, c, w) = WithPair(m, l, c, v)
  BY PairsOfHalves
<1>4. CASE op.type = "phy"
  <2> DEFINE a == Iv(PhyControl, 16, h)
             b == Iv(PhyData, 16, v)
             next == Device(dev.shm, h[2], dev.radio, dev.tram, dev.mem)
             mem == With(dev.mem, <<"phy", h[2], 0>>, v[2])
  <2>1. Writes(op) = <<a, b>>
    BY <1>4 DEF Writes, PhyWrites, PhyControl, PhyData
  <2>2. Meant(dev.mem, op) = mem
    BY <1>1, <1>4 DEF Meant
  <2> HIDE DEF h, v
  <2>3. Read(Raw(a)) = Iv(PhyControl, 16, g) /\ Read(Raw(b)) = Iv(PhyData, 16, u)
    <3>1. PhyControl \in HardwareRegisters /\ PhyData \in HardwareRegisters
      BY DEF HardwareRegisters
    <3> QED BY <3>1, HardwareRead
  <2> HIDE DEF g, u, a, b
  <2>4. Written(dev, Read(Raw(a))) = next
    BY <1>2, <2>3, ControlWrites
  <2>5. IsDevice(next) /\ next.phy = h[2] /\ next.mem = dev.mem
    BY DeviceFacts
  <2> HIDE DEF next
  <2>6. Written(next, Read(Raw(b))) = Changed(next, mem)
    <3>1. Written(next, Iv(PhyData, 16, u)) = Changed(next, With(next.mem, <<"phy", next.phy, 0>>, u[2]))
      BY <2>5, DataWrites
    <3> QED BY <1>2, <2>3, <2>5, <3>1
  <2> HIDE DEF mem
  <2> QED BY <2>1, <2>2, <2>4, <2>6, TwoWrites
<1>5. CASE op.type = "radio"
  <2> DEFINE a == Iv(RadioControl, 16, h)
             b == Iv(RadioData, 16, v)
             next == Device(dev.shm, dev.phy, h[2], dev.tram, dev.mem)
             mem == With(dev.mem, <<"radio", h[2], 0>>, v[2])
  <2>1. Writes(op) = <<a, b>>
    BY <1>5 DEF Writes, RadioWrites, RadioControl, RadioData
  <2>2. Meant(dev.mem, op) = mem
    BY <1>1, <1>5 DEF Meant
  <2> HIDE DEF h, v
  <2>3. Read(Raw(a)) = Iv(RadioControl, 16, g) /\ Read(Raw(b)) = Iv(RadioData, 16, u)
    <3>1. RadioControl \in HardwareRegisters /\ RadioData \in HardwareRegisters
      BY DEF HardwareRegisters
    <3> QED BY <3>1, HardwareRead
  <2> HIDE DEF g, u, a, b
  <2>4. Written(dev, Read(Raw(a))) = next
    BY <1>2, <2>3, ControlWrites
  <2>5. IsDevice(next) /\ next.radio = h[2] /\ next.mem = dev.mem
    BY DeviceFacts
  <2> HIDE DEF next
  <2>6. Written(next, Read(Raw(b))) = Changed(next, mem)
    <3>1. Written(next, Iv(RadioData, 16, u)) = Changed(next, With(next.mem, <<"radio", next.radio, 0>>, u[2]))
      BY <2>5, DataWrites
    <3> QED BY <1>2, <2>3, <2>5, <3>1
  <2> HIDE DEF mem
  <2> QED BY <2>1, <2>2, <2>4, <2>6, TwoWrites
<1>6. CASE op.type = "tram"
  <2> DEFINE a == Iv(TramControl, 32, h)
             b == Iv(TramData, 32, v)
             next == Device(dev.shm, dev.phy, dev.radio, h, dev.mem)
             mem == WithPair(dev.mem, <<"tram", h, 0>>, <<"tram", h, 1>>, v)
  <2>1. Writes(op) = <<a, b>>
    BY <1>6 DEF Writes, TramWrites, TramControl, TramData
  <2>2. Meant(dev.mem, op) = mem
    BY <1>6 DEF Meant
  <2> HIDE DEF h, v
  <2>3. Read(Raw(a)) = Iv(TramControl, 32, k) /\ Read(Raw(b)) = Iv(TramData, 32, w)
    <3>1. TramControl \in HardwareRegisters /\ TramData \in HardwareRegisters
      BY DEF HardwareRegisters
    <3> QED BY <3>1, HardwareRead
  <2> HIDE DEF k, w, a, b
  <2>4. Written(dev, Read(Raw(a))) = next
    BY <1>1, <2>3, ControlWrites
  <2>5. IsDevice(next) /\ next.tram = h /\ next.mem = dev.mem
    BY DeviceFacts
  <2> HIDE DEF next
  <2>6. Written(next, Iv(TramData, 32, w)) =
           Changed(next, WithPair(next.mem, <<"tram", next.tram, 0>>, <<"tram", next.tram, 1>>, w))
    BY <2>5, DataWrites
  <2>7. Written(next, Read(Raw(b))) = Changed(next, mem)
    BY <1>3, <2>3, <2>5, <2>6
  <2> HIDE DEF mem
  <2> QED BY <2>1, <2>2, <2>4, <2>7, TwoWrites
<1> QED BY <1>4, <1>5, <1>6

\* Byte addresses of the halves of a cell.
LEMMA HalfAddresses ==
    ASSUME NEW o \in Nat
    PROVE  /\ o % 4 = 0 => /\ (o \div 2) % 2 = 0 /\ (o + 2) \div 4 = o \div 4
                           /\ ((o + 2) \div 2) % 2 = 1
           /\ (o % 4 # 0 /\ o % 2 # 1) => (o \div 2) % 2 = 1
OBVIOUS

\* The cell that the control register selects, as the source addresses it.
LEMMA SelectedCell ==
    ASSUME NEW op, op.offset \in Nat
    PROVE  LET r == op.routing
               o == op.offset
               c == ControlWord(r, CellOf(r, o)).value
           IN  /\ ControlWord(r, CellOf(r, o)) = Iv(ShmControl, 32, c) /\ c = <<c[1], c[2]>>
               /\ ~IsUnaligned(r, o) => ShmCell(r, o, 0) = <<"shm", c, 0>>
               /\ ~IsUnaligned(r, o) => ShmCell(r, o, 1) = <<"shm", c, 1>>
               /\ (IsUnaligned(r, o) /\ o % 2 # 1) => ShmCell(r, o, 0) = <<"shm", c, 1>>
<1> DEFINE r == op.routing
           o == op.offset
           c == ControlWord(r, CellOf(r, o)).value
<1>1. ControlWord(r, CellOf(r, o)) = Iv(ShmControl, 32, <<r % 65536, CellOf(r, o) % 65536>>)
  BY SMT DEF ControlWord, ShmControl
<1>2. c = <<r % 65536, CellOf(r, o) % 65536>>
  BY <1>1, SMT DEF Iv
<1>3. c = <<c[1], c[2]>> /\ ControlWord(r, CellOf(r, o)) = Iv(ShmControl, 32, c)
  BY <1>1, <1>2, SMT
<1>4. /\ o % 4 = 0 => (o \div 2) % 2 = 0 /\ (o + 2) \div 4 = o \div 4 /\ ((o + 2) \div 2) % 2 = 1
      /\ (o % 4 # 0 /\ o % 2 # 1) => (o \div 2) % 2 = 1
  BY HalfAddresses
<1>5. CASE IsShared(r)
  <2> DEFINE e == <<r % 65536, (o \div 4) % 65536>>
  <2>1. c = e
    BY <1>2, <1>5, SMT DEF CellOf
  <2>2. \A p : SharedCell(r, p) = <<"shm", <<r % 65536, (p \div 4) % 65536>>, (p \div 2) % 2>>
    BY SMT DEF SharedCell
  <2>3. SharedCell(r, o) = <<"shm", e, (o \div 2) % 2>>
    BY <2>2, SMT
  <2>4. o % 4 = 0 => SharedCell(r, o + 2) = <<"shm", e, 1>>
    BY <1>4, <2>2, SMT
  <2>5. ShmCell(r, o, 0) = SharedCell(r, o) /\ ShmCell(r, o, 1) = SharedCell(r, o + 2)
    BY <1>5, SMT DEF ShmCell
  <2>6. IsUnaligned(r, o) <=> o % 4 # 0
    BY <1>5, SMT DEF IsUnaligned
  <2> HIDE DEF e, c
  <2> QED BY <1>3, <1>4, <1>5, <2>1, <2>3, <2>4, <2>5, <2>6 DEF c
<1>6. CASE ~IsShared(r)
  <2>1. c = <<r % 65536, o % 65536>>
    BY <1>2, <1>6, SMT DEF CellOf
  <2>2. \A half : ShmCell(r, o, half) = <<"shm", <<r % 65536, o % 65536>>, half>>
    BY <1>6, SMT DEF ShmCell
  <2>3. ShmCell(r, o, 0) = <<"shm", c, 0>> /\ ShmCell(r, o, 1) = <<"shm", c, 1>>
    BY <2>1, <2>2, SMT
  <2>4. ~IsUnaligned(r, o)
    BY <1>6, SMT DEF IsUnaligned
  <2> HIDE DEF c
  <2> QED BY <1>3, <1>6, <2>3, <2>4 DEF c
<1> QED BY <1>5, <1>6

LEMMA SharedMeans ==
    ASSUME NEW dev, IsDevice(dev), NEW op, op.type \in {"shm16", "shm32"}, op.offset \in Nat,
           ~Misaligned(op)
    PROVE  Means(dev, op)
<1> DEFINE r == op.routing
           o == op.offset
           v == op.value
           a == ControlWord(r, CellOf(r, o))
           c == a.value
           w == <<v[1], v[2]>>
           u == <<0, v[2]>>
           next == Device(c, dev.phy, dev.radio, dev.tram, dev.mem)
<1>1. a = Iv(ShmControl, 32, c) /\ c = <<c[1], c[2]>>
  BY SelectedCell
<1>2. ~IsUnaligned(r, o) => ShmCell(r, o, 0) = <<"shm", c, 0>> /\ ShmCell(r, o, 1) = <<"shm", c, 1>>
  BY SelectedCell
<1>3. (IsUnaligned(r, o) /\ o % 2 # 1) => ShmCell(r, o, 0) = <<"shm", c, 1>>
  BY SelectedCell
<1>4. IsUnaligned(r, o) => IsShared(r)
  BY DEF IsUnaligned
<1>5. ShmControl \in HardwareRegisters /\ ShmData \in HardwareRegisters /\ ShmUpper \in HardwareRegisters
  BY DEF HardwareRegisters
<1>6. u[2] = v[2] /\ \A m, x, y : WithPair(m, x, y, w) = WithPair(m, x, y, v)
  BY PairsOfHalves
<1>7. Written(dev, Read(Raw(a))) = next
  <2> HIDE DEF a, c
  <2>1. Read(Raw(a)) = Iv(ShmControl, 32, c)
    <3>1. Read(Raw(Iv(ShmControl, 32, c))) = Iv(ShmControl, 32, <<c[1], c[2]>>)
      BY <1>5, HardwareRead
    <3> QED BY <1>1, <3>1
  <2> QED BY <2>1, ControlWrites
<1>8. IsDevice(next) /\ next.shm = c /\ next.mem = dev.mem
  <2> HIDE DEF c
  <2> QED BY DeviceFacts
<1>9. CASE op.type = "shm16"
  <2> DEFINE reg == IF IsUnaligned(r, o) THEN ShmUpper ELSE ShmData
             half == IF IsUnaligned(r, o) THEN 1 ELSE 0
             b == Iv(reg, 16, v)
             mem == With(dev.mem, <<"shm", c, half>>, v[2])
  <2>1. Writes(op) = <<a, b>>
    <3>1. Writes(op) = Shm16Writes(r, o, v)
      BY <1>9 DEF Writes
    <3> QED BY <3>1 DEF Shm16Writes, ShmUpper, ShmData
  <2>2. ShmCell(r, o, 0) = <<"shm", c, half>>
    <3>1. IsUnaligned(r, o) => o % 2 # 1
      BY <1>4, <1>9 DEF Misaligned
    <3> HIDE DEF c, r, o
    <3> QED BY <1>2, <1>3, <3>1
  <2>3. Meant(dev.mem, op) = mem
    <3>1. Meant(dev.mem, op) = With(dev.mem, ShmCell(r, o, 0), v[2])
      BY <1>9 DEF Meant
    <3> HIDE DEF c, r, o, v, half
    <3> QED BY <2>2, <3>1
  <2> HIDE DEF a, c, r, o, v, next
  <2>4. Read(Raw(b)) = Iv(reg, 16, u)
    BY <1>5, HardwareRead
  <2> HIDE DEF u, b
  <2>5. Written(next, Iv(reg, 16, u)) = Changed(next, With(next.mem, <<"shm", next.shm, half>>, u[2]))
    BY <1>8, DataWrites
  <2> HIDE DEF reg, half
  <2>6. Written(next, Read(Raw(b))) = Changed(next, mem)
    BY <1>6, <1>8, <2>4, <2>5
  <2> HIDE DEF mem
  <2> QED BY <1>7, <2>1, <2>3, <2>6, TwoWrites
<1>10. CASE op.type = "shm32"
  <2> DEFINE b == Iv(ShmData, 32, v)
             mem == WithPair(dev.mem, <<"shm", c, 0>>, <<"shm", c, 1>>, v)
  <2>0. ~IsUnaligned(r, o)
    BY <1>10 DEF Misaligned
  <2>1. Writes(op) = <<a, b>>
    <3>1. Writes(op) = Shm32Writes(r, o, v)
      BY <1>10 DEF Writes
    <3> QED BY <2>0, <3>1 DEF Shm32Writes, ShmData
  <2>3. Meant(dev.mem, op) = mem
    <3>1. Meant(dev.mem, op) = WithPair(dev.mem, ShmCell(r, o, 0), ShmCell(r, o, 1), v)
      BY <1>10 DEF Meant
    <3> HIDE DEF c, r, o, v
    <3> QED BY <1>2, <2>0, <3>1
  <2> HIDE DEF a, c, r, o, v, next
  <2>4. Read(Raw(b)) = Iv(ShmData, 32, w)
    BY <1>5, HardwareRead
  <2> HIDE DEF w, b
  <2>5. Written(next, Iv(ShmData, 32, w)) =
           Changed(next, WithPair(next.mem, <<"shm", next.shm, 0>>, <<"shm", next.shm, 1>>, w))
    BY <1>8, DataWrites
  <2>6. Written(next, Read(Raw(b))) = Changed(next, mem)
    BY <1>6, <1>8, <2>4, <2>5
  <2> HIDE DEF mem
  <2> QED BY <1>7, <2>1, <2>3, <2>6, TwoWrites
<1> QED BY <1>9, <1>10

\* Whatever the control registers were left at before, an operation's writes leave
\* the memory it means.
LEMMA OperationMeans ==
    ASSUME NEW dev, IsDevice(dev), NEW op, op.type \in OpTypes, op.offset \in Nat,
           ~Misaligned(op), ~Bypasses(op),
           \A m \in DOMAIN Writes(op) : ~TooBig(Writes(op)[m])
    PROVE  Means(dev, op)
<1>1. CASE op.type \in {"mmio16", "mmio32"}
  <2>1. \E z : Writes(op) = <<Iv(op.offset, z, op.value)>>
    BY <1>1 DEF Writes
  <2>2. PICK a : Writes(op) = <<a>> /\ a.offset = op.offset
    BY <2>1 DEF Iv
  <2>3. ~TooBig(a)
    BY <2>2
  <2>4. OffsetLimit \in Nat
    BY SMT DEF OffsetLimit
  <2>5. op.offset <= OffsetLimit
    BY <2>2, <2>3, <2>4 DEF TooBig
  <2> QED BY <1>1, <2>5, RegisterMeans
<1>2. CASE op.type \in {"phy", "radio", "tram"}
  BY <1>2, WindowMeans
<1>3. CASE op.type \in {"shm16", "shm32"}
  BY <1>3, SharedMeans
<1> QED BY <1>1, <1>2, <1>3 DEF OpTypes
-----------------------------------------------------------------------------
\* The device and the memory, one record and one operation after the other.
IsLoading(records, f) ==
    f = [n \in 0 .. Len(records) |-> IF n = 0 THEN Reset ELSE Written(f[n - 1], Read(records[n]))]

IsMeaning(ops, f) ==
    f = [n \in 0 .. Len(ops) |-> IF n = 0 THEN <<>> ELSE Meant(f[n - 1], ops[n])]

LEMMA LoadingExists ==
    ASSUME NEW records, Len(records) \in Nat
    PROVE  \E f : IsLoading(records, f)
<1> DEFINE N == Len(records)
           Next1(x, n) == Written(x, Read(records[n]))
           Good(m, f) == \A n \in 0 .. m : f[n] = IF n = 0 THEN Reset ELSE Next1(f[n - 1], n)
           Bad == {m \in Nat : ~ \E f : Good(m, f)}
<1> HIDE DEF Next1
<1>1. Bad = {}
  <2> SUFFICES ASSUME Bad # {} PROVE FALSE
    OBVIOUS
  <2>1. PICK m \in Bad : \A x \in Bad : m <= x
    <3>1. Bad \subseteq Nat
      OBVIOUS
    <3> HIDE DEF Bad
    <3> QED BY <3>1, LeastNatural
  <2>2. m # 0
    <3>1. Good(0, [n \in 0 .. 0 |-> Reset])
      OBVIOUS
    <3> HIDE DEF Good
    <3> QED BY <2>1, <3>1
  <2>3. m \in Nat /\ m - 1 \in Nat /\ m - 1 < m
    BY <2>1, <2>2
  <2>4. PICK f : Good(m - 1, f)
    <3>1. m - 1 \notin Bad
      <4> HIDE DEF Bad
      <4> QED BY <2>1, <2>3
    <3> HIDE DEF Good
    <3> QED BY <2>3, <3>1
  <2> DEFINE g == [n \in 0 .. m |-> IF n = m THEN Next1(f[m - 1], m) ELSE f[n]]
  <2>5. Good(m, g)
    <3> SUFFICES ASSUME NEW n \in 0 .. m
                 PROVE  g[n] = IF n = 0 THEN Reset ELSE Next1(g[n - 1], n)
      OBVIOUS
    <3>1. CASE n = m
      BY <2>2, <2>3, <3>1
    <3>2. CASE n # m
      <4>1. n \in 0 .. m - 1 /\ g[n] = f[n] /\ (n # 0 => n - 1 \in 0 .. m /\ n - 1 # m)
        BY <2>3, <3>2
      <4> QED BY <2>4, <4>1
    <3> QED BY <3>1, <3>2
  <2> HIDE DEF Good, g
  <2> QED BY <2>1, <2>5
<1>2. PICK f : Good(N, f)
  BY <1>1
<1> DEFINE g == [n \in 0 .. N |-> f[n]]
<1>3. g = [n \in 0 .. N |-> IF n = 0 THEN Reset ELSE Next1(g[n - 1], n)]
  <2> SUFFICES ASSUME NEW n \in 0 .. N
               PROVE  g[n] = IF n = 0 THEN Reset ELSE Next1(g[n - 1], n)
    OBVIOUS
  <2>1. n # 0 => n - 1 \in 0 .. N
    OBVIOUS
  <2> QED BY <1>2, <2>1
<1>4. IsLoading(records, g)
  <2> HIDE DEF g
  <2> QED BY <1>3 DEF IsLoading, Next1
<1> QED BY <1>4

LEMMA MeaningExists ==
    ASSUME NEW ops, Len(ops) \in Nat
    PROVE  \E f : IsMeaning(ops, f)
<1> DEFINE N == Len(ops)
           Next1(x, n) == Meant(x, ops[n])
           Good(m, f) == \A n \in 0 .. m : f[n] = IF n = 0 THEN <<>> ELSE Next1(f[n - 1], n)
           Bad == {m \in Nat : ~ \E f : Good(m, f)}
<1> HIDE DEF Next1
<1>1. Bad = {}
  <2> SUFFICES ASSUME Bad # {} PROVE FALSE
    OBVIOUS
  <2>1. PICK m \in Bad : \A x \in Bad : m <= x
    <3>1. Bad \subseteq Nat
      OBVIOUS
    <3> HIDE DEF Bad
    <3> QED BY <3>1, LeastNatural
  <2>2. m # 0
    <3>1. Good(0, [n \in 0 .. 0 |-> <<>>])
      OBVIOUS
    <3> HIDE DEF Good
    <3> QED BY <2>1, <3>1
  <2>3. m \in Nat /\ m - 1 \in Nat /\ m - 1 < m
    BY <2>1, <2>2
  <2>4. PICK f : Good(m - 1, f)
    <3>1. m - 1 \notin Bad
      <4> HIDE DEF Bad
      <4> QED BY <2>1, <2>3
    <3> HIDE DEF Good
    <3> QED BY <2>3, <3>1
  <2> DEFINE g == [n \in 0 .. m |-> IF n = m THEN Next1(f[m - 1], m) ELSE f[n]]
  <2>5. Good(m, g)
    <3> SUFFICES ASSUME NEW n \in 0 .. m
                 PROVE  g[n] = IF n = 0 THEN <<>> ELSE Next1(g[n - 1], n)
      OBVIOUS
    <3>1. CASE n = m
      BY <2>2, <2>3, <3>1
    <3>2. CASE n # m
      <4>1. n \in 0 .. m - 1 /\ g[n] = f[n] /\ (n # 0 => n - 1 \in 0 .. m /\ n - 1 # m)
        BY <2>3, <3>2
      <4> QED BY <2>4, <4>1
    <3> QED BY <3>1, <3>2
  <2> HIDE DEF Good, g
  <2> QED BY <2>1, <2>5
<1>2. PICK f : Good(N, f)
  BY <1>1
<1> DEFINE g == [n \in 0 .. N |-> f[n]]
<1>3. g = [n \in 0 .. N |-> IF n = 0 THEN <<>> ELSE Next1(g[n - 1], n)]
  <2> SUFFICES ASSUME NEW n \in 0 .. N
               PROVE  g[n] = IF n = 0 THEN <<>> ELSE Next1(g[n - 1], n)
    OBVIOUS
  <2>1. n # 0 => n - 1 \in 0 .. N
    OBVIOUS
  <2> QED BY <1>2, <2>1
<1>4. IsMeaning(ops, g)
  <2> HIDE DEF g
  <2> QED BY <1>3 DEF IsMeaning, Next1
<1> QED BY <1>4

LEMMA LoadedIs ==
    ASSUME NEW records, Len(records) \in Nat
    PROVE  \E f : IsLoading(records, f) /\ Loaded(records) = f[Len(records)].mem
<1> DEFINE f == CHOOSE f : IsLoading(records, f)
<1>1. IsLoading(records, f)
  BY LoadingExists
<1>2. Loaded(records) = f[Len(records)].mem
  BY DEF Loaded, IsLoading
<1> HIDE DEF f
<1> QED BY <1>1, <1>2

LEMMA MemoryMeantIs ==
    ASSUME NEW ops, Len(ops) \in Nat
    PROVE  \E f : IsMeaning(ops, f) /\ MemoryMeant(ops) = f[Len(ops)]
<1> DEFINE f == CHOOSE f : IsMeaning(ops, f)
<1>1. IsMeaning(ops, f)
  BY MeaningExists
<1>2. MemoryMeant(ops) = f[Len(ops)]
  BY DEF MemoryMeant, IsMeaning
<1> HIDE DEF f
<1> QED BY <1>1, <1>2
-----------------------------------------------------------------------------
\* The writes of the first m operations, in order: those of the n-th lie behind
\* position q[n].
AreWrites(ops, m, ivals, q) ==
    /\ q \in [1 .. m + 1 -> 0 .. Len(ivals)] /\ q[1] = 0 /\ Len(ivals) = q[m + 1]
    /\ \A n \in 1 .. m :
          /\ q[n + 1] = q[n] + Len(Writes(ops[n]))
          /\ \A j \in 1 .. Len(Writes(ops[n])) : ivals[q[n] + j] = Writes(ops[n])[j]

\* The records are those of all operations' writes.
HoldsWrites(records, ops) ==
    \E ivals, q :
        /\ AreWrites(ops, Len(ops), ivals, q)
        /\ Len(ivals) \in Nat /\ Len(records) = Len(ivals)
        /\ \A j \in 1 .. Len(ivals) : records[j] = Raw(ivals[j]) /\ ~TooBig(ivals[j])

LEMMA LoadedIsMeant ==
    ASSUME NEW records, NEW ops, IsSequence(ops),
           \A m \in DOMAIN ops :
              /\ ops[m].type \in OpTypes /\ ops[m].offset \in Nat
              /\ ~Misaligned(ops[m]) /\ ~Bypasses(ops[m]),
           HoldsWrites(records, ops)
    PROVE  Loaded(records) = MemoryMeant(ops)
<1> DEFINE N == Len(ops)
           R == Len(records)
<1>1. N \in Nat /\ DOMAIN ops = 1 .. N
  BY SequenceFacts
<1>2. PICK ivals, q :
        /\ AreWrites(ops, N, ivals, q)
        /\ Len(ivals) \in Nat /\ R = Len(ivals)
        /\ \A j \in 1 .. R : records[j] = Raw(ivals[j]) /\ ~TooBig(ivals[j])
  BY DEF HoldsWrites
<1>3. PICK f : IsLoading(records, f) /\ Loaded(records) = f[R].mem
  BY <1>2, LoadedIs
<1>4. PICK g : IsMeaning(ops, g) /\ MemoryMeant(ops) = g[N]
  BY <1>1, MemoryMeantIs
<1>5. f[0] = Reset /\ \A n \in 1 .. R : f[n] = Written(f[n - 1], Read(records[n]))
  BY <1>2, <1>3 DEF IsLoading
<1>6. g[0] = <<>> /\ \A n \in 1 .. N : g[n] = Meant(g[n - 1], ops[n])
  BY <1>1, <1>4 DEF IsMeaning
<1>7. /\ q \in [1 .. N + 1 -> 0 .. R] /\ q[1] = 0 /\ R = q[N + 1]
      /\ \A n \in 1 .. N :
            /\ q[n + 1] = q[n] + Len(Writes(ops[n]))
            /\ \A j \in 1 .. Len(Writes(ops[n])) : ivals[q[n] + j] = Writes(ops[n])[j]
  BY <1>2 DEF AreWrites
<1> DEFINE P(n) == IsDevice(f[q[n + 1]]) /\ f[q[n + 1]].mem = g[n]
<1> HIDE DEF N, R
<1>8. P(0)
  <2>1. IsDevice(Reset) /\ Reset.mem = <<>>
    BY DEF IsDevice, Device, Reset
  <2> QED BY <1>5, <1>6, <1>7, <2>1
<1>9. ASSUME NEW n \in 1 .. N, P(n - 1) PROVE P(n)
  <2> DEFINE op == ops[n]
             w == Writes(op)
             x == q[n]
             dev == f[x]
  <2>1. /\ op.type \in OpTypes /\ op.offset \in Nat /\ ~Misaligned(op) /\ ~Bypasses(op)
    BY <1>1
  <2>2. Len(w) \in Nat /\ DOMAIN w = 1 .. Len(w)
    BY <2>1, WritesFacts, SequenceFacts
  <2>3. IsDevice(dev) /\ dev.mem = g[n - 1]
    <3>1. (n - 1) + 1 = n
      BY <1>1
    <3> QED BY <1>9, <3>1
  <2>4. x \in Nat /\ q[n + 1] = x + Len(w) /\ q[n + 1] <= R
    <3>1. n \in 1 .. N + 1 /\ n + 1 \in 1 .. N + 1
      BY <1>1
    <3>2. x \in 0 .. R /\ q[n + 1] \in 0 .. R
      BY <1>7, <3>1
    <3>3. R \in Nat
      BY <1>2
    <3>4. q[n + 1] = x + Len(w)
      BY <1>7
    <3> QED BY <3>2, <3>3, <3>4
  <2>5. \A j \in 1 .. Len(w) : ivals[x + j] = w[j]
    BY <1>7
  <2>6. g[n] = Meant(g[n - 1], op)
    BY <1>6
  <2> HIDE DEF P, w, x, op
  <2>7. ASSUME NEW j \in 1 .. Len(w)
        PROVE  /\ x + j \in 1 .. R /\ ~TooBig(w[j])
               /\ f[x + j] = Written(f[(x + j) - 1], Read(Raw(w[j])))
    <3>1. x + j \in 1 .. R
      BY <1>2, <2>2, <2>4
    <3> DEFINE y == x + j
    <3>2. records[y] = Raw(ivals[y]) /\ ~TooBig(ivals[y]) /\ ivals[y] = w[j]
      BY <1>2, <2>5, <3>1
    <3>3. f[y] = Written(f[y - 1], Read(records[y]))
      BY <1>5, <3>1
    <3> QED BY <3>1, <3>2, <3>3
  <2>8. Means(dev, op)
    <3>1. \A m \in DOMAIN Writes(op) : ~TooBig(Writes(op)[m])
      BY <2>2, <2>7 DEF w
    <3> HIDE DEF dev
    <3> QED BY <2>1, <2>3, <3>1, OperationMeans
  <2>9. Len(w) \in {1, 2} /\ IsDevice(Applied(dev, w)) /\ Applied(dev, w).mem = Meant(dev.mem, op)
    <3> HIDE DEF dev
    <3> QED BY <2>8 DEF Means, w
  <2>10. f[q[n + 1]] = Applied(dev, w)
    <3>0. (x + 1) - 1 = x /\ (x + 2) - 1 = x + 1
      BY <2>4
    <3>1. 1 \in 1 .. Len(w)
      <4>1. Len(w) = 1 \/ Len(w) = 2
        BY <2>9
      <4> QED BY ONLY <4>1
    <3>2. f[x + 1] = Written(dev, Read(Raw(w[1])))
      BY <2>7, <3>0, <3>1
    <3>3. CASE Len(w) = 1
      BY <2>4, <3>2, <3>3 DEF Applied
    <3>4. CASE Len(w) = 2
      <4>1. 2 \in 1 .. Len(w)
        BY <3>4
      <4>2. f[x + 2] = Written(f[x + 1], Read(Raw(w[2])))
        BY <2>7, <3>0, <4>1
      <4> HIDE DEF dev
      <4> QED BY <2>4, <3>2, <3>4, <4>2 DEF Applied
    <3> QED BY <2>9, <3>3, <3>4
  <2> HIDE DEF dev
  <2> QED BY <2>3, <2>6, <2>9, <2>10 DEF P
<1> DEFINE Bad == {n \in Nat : n <= N /\ ~P(n)}
<1> HIDE DEF P
<1>10. Bad = {}
  <2> SUFFICES ASSUME Bad # {} PROVE FALSE
    OBVIOUS
  <2>1. PICK m \in Bad : \A y \in Bad : m <= y
    <3>1. Bad \subseteq Nat
      OBVIOUS
    <3> HIDE DEF Bad
    <3> QED BY <3>1, LeastNatural
  <2>2. m # 0
    BY <1>8, <2>1
  <2>3. m \in 1 .. N /\ m - 1 \in Nat /\ m - 1 < m /\ m - 1 <= N
    BY <1>1, <2>1, <2>2
  <2>4. P(m - 1)
    <3>1. m - 1 \notin Bad
      <4> HIDE DEF Bad
      <4> QED BY <2>1, <2>3
    <3> QED BY <2>3, <3>1
  <2>5. P(m)
    BY <1>9, <2>3, <2>4
  <2> QED BY <2>1, <2>5
<1>11. P(N)
  BY <1>1, <1>10
<1> QED BY <1>3, <1>4, <1>7, <1>11 DEF P
-----------------------------------------------------------------------------
\* While a section is assembled the context holds the writes of the operations
\* before i, and while its file is written the records before i are those of the
\* context's first writes.
ContextHoldsWrites ==
    /\ pc = "assemble" =>
          /\ i <= Len(sects[s].ops) + 1
          /\ \E q : AreWrites(sects[s].ops, i - 1, ctx.ivals, q)
    /\ pc = "emit" =>
          /\ \E q : AreWrites(sects[s].ops, Len(sects[s].ops), ctx.ivals, q)
          /\ \A j \in 1 .. i - 1 :
                files[Path].records[j] = Raw(ctx.ivals[j]) /\ ~TooBig(ctx.ivals[j])

FilesHoldWrites ==
    \A k \in DOMAIN sects :
        files[sects[k].name].state = "closed" =>
            HoldsWrites(files[sects[k].name].records, sects[k].ops)

MeaningInv == RecordInv /\ ContextHoldsWrites /\ FilesHoldWrites

\* The writes of one more operation.
LEMMA MoreWrites ==
    ASSUME NEW ops, NEW m \in Nat, NEW ivals, IsSequence(ivals), NEW q, AreWrites(ops, m, ivals, q),
           IsSequence(Writes(ops[m + 1]))
    PROVE  \E p : AreWrites(ops, m + 1, ivals \o Writes(ops[m + 1]), p)
<1> DEFINE w == Writes(ops[m + 1])
           all == ivals \o w
           L == Len(ivals)
           z == Len(w)
           p == [n \in 1 .. m + 2 |-> IF n = m + 2 THEN L + z ELSE q[n]]
<1>1. L \in Nat /\ z \in Nat
  BY SequenceFacts
<1>2. /\ Len(all) = L + Len(w)
      /\ \A j \in 1 .. L : all[j] = ivals[j]
      /\ \A j \in 1 .. Len(w) : all[L + j] = w[j]
  BY ConcatFacts
<1>3. /\ q \in [1 .. m + 1 -> 0 .. L] /\ q[1] = 0 /\ L = q[m + 1]
      /\ \A n \in 1 .. m :
            /\ q[n + 1] = q[n] + Len(Writes(ops[n]))
            /\ \A j \in 1 .. Len(Writes(ops[n])) : ivals[q[n] + j] = Writes(ops[n])[j]
  BY DEF AreWrites
<1>4. \A n \in 1 .. m + 1 : p[n] = q[n] /\ q[n] \in 0 .. L
  BY <1>3
<1>5. p[m + 2] = L + z
  OBVIOUS
<1>6. p \in [1 .. m + 2 -> 0 .. L + z]
  <2> HIDE DEF z, L
  <2>1. \A n \in 1 .. m + 2 : n = m + 2 \/ n \in 1 .. m + 1
    OBVIOUS
  <2>2. \A x \in 0 .. L : x \in 0 .. L + z
    BY <1>1
  <2>3. L + z \in 0 .. L + z
    BY <1>1
  <2>4. \A n \in 1 .. m + 2 : (IF n = m + 2 THEN L + z ELSE q[n]) \in 0 .. L + z
    BY <1>3, <2>1, <2>2, <2>3
  <2> QED BY <2>4
<1> HIDE DEF p, all, L, w, z
<1>7. ASSUME NEW n \in 1 .. m + 1
      PROVE  /\ p[n + 1] = p[n] + Len(Writes(ops[n]))
             /\ \A j \in 1 .. Len(Writes(ops[n])) : all[p[n] + j] = Writes(ops[n])[j]
  <2>1. CASE n = m + 1
    <3>1. n + 1 = m + 2 /\ p[n] = L /\ n \in 1 .. m + 1
      BY <1>3, <1>4, <2>1
    <3>2. Writes(ops[n]) = w
      BY <2>1 DEF w
    <3> QED BY <1>2, <1>5, <3>1, <3>2 DEF z
  <2>2. CASE n # m + 1
    <3> DEFINE u == Writes(ops[n])
    <3>1. n \in 1 .. m /\ n + 1 \in 1 .. m + 1
      BY <2>2
    <3>2. p[n] = q[n] /\ p[n + 1] = q[n + 1] /\ q[n] \in 0 .. L /\ q[n + 1] \in 0 .. L
      BY <1>4, <3>1
    <3>3. q[n + 1] = q[n] + Len(u) /\ \A j \in 1 .. Len(u) : ivals[q[n] + j] = u[j]
      BY <1>3, <3>1
    <3> HIDE DEF u
    <3>4. ASSUME NEW j \in 1 .. Len(u) PROVE all[p[n] + j] = u[j]
      <4>1. Len(u) = q[n + 1] - q[n] \/ Len(u) \notin Int
        BY <3>2, <3>3
      <4>2. q[n] + j \in 1 .. L
        BY <1>1, <3>2, <3>3, <4>1
      <4> QED BY <1>2, <3>2, <3>3, <4>2
    <3> QED BY <3>2, <3>3, <3>4 DEF u
  <2> QED BY <2>1, <2>2
<1>8. p[1] = 0
  BY <1>3, <1>4
<1>9. (m + 1) + 1 = m + 2
  OBVIOUS
<1>10. Len(all) = L + z
  BY <1>2 DEF z
<1>11. AreWrites(ops, m + 1, all, p)
  BY <1>5, <1>6, <1>7, <1>8, <1>9, <1>10 DEF AreWrites
<1> QED BY <1>11 DEF all, w

LEMMA NoWrites ==
    ASSUME NEW ops, NEW ivals, Len(ivals) = 0
    PROVE  \E q : AreWrites(ops, 0, ivals, q)
<1> DEFINE q == [n \in 1 .. 0 + 1 |-> 0]
<1>1. q \in [1 .. 0 + 1 -> 0 .. 0] /\ q[1] = 0 /\ q[0 + 1] = 0
  OBVIOUS
<1> HIDE DEF q
<1>2. AreWrites(ops, 0, ivals, q)
  BY <1>1 DEF AreWrites
<1> QED BY <1>2
LEMMA MeaningAtFirst == ASSUME Init PROVE MeaningInv
<1>1. RecordInv
  BY RecordsAtFirst
<1>2. DOMAIN sects = {} /\ pc = "parse"
  BY EmptyFacts DEF Init
<1>3. ContextHoldsWrites /\ FilesHoldWrites
  BY <1>2 DEF ContextHoldsWrites, FilesHoldWrites
<1> QED BY <1>1, <1>3 DEF MeaningInv

\* The parser writes no file.
LEMMA MeaningParse ==
    ASSUME MeaningInv, IInv', SwitchToIvals \/ IvalsWrite
    PROVE  ContextHoldsWrites' /\ FilesHoldWrites'
<1>1. pc = "parse" /\ pc' = "parse" /\ UNCHANGED files
  BY DEF SwitchToIvals, IvalsWrite, AtLine
<1>2. \A n \in SectionNames : files[n] = OldFile
  BY <1>1 DEF MeaningInv, RecordInv, IInv, Progress
<1>3. \A k \in DOMAIN sects' : sects'[k].name \in SectionNames
  BY DEF IInv, SectionsWellFormed
<1>4. \A k \in DOMAIN sects' : files'[sects'[k].name].state = "old"
  BY <1>1, <1>2, <1>3 DEF OldFile
<1> QED BY <1>1, <1>4 DEF ContextHoldsWrites, FilesHoldWrites

LEMMA MeaningQuiet ==
    ASSUME MeaningInv, UNCHANGED <<sects, files>>,
           \/ SwitchToText \/ Statement \/ SectionError \/ EndOfSource
           \/ AssembleMicrocode \/ MicrocodeError \/ OpenFails \/ LastSection
    PROVE  ContextHoldsWrites' /\ FilesHoldWrites'
<1>1. pc' \notin {"assemble", "emit"}
  BY DEF SwitchToText, Statement, SectionError, EndOfSource, AtLine,
     AssembleMicrocode, MicrocodeError, OpenFails, LastSection
<1> QED BY <1>1 DEF MeaningInv, ContextHoldsWrites, FilesHoldWrites

LEMMA MeaningBegin ==
    ASSUME MeaningInv, BeginSection
    PROVE  ContextHoldsWrites' /\ FilesHoldWrites'
<1>1. pc' = "assemble" /\ i' = 1 /\ UNCHANGED <<sects, s, files>> /\ ctx'.ivals = <<>>
      /\ pc = "section" /\ s <= Len(sects)
  BY DEF BeginSection, EmptyCtx, parserVars
<1>2. s \in DOMAIN sects
  BY <1>1, SequenceFacts DEF MeaningInv, RecordInv, IInv, Progress, TypeOK, SectionsWellFormed
<1>3. Len(sects[s].ops) \in Nat
  BY <1>2, SequenceFacts DEF MeaningInv, RecordInv, IInv, SectionsWellFormed
<1>4. Len(ctx'.ivals) = 0
  BY <1>1
<1>5. i' - 1 = 0 /\ i' <= Len(sects[s].ops) + 1
  BY <1>1, <1>3
<1>6. \E q : AreWrites(sects[s].ops, 0, ctx'.ivals, q)
  BY <1>4, NoWrites
<1>7. ContextHoldsWrites'
  <2>1. \E q : AreWrites(sects'[s'].ops, i' - 1, ctx'.ivals, q)
    BY <1>1, <1>5, <1>6
  <2>2. i' <= Len(sects'[s'].ops) + 1
    BY <1>1, <1>5
  <2> QED BY <1>1, <2>1, <2>2 DEF ContextHoldsWrites
<1>8. FilesHoldWrites'
  BY <1>1 DEF MeaningInv, FilesHoldWrites
<1> QED BY <1>7, <1>8

LEMMA MeaningAssemble ==
    ASSUME MeaningInv, AssembleOp
    PROVE  ContextHoldsWrites' /\ FilesHoldWrites'
<1> DEFINE ops == sects[s].ops
           w == Writes(ops[i])
           m == i - 1
<1>1. /\ pc = "assemble" /\ pc' = "assemble" /\ i' = i + 1 /\ UNCHANGED <<sects, s, files>>
      /\ i <= Len(ops) /\ ctx'.ivals = ctx.ivals \o w
  BY DEF AssembleOp, parserVars
<1>2. s \in DOMAIN sects /\ i \in Nat /\ i >= 1
  BY <1>1, SequenceFacts DEF MeaningInv, RecordInv, IInv, Progress, TypeOK, SectionsWellFormed
<1>3. IsSequence(ops) /\ Len(ops) \in Nat /\ DOMAIN ops = 1 .. Len(ops)
  BY <1>2, SequenceFacts DEF MeaningInv, RecordInv, IInv, SectionsWellFormed
<1>4. i \in DOMAIN ops
  BY <1>1, <1>2, <1>3
<1>5. IsSequence(w)
  <2>1. ops[i].type \in OpTypes
    BY <1>2, <1>4 DEF MeaningInv, RecordInv, IInv, SectionsWellFormed
  <2> QED BY <2>1, WritesFacts
<1>6. IsSequence(ctx.ivals)
  BY DEF MeaningInv, RecordInv, IInv, ContextWellFormed
<1>7. PICK q : AreWrites(ops, m, ctx.ivals, q)
  BY <1>1 DEF MeaningInv, ContextHoldsWrites
<1>8. m \in Nat /\ m + 1 = i /\ i' - 1 = i /\ i' <= Len(ops) + 1
  BY <1>1, <1>2, <1>3
<1> HIDE DEF ops, m
<1>9. \E p : AreWrites(ops, i, ctx.ivals \o w, p)
  BY <1>5, <1>6, <1>7, <1>8, MoreWrites
<1>10. ops = sects'[s'].ops
  BY <1>1 DEF ops
<1>11. ContextHoldsWrites'
  BY <1>1, <1>8, <1>9, <1>10 DEF ContextHoldsWrites
<1>12. FilesHoldWrites'
  BY <1>1 DEF MeaningInv, FilesHoldWrites
<1> QED BY <1>11, <1>12

\* A step that changes only the file of the section the program is at.
LEMMA OneFileChanges ==
    ASSUME MeaningInv, s \in DOMAIN sects, NEW f, files' = [files EXCEPT ![Path] = f],
           UNCHANGED sects, f.state = "closed" => HoldsWrites(f.records, sects[s].ops)
    PROVE  FilesHoldWrites' /\ files'[Path] = f
<1>1. Path \in SectionNames /\ Path = sects[s].name
  BY DEF MeaningInv, RecordInv, IInv, SectionsWellFormed, Path
<1>2. files'[Path] = f /\ \A n \in SectionNames \ {Path} : files'[n] = files[n]
  BY <1>1, FileExcept DEF MeaningInv, RecordInv, IInv
<1>3. \A k \in DOMAIN sects : k # s => sects[k].name \in SectionNames \ {Path}
  BY <1>1 DEF MeaningInv, RecordInv, IInv, SectionsDistinct, SectionsWellFormed
<1>4. ASSUME NEW k \in DOMAIN sects, files'[sects[k].name].state = "closed"
      PROVE  HoldsWrites(files'[sects[k].name].records, sects[k].ops)
  <2>1. CASE k = s
    BY <1>1, <1>2, <1>4, <2>1
  <2>2. CASE k # s
    <3>1. files'[sects[k].name] = files[sects[k].name]
      BY <1>2, <1>3, <2>2
    <3> QED BY <1>4, <3>1 DEF MeaningInv, FilesHoldWrites
  <2> QED BY <2>1, <2>2
<1> QED BY <1>2, <1>4 DEF FilesHoldWrites

LEMMA MeaningOpen ==
    ASSUME MeaningInv, OpenFile
    PROVE  ContextHoldsWrites' /\ FilesHoldWrites'
<1> DEFINE f == [state |-> "open", size |-> ctx.ivals_count, records |-> <<>>]
<1>1. /\ pc = "assemble" /\ pc' = "emit" /\ i' = 1 /\ UNCHANGED <<sects, s, ctx>>
      /\ i > Len(sects[s].ops) /\ files' = [files EXCEPT ![Path] = f]
  BY DEF OpenFile, parserVars
<1>2. s \in DOMAIN sects /\ i \in Nat
  BY <1>1, SequenceFacts DEF MeaningInv, RecordInv, IInv, Progress, TypeOK, SectionsWellFormed
<1>3. Len(sects[s].ops) \in Nat
  BY <1>2, SequenceFacts DEF MeaningInv, RecordInv, IInv, SectionsWellFormed
<1>4. i - 1 = Len(sects[s].ops)
  BY <1>1, <1>2, <1>3 DEF MeaningInv, ContextHoldsWrites
<1>5. f.state # "closed"
  OBVIOUS
<1> HIDE DEF f
<1>6. FilesHoldWrites'
  BY <1>1, <1>2, <1>5, OneFileChanges
<1>7. \E q : AreWrites(sects[s].ops, Len(sects[s].ops), ctx.ivals, q)
  BY <1>1, <1>4 DEF MeaningInv, ContextHoldsWrites
<1>8. 1 .. i' - 1 = {}
  BY <1>1
<1> QED BY <1>1, <1>6, <1>7, <1>8 DEF ContextHoldsWrites
LEMMA MeaningEmit ==
    ASSUME MeaningInv, EmitIval
    PROVE  ContextHoldsWrites' /\ FilesHoldWrites'
<1> DEFINE r == Raw(ctx.ivals[i])
           old == files[Path]
           recs == Append(old.records, r)
           f == [state |-> "open", size |-> old.size, records |-> recs]
<1>1. pc = "emit" /\ pc' = "emit" /\ i' = i + 1 /\ ~TooBig(ctx.ivals[i])
      /\ UNCHANGED <<sects, s, ctx>>
      /\ files' = [files EXCEPT ![Path] = [old EXCEPT !.records = recs]]
  BY DEF EmitIval, parserVars
<1>2. /\ s \in DOMAIN sects /\ i \in Nat /\ i >= 1
      /\ old = [state |-> "open", size |-> ctx.ivals_count, records |-> old.records]
      /\ Len(old.records) = i - 1 /\ IsSequence(old.records)
  BY <1>1, OpenFileFacts DEF MeaningInv, RecordInv, IInv, TypeOK
<1>3. /\ \A j \in 1 .. i - 1 : recs[j] = old.records[j]
      /\ recs[i] = r
  <2>1. /\ \A j \in 1 .. i - 1 : recs[j] = old.records[j]
        /\ recs[(i - 1) + 1] = r
    BY <1>2, AppendFacts
  <2>2. (i - 1) + 1 = i
    BY <1>2
  <2> QED BY <2>1, <2>2
<1>4. [old EXCEPT !.records = recs] = f
  <2> HIDE DEF recs
  <2> QED BY <1>2
<1>5. f.state # "closed" /\ f.records = recs
  OBVIOUS
<1>6. \A j \in 1 .. i - 1 : old.records[j] = Raw(ctx.ivals[j]) /\ ~TooBig(ctx.ivals[j])
  BY <1>1 DEF MeaningInv, ContextHoldsWrites
<1> HIDE DEF f, recs, old
<1>7. FilesHoldWrites' /\ files'[Path] = f
  BY <1>1, <1>2, <1>4, <1>5, OneFileChanges
<1>8. ASSUME NEW j \in 1 .. i' - 1
      PROVE  recs[j] = Raw(ctx.ivals[j]) /\ ~TooBig(ctx.ivals[j])
  <2>1. j \in 1 .. i - 1 \/ j = i
    BY <1>1, <1>2
  <2> QED BY <1>1, <1>3, <1>6, <2>1
<1>9. Path' = Path
  BY <1>1 DEF Path
<1>10. files'[Path'].records = recs
  BY <1>5, <1>7, <1>9
<1>11. \E q : AreWrites(sects'[s'].ops, Len(sects'[s'].ops), ctx'.ivals, q)
  BY <1>1 DEF MeaningInv, ContextHoldsWrites
<1>12. \A j \in 1 .. i' - 1 : recs[j] = Raw(ctx'.ivals[j]) /\ ~TooBig(ctx'.ivals[j])
  BY <1>1, <1>8
<1>13. ContextHoldsWrites'
  BY <1>1, <1>10, <1>11, <1>12 DEF ContextHoldsWrites
<1> QED BY <1>7, <1>13

\* Only a file with all records of its section is closed without loss.
LEMMA MeaningEnd ==
    ASSUME MeaningInv, OffsetError \/ WriteFails \/ CloseFile \/ CloseLosesData
    PROVE  ContextHoldsWrites' /\ FilesHoldWrites'
<1> DEFINE old == files[Path]
<1>1. pc = "emit" /\ pc' \in {"error", "ioerror", "section"} /\ UNCHANGED sects
  BY DEF OffsetError, WriteFails, CloseFile, CloseLosesData, NextSection, parserVars
<1>2. /\ s \in DOMAIN sects /\ i \in 1 .. Len(ctx.ivals) + 1
      /\ old = [state |-> "open", size |-> ctx.ivals_count, records |-> old.records]
      /\ Len(old.records) = i - 1 /\ Len(ctx.ivals) \in Nat
  BY <1>1, OpenFileFacts DEF MeaningInv, RecordInv
<1>3. PICK st \in {"cut", "closed"} :
        /\ files' = [files EXCEPT ![Path].state = st]
        /\ st = "closed" => i > Len(ctx.ivals)
  BY DEF OffsetError, WriteFails, CloseFile, CloseLosesData
<1> DEFINE f == [state |-> st, size |-> old.size, records |-> old.records]
<1>4. files' = [files EXCEPT ![Path] = f]
  <2>1. files' = [files EXCEPT ![Path] = [old EXCEPT !.state = st]]
    BY <1>3
  <2>2. [old EXCEPT !.state = st] = f
    BY <1>2
  <2> QED BY <2>1, <2>2
<1>5. f.state = st /\ f.records = old.records
  OBVIOUS
<1>6. ASSUME st = "closed" PROVE HoldsWrites(old.records, sects[s].ops)
  <2>1. i - 1 = Len(ctx.ivals)
    BY <1>2, <1>3, <1>6
  <2>2. \A j \in 1 .. Len(ctx.ivals) : old.records[j] = Raw(ctx.ivals[j]) /\ ~TooBig(ctx.ivals[j])
    BY <1>1, <2>1 DEF MeaningInv, ContextHoldsWrites
  <2>3. \E q : AreWrites(sects[s].ops, Len(sects[s].ops), ctx.ivals, q)
    BY <1>1 DEF MeaningInv, ContextHoldsWrites
  <2> HIDE DEF old
  <2> QED BY <1>2, <2>1, <2>2, <2>3 DEF HoldsWrites
<1> HIDE DEF f, old
<1>7. FilesHoldWrites'
  BY <1>1, <1>2, <1>4, <1>5, <1>6, OneFileChanges
<1>8. ContextHoldsWrites'
  BY <1>1 DEF ContextHoldsWrites
<1> QED BY <1>7, <1>8

LEMMA MeaningStep ==
    ASSUME MeaningInv, [Next]_vars
    PROVE  MeaningInv'
<1>1. RecordInv' /\ IInv'
  <2>1. IInv'
    BY StepInv DEF MeaningInv, RecordInv
  <2> QED BY <2>1, OpsStep, WritesStep, RecordsStep DEF MeaningInv, RecordInv
<1>2. ContextHoldsWrites' /\ FilesHoldWrites'
  <2>1. CASE \/ SwitchToText \/ Statement \/ SectionError \/ EndOfSource
             \/ AssembleMicrocode \/ MicrocodeError \/ OpenFails \/ LastSection
    <3>1. UNCHANGED <<sects, files>>
      BY <2>1 DEF SwitchToText, Statement, SectionError, EndOfSource,
         AssembleMicrocode, MicrocodeError, OpenFails, LastSection, parserVars
    <3> QED BY <2>1, <3>1, MeaningQuiet
  <2>2. CASE SwitchToIvals \/ IvalsWrite
    BY <1>1, <2>2, MeaningParse
  <2>3. CASE BeginSection
    BY <2>3, MeaningBegin
  <2>4. CASE AssembleOp
    BY <2>4, MeaningAssemble
  <2>5. CASE OpenFile
    BY <2>5, MeaningOpen
  <2>6. CASE EmitIval
    BY <2>6, MeaningEmit
  <2>7. CASE OffsetError \/ WriteFails \/ CloseFile \/ CloseLosesData
    BY <2>7, MeaningEnd
  <2>8. CASE UNCHANGED vars
    BY <2>8 DEF vars, MeaningInv, ContextHoldsWrites, FilesHoldWrites, Path
  <2> QED BY <2>1, <2>2, <2>3, <2>4, <2>5, <2>6, <2>7, <2>8 DEF Next
<1> QED BY <1>1, <1>2 DEF MeaningInv

\* For every set of sources, a finished file leaves a device as its section's
\* operations say, in order, when none of them is misaligned or goes past a window:
\* what b43-asm puts into the control registers for one operation never disturbs
\* another, and the offset limit of initval_to_raw() keeps each record readable.
THEOREM FilesMeanWhatIsWritten == Spec => []FilesMeanTheirSections
<1>1. Init => MeaningInv
  BY MeaningAtFirst
<1>2. MeaningInv /\ [Next]_vars => MeaningInv'
  BY MeaningStep
<1>3. MeaningInv => FilesMeanTheirSections
  <2> SUFFICES ASSUME MeaningInv, NEW k \in DOMAIN sects,
                      \A m \in DOMAIN sects[k].ops :
                         ~Misaligned(sects[k].ops[m]) /\ ~Bypasses(sects[k].ops[m]),
                      files[sects[k].name].state = "closed"
               PROVE  Loaded(files[sects[k].name].records) = MemoryMeant(sects[k].ops)
    BY DEF FilesMeanTheirSections, MeansItsSection
  <2>1. IsSequence(sects[k].ops) /\ \A m \in DOMAIN sects[k].ops : sects[k].ops[m].type \in OpTypes
    BY DEF MeaningInv, RecordInv, IInv, SectionsWellFormed
  <2>2. \A m \in DOMAIN sects[k].ops : sects[k].ops[m].offset \in Nat
    BY DEF MeaningInv, RecordInv, OpsHaveOffsets
  <2>3. HoldsWrites(files[sects[k].name].records, sects[k].ops)
    BY DEF MeaningInv, FilesHoldWrites
  <2> QED BY <2>1, <2>2, <2>3, LoadedIsMeant
<1> QED BY <1>1, <1>2, <1>3, PTL DEF Spec
=============================================================================
