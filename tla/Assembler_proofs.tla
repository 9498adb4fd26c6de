-------------------------- MODULE Assembler_proofs --------------------------
(***************************************************************************)
(* Proofs about Assembler: for every set of programs, the addresses that   *)
(* resolve_labels uses are those of the final list, no reference is        *)
(* resolved twice, every reference is resolved when code is written, the   *)
(* warnings about RET are justified, and the assembler implements the      *)
(* one-step meaning of programs (AsmMeaning).                              *)
(***************************************************************************)
EXTENDS Assembler, SequenceLemmas

\* The inductive invariant.

\* Only the first entry can be the %start jump, so that its removal is the
\* first thing the resolving loop does, if it does it.
StartFirst == \A k \in DOMAIN output : output[k].start => k = 1

LabelsHaveNoReferences ==
    \A k \in DOMAIN output : output[k].type = "label" =>
        \A n \in 1 .. 3 : output[k].operands[n].type = "normal"

\* Progress of the address loop: the entries before i have their address.
AddressesSoFar ==
    pc = "addresses" =>
        /\ i <= Len(output) + 1
        /\ AddressesChain(output, i - 1)
        /\ address = IF i = 1 THEN 0 ELSE NextAddress(output[i - 1])

\* Progress of the resolving loop: the references before i are resolved, with
\* the addresses of the list as it is now, and those from i on are not.
ResolvedSoFar ==
    /\ pc = "directives" => output = <<>>
    /\ pc \in {"directives", "assemble", "addresses"} =>
          \A k \in DOMAIN output : Unresolved(output, k)
    /\ pc = "resolve" =>
          /\ i <= Len(output) + 1
          /\ \A k \in DOMAIN output :
                IF k < i THEN ResolvedRight(arch, output, k) ELSE Unresolved(output, k)

FileUntouched ==
    pc \in {"directives", "assemble", "addresses", "resolve", "error"} =>
        outfile = OldFile

IInv ==
    /\ IsSequence(output)
    /\ TypeOK
    /\ StartFirst
    /\ LabelsHaveNoReferences
    /\ AddressesSoFar
    /\ AddressesConsistent
    /\ ResolvedSoFar
    /\ ReferencesResolved
    /\ FileUntouched
-----------------------------------------------------------------------------
\* What a reference means depends on the names and addresses of the labels.
LEMMA TargetAddress ==
    ASSUME NEW out, NEW k, NEW ref, NEW j \in DOMAIN out,
           Targets(out, k, ref) = {j}
    PROVE  LabelAddress(out, k, ref) = out[j].address
<1>1. ASSUME NEW l \in DOMAIN out, Targets(out, k, ref) = {l}
      PROVE  l = j
  BY <1>1
<1> QED BY <1>1 DEF LabelAddress

LEMMA SameLabels ==
    ASSUME NEW out, NEW new, DOMAIN new = DOMAIN out,
           \A k \in DOMAIN out : /\ new[k].type = out[k].type
                                 /\ new[k].name = out[k].name
                                 /\ new[k].address = out[k].address,
           NEW k, NEW ref
    PROVE  /\ HasTarget(new, k, ref) <=> HasTarget(out, k, ref)
           /\ HasTarget(out, k, ref) =>
                LabelAddress(new, k, ref) = LabelAddress(out, k, ref)
<1>1. LabelsNamed(new, ref.name) = LabelsNamed(out, ref.name)
  BY DEF LabelsNamed
<1>2. Targets(new, k, ref) = Targets(out, k, ref)
  BY <1>1 DEF Targets
<1>3. HasTarget(new, k, ref) <=> HasTarget(out, k, ref)
  BY <1>2 DEF HasTarget
<1>4. ASSUME HasTarget(out, k, ref)
      PROVE  LabelAddress(new, k, ref) = LabelAddress(out, k, ref)
  <2>1. PICK j \in DOMAIN out : Targets(out, k, ref) = {j}
    BY <1>4 DEF HasTarget
  <2>2. LabelAddress(out, k, ref) = out[j].address
    BY <2>1, TargetAddress
  <2>3. j \in DOMAIN new /\ Targets(new, k, ref) = {j}
    BY <1>2, <2>1
  <2>4. LabelAddress(new, k, ref) = new[j].address
    BY <2>3, TargetAddress
  <2> QED BY <2>2, <2>4
<1> QED BY <1>3, <1>4

\* What assembling an instruction adds to the list.
LEMMA OutInsnFacts ==
    ASSUME NEW a, NEW insn
    PROVE  LET c == OutInsn(a, insn)
           IN  /\ IsEntry(c) /\ c.type = "insn" /\ ~c.start
               /\ \A n \in 1 .. 3 : c.operands[n].type = "labelref" =>
                                      ~c.operands[n].resolved
<1> DEFINE real == Emulated(a, insn)
           opers == [n \in 1 .. 3 |-> OutOperand(a, MachineOperands(real)[n])]
<1>1. ASSUME NEW o
      PROVE  /\ IsOutOperand(OutOperand(a, o))
             /\ OutOperand(a, o).type = "labelref" => ~OutOperand(a, o).resolved
  <2>1. CASE o.t = "label"
    BY <2>1 DEF OutOperand, LabelRef, IsOutOperand
  <2>2. CASE o.t # "label"
    BY <2>2 DEF OutOperand, Normal, IsOutOperand
  <2> QED BY <2>1, <2>2
<1>2. \A n \in 1 .. 3 : opers[n] = OutOperand(a, MachineOperands(real)[n])
  OBVIOUS
<1>3. \A n \in 1 .. 3 : /\ IsOutOperand(opers[n])
                        /\ opers[n].type = "labelref" => ~opers[n].resolved
  BY <1>1, <1>2
<1>4. opers = [n \in 1 .. 3 |-> opers[n]]
  OBVIOUS
<1>5. OutInsn(a, insn) =
        [type |-> "insn", name |-> NoName, address |-> 0, start |-> FALSE,
         jump |-> real.op \in SetsJumpFlag, opcode |-> Opcode(real),
         operands |-> opers]
  BY DEF OutInsn
<1> HIDE DEF opers, real
<1> QED BY <1>3, <1>4, <1>5 DEF IsEntry

LEMMA StartJumpFacts ==
    ASSUME NEW a, NEW name
    PROVE  LET c == StartJump(a, name)
           IN  /\ IsEntry(c) /\ c.type = "insn"
               /\ \A n \in 1 .. 3 : c.operands[n].type = "labelref" =>
                                      ~c.operands[n].resolved
<1> DEFINE insn == Insn("jmp", <<LabelOper(name, "absolute")>>)
           c == OutInsn(a, insn)
<1>1. /\ IsEntry(c) /\ c.type = "insn"
      /\ \A n \in 1 .. 3 : c.operands[n].type = "labelref" =>
                             ~c.operands[n].resolved
  BY OutInsnFacts
<1>2. StartJump(a, name) = [c EXCEPT !.start = TRUE]
  BY DEF StartJump
<1> HIDE DEF c
<1> QED BY <1>1, <1>2 DEF IsEntry

LEMMA OutLabelFacts ==
    ASSUME NEW name
    PROVE  LET c == OutLabel(name)
           IN  /\ IsEntry(c) /\ c.type = "label" /\ ~c.start
               /\ \A n \in 1 .. 3 : c.operands[n].type = "normal"
BY DEF OutLabel, IsEntry, IsOutOperand, Normal

\* What the loops of resolve_labels change in an entry.
LEMMA EntryWithAddress ==
    ASSUME NEW c, IsEntry(c), NEW a \in Nat
    PROVE  LET d == [c EXCEPT !.address = a]
           IN  /\ IsEntry(d) /\ d.address = a
               /\ d.type = c.type /\ d.start = c.start /\ d.operands = c.operands
BY DEF IsEntry

LEMMA EntryWithOperands ==
    ASSUME NEW c, IsEntry(c), NEW f, f = [n \in 1 .. 3 |-> f[n]],
           \A n \in 1 .. 3 : IsOutOperand(f[n])
    PROVE  LET d == [c EXCEPT !.operands = f]
           IN  /\ IsEntry(d) /\ d.operands = f
               /\ d.type = c.type /\ d.start = c.start
               /\ d.name = c.name /\ d.address = c.address
BY DEF IsEntry

LEMMA ResolvedOperandFacts ==
    ASSUME NEW a, NEW out, NEW k, NEW n, IsOutOperand(out[k].operands[n])
    PROVE  LET o == out[k].operands[n]
               r == ResolvedOperand(a, out, k, n)
           IN  /\ IsOutOperand(r) /\ r.type = o.type /\ r.label = o.label
               /\ r.type = "labelref" =>
                    /\ r.resolved
                    /\ r.operand = LabelOperand(a, n, LabelAddress(out, k, o.label))
<1> DEFINE o == out[k].operands[n]
           w == LabelOperand(a, n, LabelAddress(out, k, o.label))
<1>1. CASE o.type = "labelref"
  <2>1. ResolvedOperand(a, out, k, n) =
          [type |-> "labelref", resolved |-> TRUE, label |-> o.label, operand |-> w]
    BY <1>1 DEF ResolvedOperand
  <2> HIDE DEF w
  <2>2. /\ IsOutOperand(ResolvedOperand(a, out, k, n))
        /\ ResolvedOperand(a, out, k, n).operand = w
    BY <2>1 DEF IsOutOperand
  <2> QED BY <1>1, <2>1, <2>2 DEF w
<1>2. CASE o.type # "labelref"
  BY <1>2 DEF ResolvedOperand
<1> QED BY <1>1, <1>2
-----------------------------------------------------------------------------
LEMMA InitInv == Init => IInv
BY EmptyFacts
   DEF Init, IInv, TypeOK, StartFirst, LabelsHaveNoReferences, AddressesSoFar,
       AddressesConsistent, ResolvedSoFar, ReferencesResolved, FileUntouched, OldFile

\* The steps that leave ctx->output and ctx->arch alone.
LEMMA QuietStep ==
    ASSUME IInv,
           EvalOther \/ EvalStart \/ DirectiveError \/ AssembleDirective
             \/ AssembleError \/ BeginAddresses \/ BeginResolve \/ ResolveLabel
             \/ ResolveError \/ OpenOutput \/ OpenFails \/ EmitInsn \/ EmitLabel
             \/ WriteFails \/ CloseOutput \/ CloseLosesData \/ UNCHANGED vars
    PROVE  IInv'
<1>1. output' = output /\ arch' = arch
  BY DEF EvalOther, EvalStart, DirectiveError, AssembleDirective, AssembleError,
         BeginAddresses, BeginResolve, ResolveLabel, ResolveError, OpenOutput,
         OpenFails, EmitInsn, EmitLabel, WriteFails, CloseOutput, CloseLosesData,
         AsmError, vars
<1>2. Len(output) \in Nat /\ DOMAIN output = 1 .. Len(output)
  BY SequenceFacts DEF IInv
<1>3. i \in Nat \ {0}
  BY DEF IInv, TypeOK
<1>4. IsSequence(output)' /\ StartFirst' /\ LabelsHaveNoReferences'
  BY <1>1 DEF IInv, StartFirst, LabelsHaveNoReferences
<1>5. CASE \/ EvalOther \/ EvalStart \/ AssembleDirective \/ DirectiveError
           \/ AssembleError \/ ResolveError
  BY <1>1, <1>2, <1>3, <1>4, <1>5
     DEF EvalOther, EvalStart, AssembleDirective, DirectiveError, AssembleError,
         ResolveError, AsmError, AtStatement, AtOutput, IInv, TypeOK,
         AddressesSoFar, AddressesConsistent, ResolvedSoFar, ReferencesResolved,
         FileUntouched
<1>6. CASE BeginAddresses
  BY <1>1, <1>2, <1>3, <1>4, <1>6
     DEF BeginAddresses, IInv, TypeOK, AddressesSoFar, AddressesChain,
         AddressesConsistent, ResolvedSoFar, ReferencesResolved, FileUntouched
<1>7. CASE BeginResolve
  <2>1. i - 1 = Len(output)
    BY <1>2, <1>3, <1>7 DEF BeginResolve, IInv, AddressesSoFar
  <2> QED
    BY <1>1, <1>2, <1>3, <1>4, <1>7, <2>1
       DEF BeginResolve, IInv, TypeOK, AddressesSoFar, AddressesConsistent,
           ResolvedSoFar, ReferencesResolved, FileUntouched
<1>8. CASE ResolveLabel
  <2>1. ResolvedRight(arch, output, i)
    BY <1>2, <1>3, <1>8
       DEF ResolveLabel, AtOutput, IInv, LabelsHaveNoReferences, ResolvedRight
  <2>2. \A k \in DOMAIN output :
          IF k < i + 1 THEN ResolvedRight(arch, output, k) ELSE Unresolved(output, k)
    BY <1>2, <1>3, <1>8, <2>1 DEF ResolveLabel, AtOutput, IInv, ResolvedSoFar
  <2> QED
    BY <1>1, <1>2, <1>3, <1>4, <1>8, <2>2
       DEF ResolveLabel, AtOutput, IInv, TypeOK, AddressesSoFar,
           AddressesConsistent, ResolvedSoFar, ReferencesResolved, FileUntouched
<1>9. CASE OpenOutput
  <2>1. \A k \in DOMAIN output : ResolvedRight(arch, output, k)
    BY <1>2, <1>3, <1>9 DEF OpenOutput, IInv, ResolvedSoFar
  <2> QED
    BY <1>1, <1>2, <1>3, <1>4, <1>9, <2>1
       DEF OpenOutput, IInv, TypeOK, AddressesSoFar, AddressesConsistent,
           ResolvedSoFar, ReferencesResolved, FileUntouched
<1>10. CASE OpenFails \/ WriteFails
  BY <1>1, <1>2, <1>3, <1>4, <1>10
     DEF OpenFails, WriteFails, AtOutput, IInv, TypeOK, AddressesSoFar,
         AddressesConsistent, ResolvedSoFar, ReferencesResolved, FileUntouched,
         OldFile
<1>11. CASE EmitLabel
  BY <1>1, <1>2, <1>3, <1>4, <1>11
     DEF EmitLabel, AtOutput, IInv, TypeOK, AddressesSoFar,
         AddressesConsistent, ResolvedSoFar, ReferencesResolved, FileUntouched
<1>12. CASE EmitInsn \/ CloseOutput \/ CloseLosesData
  <2>1. /\ outfile' = [state |-> outfile'.state, header |-> outfile'.header,
                       words |-> outfile'.words]
        /\ outfile'.state \in {"old", "open", "closed", "truncated"}
    BY <1>12 DEF EmitInsn, CloseOutput, CloseLosesData, IInv, TypeOK
  <2> QED
    BY <1>1, <1>2, <1>3, <1>4, <1>12, <2>1
       DEF EmitInsn, CloseOutput, CloseLosesData, AtOutput, IInv, TypeOK,
           AddressesSoFar, AddressesConsistent, ResolvedSoFar,
           ReferencesResolved, FileUntouched
<1>13. CASE UNCHANGED vars
  BY <1>13, <1>4
     DEF vars, IInv, TypeOK, AddressesSoFar, AddressesConsistent, ResolvedSoFar,
         ReferencesResolved, FileUntouched
<1> QED
  BY <1>5, <1>6, <1>7, <1>8, <1>9, <1>10, <1>11, <1>12, <1>13

LEMMA EvalArchStep ==
    ASSUME IInv, EvalArch
    PROVE  IInv'
<1>1. output = <<>> /\ output' = <<>> /\ pc = "directives" /\ pc' = "directives"
  BY DEF EvalArch, AtStatement, IInv, ResolvedSoFar
<1> QED
  BY <1>1, EmptyFacts
     DEF EvalArch, IInv, TypeOK, StartFirst, LabelsHaveNoReferences,
         AddressesSoFar, AddressesConsistent, ResolvedSoFar, ReferencesResolved,
         FileUntouched

\* Lists while the program is being assembled: the new entry comes last.
LEMMA AssembleStep ==
    ASSUME IInv, BeginAssembly \/ AssembleInsn \/ AssembleLabel
    PROVE  IInv'
<1>1. /\ Len(output) \in Nat /\ DOMAIN output = 1 .. Len(output)
      /\ i \in Nat \ {0}
  BY SequenceFacts DEF IInv, TypeOK
<1>2. \A k \in DOMAIN output : IsEntry(output[k])
  BY DEF IInv, TypeOK
<1>3. /\ pc' = "assemble" /\ arch' = arch /\ address' = address
      /\ outfile' = outfile /\ i' \in Nat \ {0}
  BY <1>1 DEF BeginAssembly, AssembleInsn, AssembleLabel, AtStatement
<1>4. outfile = OldFile
  BY DEF BeginAssembly, AssembleInsn, AssembleLabel, AtStatement, IInv, FileUntouched
<1>5. /\ IsSequence(output')
      /\ \A k \in DOMAIN output' : /\ IsEntry(output'[k])
                                   /\ Unresolved(output', k)
                                   /\ output'[k].start => k = 1
                                   /\ output'[k].type = "label" =>
                                        \A n \in 1 .. 3 :
                                          output'[k].operands[n].type = "normal"
  <2>1. CASE BeginAssembly /\ start = NoName
    BY <2>1, EmptyFacts DEF BeginAssembly
  <2>2. CASE BeginAssembly /\ start # NoName
    <3> DEFINE e == StartJump(arch, start)
    <3>1. output' = Append(<<>>, e)
      BY <2>2 DEF BeginAssembly
    <3>2. /\ IsEntry(e) /\ e.type = "insn"
          /\ \A n \in 1 .. 3 : e.operands[n].type = "labelref" =>
                                 ~e.operands[n].resolved
      BY StartJumpFacts
    <3> HIDE DEF e
    <3>3. IsSequence(output') /\ DOMAIN output' = 1 .. 1 /\ output'[1] = e
      <4>1. /\ IsSequence(Append(<<>>, e))
            /\ DOMAIN Append(<<>>, e) = 1 .. Len(<<>>) + 1
            /\ Append(<<>>, e)[Len(<<>>) + 1] = e
        BY EmptyFacts, AppendFacts
      <4>2. Len(<<>>) + 1 = 1
        BY EmptyFacts
      <4> QED BY <3>1, <4>1, <4>2
    <3> QED BY <3>2, <3>3 DEF Unresolved
  <2>3. CASE AssembleInsn \/ AssembleLabel
    <3>1. PICK e : /\ output' = Append(output, e)
                   /\ IsEntry(e) /\ ~e.start
                   /\ \A n \in 1 .. 3 : e.operands[n].type = "labelref" =>
                                          ~e.operands[n].resolved
                   /\ e.type = "label" =>
                        \A n \in 1 .. 3 : e.operands[n].type = "normal"
      <4>1. CASE AssembleInsn
        <5> DEFINE e == OutInsn(arch, prog[i].insn)
        <5>1. output' = Append(output, e)
          BY <4>1 DEF AssembleInsn
        <5>2. /\ IsEntry(e) /\ e.type = "insn" /\ ~e.start
              /\ \A n \in 1 .. 3 : e.operands[n].type = "labelref" =>
                                     ~e.operands[n].resolved
          BY OutInsnFacts
        <5> HIDE DEF e
        <5> QED BY <5>1, <5>2
      <4>2. CASE AssembleLabel
        <5> DEFINE e == OutLabel(prog[i].name)
        <5>1. output' = Append(output, e)
          BY <4>2 DEF AssembleLabel
        <5>2. /\ IsEntry(e) /\ e.type = "label" /\ ~e.start
              /\ \A n \in 1 .. 3 : e.operands[n].type = "normal"
          BY OutLabelFacts
        <5> HIDE DEF e
        <5> QED BY <5>1, <5>2
      <4> QED BY <2>3, <4>1, <4>2
    <3>2. /\ IsSequence(output')
          /\ DOMAIN output' = 1 .. Len(output) + 1
          /\ \A k \in 1 .. Len(output) : output'[k] = output[k]
          /\ output'[Len(output) + 1] = e
      BY <3>1, AppendFacts DEF IInv
    <3>3. \A k \in DOMAIN output : /\ Unresolved(output, k)
                                   /\ output[k].start => k = 1
                                   /\ output[k].type = "label" =>
                                        \A n \in 1 .. 3 :
                                          output[k].operands[n].type = "normal"
      BY <2>3 DEF AssembleInsn, AssembleLabel, AtStatement, IInv, ResolvedSoFar,
                  StartFirst, LabelsHaveNoReferences
    <3>4. ASSUME NEW k \in DOMAIN output'
          PROVE  /\ IsEntry(output'[k])
                 /\ Unresolved(output', k)
                 /\ output'[k].start => k = 1
                 /\ output'[k].type = "label" =>
                      \A n \in 1 .. 3 : output'[k].operands[n].type = "normal"
      <4>1. CASE k \in 1 .. Len(output)
        <5>1. output'[k] = output[k] /\ k \in DOMAIN output
          BY <1>1, <3>2, <4>1
        <5> QED BY <1>2, <3>3, <5>1 DEF Unresolved
      <4>2. CASE k = Len(output) + 1
        <5>1. output'[k] = e
          BY <3>2, <4>2
        <5> QED BY <3>1, <5>1 DEF Unresolved
      <4> QED BY <1>1, <3>2, <4>1, <4>2
    <3> QED BY <3>2, <3>4
  <2> QED BY <2>1, <2>2, <2>3
<1> QED
  BY <1>3, <1>4, <1>5
     DEF IInv, TypeOK, StartFirst, LabelsHaveNoReferences, AddressesSoFar,
         AddressesConsistent, ResolvedSoFar, ReferencesResolved, FileUntouched

\* The address loop extends the chain of addresses by one entry.
LEMMA CountStep ==
    ASSUME IInv, CountInsn \/ CountLabel
    PROVE  IInv'
<1> DEFINE c == output[i]
           d == [c EXCEPT !.address = address]
<1>1. /\ Len(output) \in Nat /\ DOMAIN output = 1 .. Len(output)
      /\ i \in Nat \ {0} /\ address \in Nat
  BY SequenceFacts DEF IInv, TypeOK
<1>2. /\ pc = "addresses" /\ pc' = "addresses" /\ i \in DOMAIN output
      /\ i' = i + 1 /\ arch' = arch /\ outfile' = outfile
      /\ output' = [output EXCEPT ![i] = d]
  BY <1>1 DEF CountInsn, CountLabel, AtOutput
<1>3. IsEntry(c) /\ Unresolved(output, i)
  BY <1>2 DEF IInv, TypeOK, ResolvedSoFar
<1>4. /\ IsEntry(d) /\ d.address = address
      /\ d.type = c.type /\ d.start = c.start /\ d.operands = c.operands
  BY <1>1, <1>3, EntryWithAddress
<1>5. address' = NextAddress(d)
  BY <1>2, <1>4 DEF CountInsn, CountLabel, AtOutput, NextAddress
<1> HIDE DEF d
<1>6. /\ IsSequence(output') /\ Len(output') = Len(output)
      /\ DOMAIN output' = DOMAIN output
      /\ output'[i] = d
      /\ \A k \in DOMAIN output : k # i => output'[k] = output[k]
  BY <1>2, ExceptFacts DEF IInv
<1>7. \A k \in DOMAIN output' :
        /\ IsEntry(output'[k]) /\ Unresolved(output', k)
        /\ output'[k].type = output[k].type /\ output'[k].start = output[k].start
        /\ output'[k].operands = output[k].operands
  <2> SUFFICES ASSUME NEW k \in DOMAIN output
               PROVE  /\ IsEntry(output'[k]) /\ Unresolved(output', k)
                      /\ output'[k].type = output[k].type
                      /\ output'[k].start = output[k].start
                      /\ output'[k].operands = output[k].operands
    BY <1>6
  <2>1. IsEntry(output[k]) /\ Unresolved(output, k)
    BY <1>2 DEF IInv, TypeOK, ResolvedSoFar
  <2>2. CASE k = i
    BY <1>4, <1>6, <2>1, <2>2 DEF Unresolved
  <2>3. CASE k # i
    BY <1>6, <2>1, <2>3 DEF Unresolved
  <2> QED BY <2>2, <2>3
<1>8. AddressesSoFar'
  <2>1. /\ AddressesChain(output, i - 1)
        /\ address = IF i = 1 THEN 0 ELSE NextAddress(output[i - 1])
    BY <1>2 DEF IInv, AddressesSoFar
  <2>2. output'[1].address = 0
    <3>1. CASE i = 1
      BY <1>4, <1>6, <2>1, <3>1
    <3>2. CASE i # 1
      <4>1. 1 \in DOMAIN output /\ i - 1 >= 1
        BY <1>1, <1>2, <3>2
      <4> QED BY <1>6, <2>1, <3>2, <4>1 DEF AddressesChain
    <3> QED BY <3>1, <3>2
  <2>3. ASSUME NEW k \in 1 .. i - 1
        PROVE  output'[k + 1].address = NextAddress(output'[k])
    <3>1. k \in DOMAIN output /\ k # i /\ output'[k] = output[k]
      BY <1>1, <1>2, <1>6
    <3>2. CASE k = i - 1
      <4>1. k + 1 = i /\ i # 1
        BY <1>1, <3>2
      <4> QED BY <1>4, <1>6, <2>1, <3>1, <3>2, <4>1
    <3>3. CASE k # i - 1
      <4>1. k \in 1 .. (i - 1) - 1 /\ k + 1 \in DOMAIN output /\ k + 1 # i
        BY <1>1, <1>2, <3>3
      <4>2. output[k + 1].address = NextAddress(output[k])
        BY <2>1, <4>1 DEF AddressesChain
      <4> QED BY <1>6, <3>1, <4>1, <4>2
    <3> QED BY <3>2, <3>3
  <2>4. AddressesChain(output', i' - 1)
    <3>1. i' - 1 = i
      BY <1>1, <1>2
    <3> QED BY <2>2, <2>3, <3>1 DEF AddressesChain
  <2>5. i' <= Len(output') + 1 /\ i' # 1 /\ i' - 1 = i
    BY <1>1, <1>2, <1>6
  <2> QED BY <1>5, <1>6, <2>4, <2>5 DEF AddressesSoFar
<1>9. i' \in Nat \ {0} /\ address' \in Nat
  BY <1>1, <1>2, <1>4, <1>5 DEF NextAddress
<1>10. IsSequence(output)' /\ TypeOK'
  BY <1>2, <1>6, <1>7, <1>9 DEF IInv, TypeOK
<1>11. StartFirst' /\ LabelsHaveNoReferences'
  BY <1>6, <1>7 DEF IInv, StartFirst, LabelsHaveNoReferences
<1> QED
  BY <1>2, <1>6, <1>7, <1>8, <1>10, <1>11
     DEF IInv, AddressesConsistent, ResolvedSoFar, ReferencesResolved, FileUntouched

\* Resolving one entry changes no label and no address.
LEMMA ResolveInsnStep ==
    ASSUME IInv, ResolveInsn
    PROVE  IInv'
<1> DEFINE c == output[i]
           f == [n \in 1 .. 3 |-> ResolvedOperand(arch, output, i, n)]
           d == [c EXCEPT !.operands = f]
<1>1. /\ Len(output) \in Nat /\ DOMAIN output = 1 .. Len(output)
      /\ i \in Nat \ {0}
  BY SequenceFacts DEF IInv, TypeOK
<1>2. /\ pc = "resolve" /\ pc' = "resolve" /\ i \in DOMAIN output
      /\ c.type = "insn" /\ Unresolvable(output, i) = {}
      /\ i' = i + 1 /\ arch' = arch /\ outfile' = outfile /\ address' = address
      /\ output' = [output EXCEPT ![i] = d]
  BY <1>1 DEF ResolveInsn, AtOutput
<1>3. IsEntry(c)
  BY <1>2 DEF IInv, TypeOK
<1>4. \A n \in 1 .. 3 :
        /\ IsOutOperand(f[n]) /\ f[n].type = c.operands[n].type
        /\ f[n].label = c.operands[n].label
        /\ f[n].type = "labelref" =>
             /\ f[n].resolved
             /\ f[n].operand =
                  LabelOperand(arch, n, LabelAddress(output, i, c.operands[n].label))
  BY <1>3, ResolvedOperandFacts DEF IsEntry
<1>5. f = [n \in 1 .. 3 |-> f[n]]
  OBVIOUS
<1> HIDE DEF f
<1>6. /\ IsEntry(d) /\ d.operands = f /\ d.type = c.type /\ d.start = c.start
      /\ d.name = c.name /\ d.address = c.address
  BY <1>3, <1>4, <1>5, EntryWithOperands
<1> HIDE DEF d
<1>7. /\ IsSequence(output') /\ Len(output') = Len(output)
      /\ DOMAIN output' = DOMAIN output
      /\ output'[i] = d
      /\ \A k \in DOMAIN output : k # i => output'[k] = output[k]
  BY <1>2, ExceptFacts DEF IInv
<1>8. \A k \in DOMAIN output :
        /\ IsEntry(output'[k])
        /\ output'[k].type = output[k].type /\ output'[k].start = output[k].start
        /\ output'[k].name = output[k].name
        /\ output'[k].address = output[k].address
  BY <1>6, <1>7 DEF IInv, TypeOK
<1>9. \A k, ref :
        /\ HasTarget(output', k, ref) <=> HasTarget(output, k, ref)
        /\ HasTarget(output, k, ref) =>
             LabelAddress(output', k, ref) = LabelAddress(output, k, ref)
  BY <1>7, <1>8, SameLabels
<1>10. ResolvedRight(arch, output', i)
  <2>1. \A n \in 1 .. 3 : c.operands[n].type = "labelref" =>
                            HasTarget(output, i, c.operands[n].label)
    BY <1>2 DEF Unresolvable
  <2> QED BY <1>4, <1>6, <1>7, <1>9, <2>1 DEF ResolvedRight
<1>11. ASSUME NEW k \in DOMAIN output
       PROVE  IF k < i + 1 THEN ResolvedRight(arch, output', k)
              ELSE Unresolved(output', k)
  <2>1. IF k < i THEN ResolvedRight(arch, output, k) ELSE Unresolved(output, k)
    BY <1>2 DEF IInv, ResolvedSoFar
  <2>2. CASE k < i
    <3>1. output'[k] = output[k] /\ k < i + 1
      BY <1>1, <1>7, <2>2
    <3>2. ResolvedRight(arch, output, k)
      BY <2>1, <2>2
    <3> QED BY <1>9, <3>1, <3>2 DEF ResolvedRight
  <2>3. CASE k = i
    <3>1. k < i + 1
      BY <1>1, <2>3
    <3> QED BY <1>10, <2>3, <3>1
  <2>4. CASE k > i
    <3>1. output'[k] = output[k] /\ ~(k < i + 1) /\ ~(k < i)
      BY <1>1, <1>7, <2>4
    <3> QED BY <2>1, <3>1 DEF Unresolved
  <2> QED BY <1>1, <2>2, <2>3, <2>4
<1>12. AddressesChain(output', Len(output'))
  <2>1. AddressesChain(output, Len(output))
    BY <1>2 DEF IInv, AddressesConsistent
  <2>2. \A k \in DOMAIN output : NextAddress(output'[k]) = NextAddress(output[k])
    BY <1>8 DEF NextAddress
  <2>3. \A k \in 1 .. Len(output) - 1 : k \in DOMAIN output /\ k + 1 \in DOMAIN output
    BY <1>1
  <2>4. Len(output) >= 1 => 1 \in DOMAIN output
    BY <1>1
  <2> QED BY <1>7, <1>8, <2>1, <2>2, <2>3, <2>4 DEF AddressesChain
<1>13. IsSequence(output)' /\ TypeOK' /\ StartFirst'
  BY <1>1, <1>2, <1>7, <1>8 DEF IInv, TypeOK, StartFirst
<1>14. LabelsHaveNoReferences'
  <2> SUFFICES ASSUME NEW k \in DOMAIN output, output'[k].type = "label"
               PROVE  \A n \in 1 .. 3 : output'[k].operands[n].type = "normal"
    BY <1>7 DEF LabelsHaveNoReferences
  <2>1. k # i
    BY <1>2, <1>8
  <2> QED BY <1>7, <2>1 DEF IInv, LabelsHaveNoReferences
<1>15. ResolvedSoFar'
  <2>1. i' <= Len(output') + 1
    BY <1>1, <1>2, <1>7
  <2>2. \A k \in DOMAIN output' :
          IF k < i' THEN ResolvedRight(arch', output', k) ELSE Unresolved(output', k)
    BY <1>2, <1>7, <1>11
  <2> QED BY <1>2, <2>1, <2>2 DEF ResolvedSoFar
<1> QED
  BY <1>2, <1>12, <1>13, <1>14, <1>15
     DEF IInv, AddressesSoFar, AddressesConsistent, ReferencesResolved, FileUntouched

\* Removing the %start jump: it is the first entry, so nothing is resolved yet.
LEMMA RemoveStartUnresolved ==
    ASSUME IInv, RemoveStart
    PROVE  i = 1 /\ Len(output) >= 1 /\ \A k \in DOMAIN output : Unresolved(output, k)
<1>1. /\ Len(output) \in Nat /\ DOMAIN output = 1 .. Len(output)
      /\ i \in Nat \ {0}
  BY SequenceFacts DEF IInv, TypeOK
<1>2. pc = "resolve" /\ i \in DOMAIN output /\ output[i].start
  BY <1>1 DEF RemoveStart, AtOutput, NeedlessStart
<1>3. i = 1
  BY <1>2 DEF IInv, StartFirst
<1>4. \A k \in DOMAIN output : ~(k < i)
  BY <1>1, <1>3
<1> QED BY <1>1, <1>2, <1>3, <1>4 DEF IInv, ResolvedSoFar

LEMMA RemoveStartStep ==
    ASSUME IInv, RemoveStart
    PROVE  IInv'
<1>1. Len(output) \in Nat /\ DOMAIN output = 1 .. Len(output)
  BY SequenceFacts DEF IInv
<1>2. i = 1 /\ Len(output) >= 1 /\ \A k \in DOMAIN output : Unresolved(output, k)
  BY RemoveStartUnresolved
<1>3. /\ pc' = "addresses" /\ i' = 1 /\ address' = 0
      /\ arch' = arch /\ outfile' = outfile /\ output' = RemoveAt(output, 1)
      /\ pc = "resolve"
  BY <1>2 DEF RemoveStart, AtOutput
<1>4. /\ IsSequence(output') /\ Len(output') = Len(output) - 1
      /\ \A k \in 1 .. Len(output) - 1 : output'[k] = output[k + 1]
  BY <1>2, <1>3, RemoveFirstFacts DEF IInv
<1>5. DOMAIN output' = 1 .. Len(output) - 1
  BY <1>4, SequenceFacts
<1>6. ASSUME NEW k \in DOMAIN output'
      PROVE  /\ IsEntry(output'[k]) /\ Unresolved(output', k) /\ ~output'[k].start
             /\ output'[k].type = "label" =>
                  \A n \in 1 .. 3 : output'[k].operands[n].type = "normal"
  <2>1. k + 1 \in DOMAIN output /\ k + 1 # 1 /\ output'[k] = output[k + 1]
    BY <1>1, <1>4, <1>5
  <2>2. Unresolved(output', k)
    BY <1>2, <2>1 DEF Unresolved
  <2> QED
    BY <2>1, <2>2 DEF IInv, TypeOK, StartFirst, LabelsHaveNoReferences
<1>7. AddressesSoFar'
  BY <1>1, <1>3, <1>4 DEF AddressesSoFar, AddressesChain
<1> QED
  BY <1>3, <1>4, <1>6, <1>7
     DEF IInv, TypeOK, StartFirst, LabelsHaveNoReferences, AddressesConsistent,
         ResolvedSoFar, ReferencesResolved, FileUntouched

LEMMA StepInv == IInv /\ [Next]_vars => IInv'
BY QuietStep, EvalArchStep, AssembleStep, CountStep, ResolveInsnStep, RemoveStartStep
   DEF Next
-----------------------------------------------------------------------------
\* The inductive invariant holds in every state of every run.
THEOREM Invariant == Spec => []IInv
<1>1. Init => IInv
  BY InitInv
<1>2. IInv /\ [Next]_vars => IInv'
  BY StepInv
<1> QED BY <1>1, <1>2, PTL DEF Spec

\* Whatever programs b43-asm is given, its lists keep their shape.
THEOREM TypesCorrect == Spec => []TypeOK
<1>1. IInv => TypeOK
  BY DEF IInv
<1> QED BY <1>1, Invariant, PTL

\* Label addresses always count the instructions of the final list, also when
\* the %start jump was removed after addresses had been given out.
THEOREM AddressesAreConsistent == Spec => []AddressesConsistent
<1>1. IInv => AddressesConsistent
  BY DEF IInv
<1> QED BY <1>1, Invariant, PTL

\* Code is never written from an unresolved or stale reference.
THEOREM ReferencesAreResolved == Spec => []ReferencesResolved
<1>1. IInv => ReferencesResolved
  BY DEF IInv
<1> QED BY <1>1, Invariant, PTL

\* resolve_labels never restarts after it has overwritten a label pointer.
THEOREM RestartsBeforeResolving == Spec => RestartBeforeResolving
<1>1. ASSUME IInv, [Next]_vars, pc = "resolve", pc' = "addresses"
      PROVE  \A k \in DOMAIN output : Unresolved(output, k)
  <2>1. RemoveStart
    BY <1>1
       DEF Next, vars, EvalArch, EvalStart, EvalOther, DirectiveError,
           BeginAssembly, AssembleInsn, AssembleLabel, AssembleDirective,
           AssembleError, BeginAddresses, CountInsn, CountLabel, BeginResolve,
           ResolveInsn, ResolveLabel, ResolveError, OpenOutput, OpenFails,
           EmitInsn, EmitLabel, WriteFails, CloseOutput, CloseLosesData,
           AtStatement, AtOutput, AsmError
  <2> QED BY <1>1, <2>1, RemoveStartUnresolved
<1>2. IInv /\ [Next]_vars =>
        [pc = "resolve" /\ pc' = "addresses" =>
           \A k \in DOMAIN output : Unresolved(output, k)]_vars
  BY <1>1
<1> QED BY <1>2, Invariant, PTL DEF Spec, RestartBeforeResolving

\* Every error of a program is found before its output file is opened.
THEOREM RejectionKeepsFile == Spec => []RejectedKeepsFile
<1>1. IInv => RejectedKeepsFile
  BY DEF IInv, FileUntouched, RejectedKeepsFile
<1> QED BY <1>1, Invariant, PTL
-----------------------------------------------------------------------------
\* The warnings about RET. What do_assemble_ret looks at is the list it has
\* made so far; what the warning is about is the program.
LastInsn(p, k) ==
    LET before == {l \in 1 .. k - 1 : p[l].kind = "insn"}
    IN  IF before = {} THEN 0 ELSE CHOOSE l \in before : \A m \in before : m <= l

JumpBefore(p, s, k) ==
    IF LastInsn(p, k) = 0 THEN s # NoName
    ELSE IsJump(p[LastInsn(p, k)].insn) /\ p[LastInsn(p, k)].insn.op # "jg"

WarnedUpTo(p, s, warned, n) ==
    \A k \in 1 .. n :
        (p[k].kind = "insn" /\ p[k].insn.op = "ret") =>
            (k \in warned <=> JumpBefore(p, s, k))

WarningsSoFar ==
    /\ pc = "directives" => retWarnings = {}
    /\ pc = "assemble" =>
          /\ i <= Len(prog) + 1 /\ retWarnings \subseteq 1 .. i - 1
          /\ FollowsJump(output) <=> JumpBefore(prog, start, i)
          /\ WarnedUpTo(prog, start, retWarnings, i - 1)
    /\ pc \in {"addresses", "resolve", "emit", "done"} =>
          WarnedUpTo(prog, start, retWarnings, Len(prog))

WarnInv == IInv /\ prog \in Programs /\ WarningsSoFar

LEMMA ProgFacts ==
    ASSUME prog \in Programs
    PROVE  Len(prog) \in Nat /\ DOMAIN prog = 1 .. Len(prog)
BY ProgramsAssumption

\* Which instructions set is_jump_insn.
LEMMA JumpFlags ==
    ASSUME NEW a, NEW insn
    PROVE  OutInsn(a, insn).jump <=> IsJump(insn) /\ insn.op # "jg"
<1> DEFINE real == Emulated(a, insn)
<1>1. OutInsn(a, insn).jump <=> real.op \in SetsJumpFlag
  BY DEF OutInsn
<1>2. DOMAIN JumpOpcode =
        {"jand", "jnand", "js", "jns", "je", "jne", "jls", "jges", "jgs", "jles", "jl", "jge",
         "jg", "jle", "jdn", "jdpz", "jdp", "jdnz"}
  BY DEF JumpOpcode
<1>3. CASE insn.op = "mov"
  <2>1. real.op \in {"or", "orx"}
    BY <1>3 DEF Emulated, EmulatedMov, Insn
  <2> QED BY <1>1, <1>2, <1>3, <2>1 DEF SetsJumpFlag, IsJump
<1>4. CASE insn.op = "jmp"
  <2>1. real.op = "jext"
    BY <1>4 DEF Emulated, EmulatedJmp, Insn
  <2> QED BY <1>1, <1>2, <1>4, <2>1 DEF SetsJumpFlag, IsJump
<1>5. CASE insn.op \in {"jand", "jnand"}
  <2>1. real = EmulatedJand(a, insn)
    BY <1>5 DEF Emulated
  <2>2. real.op \in {"jnzx", "jzx", insn.op}
    <3>1. CASE IsLongJand(a, insn.opers[1], insn.opers[2])
      BY <2>1, <3>1 DEF EmulatedJand, Insn
    <3>2. CASE ~IsLongJand(a, insn.opers[1], insn.opers[2])
      BY <2>1, <3>2 DEF EmulatedJand
    <3> QED BY <3>1, <3>2
  <2> HIDE DEF real
  <2> QED BY <1>1, <1>2, <1>5, <2>2 DEF SetsJumpFlag, IsJump
<1>6. CASE insn.op \notin {"mov", "jmp", "jand", "jnand"}
  <2>1. real = insn
    BY <1>6 DEF Emulated
  <2> HIDE DEF real
  <2> QED BY <1>1, <1>2, <1>6, <2>1 DEF SetsJumpFlag, IsJump
<1> QED BY <1>3, <1>4, <1>5, <1>6

\* The last instruction of a list.
LEMMA FollowsInsn ==
    ASSUME NEW out, IsSequence(out), NEW e, e.type = "insn"
    PROVE  FollowsJump(Append(out, e)) <=> e.jump
<1> DEFINE new == Append(out, e)
           n == Len(out)
<1>1. /\ n \in Nat /\ DOMAIN new = 1 .. n + 1 /\ new[n + 1] = e
  BY AppendFacts, SequenceFacts
<1> HIDE DEF new, n
<1>2. ASSUME e.jump PROVE FollowsJump(new)
  <2>1. n + 1 \in DOMAIN new /\ \A l \in DOMAIN new : ~(l > n + 1)
    BY <1>1
  <2> QED BY <1>1, <1>2, <2>1 DEF FollowsJump
<1>3. ASSUME FollowsJump(new) PROVE e.jump
  <2>1. PICK k \in DOMAIN new : new[k].jump /\ \A l \in DOMAIN new : l > k => new[l].type = "label"
    BY <1>3 DEF FollowsJump
  <2>2. k \in 1 .. n + 1 /\ n + 1 \in DOMAIN new /\ ~(n + 1 > k)
    BY <1>1, <2>1
  <2>3. k = n + 1
    BY <1>1, <2>2
  <2> QED BY <1>1, <2>1, <2>3
<1> QED BY <1>2, <1>3 DEF new

LEMMA FollowsLabel ==
    ASSUME NEW out, IsSequence(out), NEW e, e.type = "label"
    PROVE  FollowsJump(Append(out, e)) <=> FollowsJump(out)
<1> DEFINE new == Append(out, e)
           n == Len(out)
<1>1. /\ n \in Nat /\ DOMAIN out = 1 .. n /\ DOMAIN new = 1 .. n + 1 /\ new[n + 1] = e
      /\ \A k \in 1 .. n : new[k] = out[k]
  BY AppendFacts, SequenceFacts
<1> HIDE DEF new, n
<1>2. ASSUME FollowsJump(out) PROVE FollowsJump(new)
  <2>1. PICK k \in 1 .. n : /\ out[k].type = "insn" /\ out[k].jump
                           /\ \A l \in 1 .. n : l > k => out[l].type = "label"
    BY <1>1, <1>2 DEF FollowsJump
  <2>2. /\ k \in 1 .. n + 1 /\ new[k] = out[k]
        /\ \A l \in 1 .. n + 1 : l \in 1 .. n \/ l = n + 1
    BY <1>1
  <2>3. \A l \in 1 .. n + 1 : l > k => new[l].type = "label"
    BY <1>1, <2>1, <2>2
  <2> QED BY <1>1, <2>1, <2>2, <2>3 DEF FollowsJump
<1>3. ASSUME FollowsJump(new) PROVE FollowsJump(out)
  <2>1. PICK k \in 1 .. n + 1 : /\ new[k].type = "insn" /\ new[k].jump
                               /\ \A l \in 1 .. n + 1 : l > k => new[l].type = "label"
    BY <1>1, <1>3 DEF FollowsJump
  <2>2. k # n + 1
    BY <1>1, <2>1
  <2>3. k \in 1 .. n /\ \A l \in 1 .. n : l \in 1 .. n + 1
    BY <1>1, <2>2
  <2> QED BY <1>1, <2>1, <2>3 DEF FollowsJump
<1> QED BY <1>2, <1>3 DEF new

LEMMA LastInsnNext ==
    ASSUME NEW p, NEW k \in Nat \ {0}
    PROVE  LastInsn(p, k + 1) = IF p[k].kind = "insn" THEN k ELSE LastInsn(p, k)
<1> DEFINE S == {l \in 1 .. (k + 1) - 1 : p[l].kind = "insn"}
           R == {l \in 1 .. k - 1 : p[l].kind = "insn"}
           c == CHOOSE l \in S : \A m \in S : m <= l
<1>1. \A l : l \in 1 .. (k + 1) - 1 <=> l \in 1 .. k - 1 \/ l = k
  OBVIOUS
<1>2. LastInsn(p, k + 1) = IF S = {} THEN 0 ELSE c
  BY DEF LastInsn
<1>3. CASE p[k].kind = "insn"
  <2>1. k \in S /\ \A l \in S : l <= k /\ l \in Nat
    BY <1>3
  <2> HIDE DEF S
  <2>2. c \in S /\ \A m \in S : m <= c
    BY <2>1
  <2>3. c = k
    <3> HIDE DEF c
    <3> QED BY <2>1, <2>2
  <2> QED BY <1>2, <1>3, <2>1, <2>3
<1>4. CASE p[k].kind # "insn"
  <2>1. S = R
    BY <1>1, <1>4
  <2>2. LastInsn(p, k) = IF R = {} THEN 0 ELSE CHOOSE l \in R : \A m \in R : m <= l
    BY DEF LastInsn
  <2> HIDE DEF S, R
  <2> QED BY <1>2, <1>4, <2>1, <2>2
<1> QED BY <1>3, <1>4

LEMMA WarnInit == Init => WarnInv
BY InitInv DEF Init, WarnInv, WarningsSoFar

LEMMA WarnDirectives ==
    ASSUME WarnInv, EvalArch \/ EvalStart \/ EvalOther
    PROVE  prog' \in Programs /\ WarningsSoFar'
BY DEF EvalArch, EvalStart, EvalOther, AtStatement, WarnInv, WarningsSoFar

LEMMA WarnBegin ==
    ASSUME WarnInv, BeginAssembly
    PROVE  prog' \in Programs /\ WarningsSoFar'
<1>1. /\ pc = "directives" /\ pc' = "assemble" /\ i' = 1 /\ retWarnings = {}
      /\ UNCHANGED <<prog, start, retWarnings>>
      /\ output' = IF start = NoName THEN <<>> ELSE <<StartJump(arch, start)>>
  BY DEF BeginAssembly, WarnInv, WarningsSoFar
<1>2. prog \in Programs /\ Len(prog) \in Nat
  BY ProgFacts DEF WarnInv
<1>3. JumpBefore(prog, start, 1) <=> start # NoName
  BY DEF LastInsn, JumpBefore
<1>4. FollowsJump(output') <=> start # NoName
  <2>1. CASE start = NoName
    BY <1>1, <2>1, EmptyFacts DEF FollowsJump
  <2>2. CASE start # NoName
    <3> DEFINE insn == Insn("jmp", <<LabelOper(start, "absolute")>>)
               c == OutInsn(arch, insn)
               e == StartJump(arch, start)
    <3>1. c.jump <=> IsJump(insn) /\ insn.op # "jg"
      BY JumpFlags
    <3>2. insn.op = "jmp"
      BY DEF Insn
    <3>3. c.jump /\ c.type = "insn" /\ IsEntry(c)
      BY <3>1, <3>2, OutInsnFacts DEF IsJump
    <3>4. e = [c EXCEPT !.start = TRUE]
      BY DEF StartJump
    <3> HIDE DEF c, insn
    <3>5. e.jump /\ e.type = "insn"
      BY <3>3, <3>4 DEF IsEntry
    <3> HIDE DEF e
    <3>6. output' = Append(<<>>, e)
      BY <1>1, <2>2 DEF e
    <3> QED BY <2>2, <3>5, <3>6, EmptyFacts, FollowsInsn
  <2> QED BY <2>1, <2>2
<1>5. WarnedUpTo(prog, start, retWarnings, 0)
  BY DEF WarnedUpTo
<1> QED BY <1>1, <1>2, <1>3, <1>4, <1>5 DEF WarningsSoFar

LEMMA WarnAssemble ==
    ASSUME WarnInv, AssembleInsn \/ AssembleLabel \/ AssembleDirective
    PROVE  prog' \in Programs /\ WarningsSoFar'
<1>1. /\ pc = "assemble" /\ pc' = "assemble" /\ i' = i + 1 /\ i <= Len(prog)
      /\ UNCHANGED <<prog, start>>
  BY DEF AssembleInsn, AssembleLabel, AssembleDirective, AtStatement
<1>2. /\ prog \in Programs /\ Len(prog) \in Nat /\ i \in Nat \ {0} /\ IsSequence(output)
  BY ProgFacts DEF WarnInv, IInv, TypeOK
<1>3. /\ retWarnings \subseteq 1 .. i - 1
      /\ FollowsJump(output) <=> JumpBefore(prog, start, i)
      /\ WarnedUpTo(prog, start, retWarnings, i - 1)
  BY <1>1 DEF WarnInv, WarningsSoFar
<1>4. i \notin retWarnings /\ \A k : k \in 1 .. i <=> k \in 1 .. i - 1 \/ k = i
  BY <1>2, <1>3
<1>5. LastInsn(prog, i + 1) = IF prog[i].kind = "insn" THEN i ELSE LastInsn(prog, i)
  BY <1>2, LastInsnNext
<1>6. /\ FollowsJump(output') <=> JumpBefore(prog, start, i + 1)
      /\ retWarnings' \subseteq 1 .. i
      /\ \A k \in 1 .. i - 1 : k \in retWarnings' <=> k \in retWarnings
      /\ (prog[i].kind = "insn" /\ prog[i].insn.op = "ret") => (i \in retWarnings' <=> JumpBefore(prog, start, i))
  <2>1. CASE AssembleInsn
    <3>1. /\ prog[i].kind = "insn" /\ output' = Append(output, OutInsn(arch, prog[i].insn))
          /\ retWarnings' = IF prog[i].insn.op = "ret" /\ FollowsJump(output)
                            THEN retWarnings \cup {i} ELSE retWarnings
      BY <2>1 DEF AssembleInsn, AtStatement
    <3>2. OutInsn(arch, prog[i].insn).type = "insn"
      BY DEF OutInsn
    <3>3. FollowsJump(output') <=> OutInsn(arch, prog[i].insn).jump
      BY <1>2, <3>1, <3>2, FollowsInsn
    <3>4. FollowsJump(output') <=> IsJump(prog[i].insn) /\ prog[i].insn.op # "jg"
      BY <3>3, JumpFlags
    <3>5. FollowsJump(output') <=> JumpBefore(prog, start, i + 1)
      BY <1>2, <1>5, <3>1, <3>4 DEF JumpBefore
    <3>6. /\ retWarnings' \subseteq 1 .. i
          /\ \A k \in 1 .. i - 1 : k \in retWarnings' <=> k \in retWarnings
      BY <1>2, <1>3, <1>4, <3>1
    <3>7. prog[i].insn.op = "ret" => (i \in retWarnings' <=> FollowsJump(output))
      BY <1>4, <3>1
    <3> QED BY <1>3, <3>5, <3>6, <3>7
  <2>2. CASE AssembleLabel \/ AssembleDirective
    <3>1. prog[i].kind # "insn" /\ retWarnings' = retWarnings
      BY <2>2 DEF AssembleLabel, AssembleDirective, AtStatement
    <3>2. FollowsJump(output') <=> FollowsJump(output)
      <4>1. CASE AssembleLabel
        <5>1. output' = Append(output, OutLabel(prog[i].name)) /\ OutLabel(prog[i].name).type = "label"
          BY <4>1 DEF AssembleLabel, OutLabel
        <5> QED BY <1>2, <5>1, FollowsLabel
      <4>2. CASE AssembleDirective
        BY <4>2 DEF AssembleDirective
      <4> QED BY <2>2, <4>1, <4>2
    <3>3. JumpBefore(prog, start, i + 1) <=> JumpBefore(prog, start, i)
      BY <1>5, <3>1 DEF JumpBefore
    <3>4. retWarnings' \subseteq 1 .. i
      BY <1>3, <1>4, <3>1
    <3> QED BY <1>3, <3>1, <3>2, <3>3, <3>4
  <2> QED BY <2>1, <2>2
<1>7. WarnedUpTo(prog, start, retWarnings', i)
  <2> SUFFICES ASSUME NEW k \in 1 .. i, prog[k].kind = "insn" /\ prog[k].insn.op = "ret"
               PROVE  k \in retWarnings' <=> JumpBefore(prog, start, k)
    BY DEF WarnedUpTo
  <2>1. CASE k = i
    BY <1>6, <2>1
  <2>2. CASE k \in 1 .. i - 1
    BY <1>3, <1>6, <2>2 DEF WarnedUpTo
  <2> QED BY <1>4, <2>1, <2>2
<1>8. i + 1 <= Len(prog) + 1 /\ (i + 1) - 1 = i
  BY <1>1, <1>2
<1> QED BY <1>1, <1>2, <1>6, <1>7, <1>8 DEF WarningsSoFar

LEMMA WarnAddresses ==
    ASSUME WarnInv, BeginAddresses
    PROVE  prog' \in Programs /\ WarningsSoFar'
<1>1. /\ pc = "assemble" /\ pc' = "addresses" /\ i > Len(prog)
      /\ UNCHANGED <<prog, start, retWarnings>>
  BY DEF BeginAddresses
<1>2. /\ prog \in Programs /\ Len(prog) \in Nat /\ i \in Nat \ {0} /\ i <= Len(prog) + 1 
      /\ WarnedUpTo(prog, start, retWarnings, i - 1)
  BY <1>1, ProgFacts DEF WarnInv, WarningsSoFar, IInv, TypeOK
<1>3. i - 1 = Len(prog)
  BY <1>1, <1>2
<1>4. WarnedUpTo(prog, start, retWarnings, Len(prog))
  BY <1>2, <1>3
<1> QED BY <1>1, <1>2, <1>4 DEF WarningsSoFar

LEMMA WarnOthers ==
    ASSUME WarnInv,
           \/ DirectiveError \/ AssembleError \/ CountInsn \/ CountLabel \/ BeginResolve
           \/ ResolveInsn \/ RemoveStart \/ ResolveLabel \/ ResolveError
           \/ OpenOutput \/ OpenFails \/ EmitInsn \/ EmitLabel \/ WriteFails
           \/ CloseOutput \/ CloseLosesData \/ UNCHANGED vars
    PROVE  prog' \in Programs /\ WarningsSoFar'
<1>1. CASE UNCHANGED vars
  <2>1. UNCHANGED <<prog, start, pc, i, retWarnings, output>>
    BY <1>1 DEF vars
  <2> QED BY <2>1 DEF WarnInv, WarningsSoFar, FollowsJump
<1>2. CASE ~UNCHANGED vars
  <2>1. /\ UNCHANGED <<prog, start, retWarnings>>
        /\ pc' \notin {"directives", "assemble"}
        /\ \/ pc' \in {"error", "ioerror"}
           \/ pc \in {"addresses", "resolve", "emit", "done"}
    BY <1>2 DEF DirectiveError, AssembleError, CountInsn, CountLabel, BeginResolve, ResolveInsn,
                RemoveStart, ResolveLabel, ResolveError, OpenOutput, OpenFails, EmitInsn, EmitLabel,
                WriteFails, CloseOutput, CloseLosesData, AsmError, AtOutput
  <2> QED BY <2>1 DEF WarnInv, WarningsSoFar
<1> QED BY <1>1, <1>2

\* do_assemble_ret decides by the last entry of the list that is no label. For
\* every program that is the instruction before the RET or, if there is none,
\* the %start jump: the warnings are given for these, and for no other reason. A
\* RET behind JG is left open.
THEOREM WarningsAreJustified == Spec => []RetWarningsJustified
<1>1. Init => WarnInv
  BY WarnInit
<1>2. WarnInv /\ [Next]_vars => WarnInv'
  <2> SUFFICES ASSUME WarnInv, [Next]_vars PROVE WarnInv'
    OBVIOUS
  <2>1. IInv'
    BY StepInv DEF WarnInv
  <2>2. prog' \in Programs /\ WarningsSoFar'
    BY WarnDirectives, WarnBegin, WarnAssemble, WarnAddresses, WarnOthers DEF Next
  <2> QED BY <2>1, <2>2 DEF WarnInv
<1>3. WarnInv => RetWarningsJustified
  <2>1. \A k : InsnBefore(k) = LastInsn(prog, k)
    BY DEF InsnBefore, LastInsn
  <2>2. ASSUME NEW k, ~BehindJg(k)
        PROVE  JumpBefore(prog, start, k) <=>
                  IF InsnBefore(k) = 0 THEN start # NoName ELSE IsJump(prog[InsnBefore(k)].insn)
    BY <2>1, <2>2 DEF JumpBefore, BehindJg
  <2> QED BY <2>2, ProgFacts DEF WarnInv, WarningsSoFar, WarnedUpTo, RetWarningsJustified
<1> QED BY <1>1, <1>2, <1>3, PTL DEF Spec
-----------------------------------------------------------------------------
\* A program and its meaning (AsmMeaning).

\* Programs as the parser makes them.
IsProgram(p) ==
    /\ Len(p) \in Nat /\ DOMAIN p = 1 .. Len(p)
    /\ \A k \in DOMAIN p :
          /\ p[k].kind \in {"arch", "start", "label", "insn"}
          /\ p[k].kind = "arch" => p[k].arch \in Nat
          /\ p[k].kind = "start" => p[k].name # NoName
          /\ p[k].kind = "insn" => \A a \in Arches, n \in 1 .. 3 :
                MachineOperands(Emulated(a, p[k].insn))[n].t = "label" =>
                   MachineOperands(Emulated(a, p[k].insn))[n].dir \in {"absolute", "back", "forward"}

LEMMA ProgramType ==
    ASSUME NEW p \in Programs
    PROVE  IsProgram(p)
BY ProgramsAssumption, Zenon DEF IsProgram

\* What eval_directives knows of the first n statements.
Directives(p, a, s, n) ==
    /\ IF a = 0 THEN \A l \in 1 .. n : p[l].kind # "arch"
       ELSE \E k \in 1 .. n : /\ p[k].kind = "arch" /\ a = ArchFallback(p[k].arch) /\ a \in Arches
                              /\ \A l \in 1 .. n : p[l].kind = "arch" => l = k
    /\ IF s = NoName THEN \A l \in 1 .. n : p[l].kind # "start"
       ELSE \E k \in 1 .. n : /\ p[k].kind = "start" /\ s = p[k].name
                              /\ \A l \in 1 .. n : p[l].kind = "start" => l = k

\* AsmMeaning reads operands and instructions with the same operators, which
\* its instance has under names of its own.
LEMMA SameOperators ==
    /\ Meaning!Arches = Arches
    /\ \A S : Meaning!Cardinality(S) = Cardinality(S)
    /\ \A a, insn : Meaning!Emulated(a, insn) = Emulated(a, insn)
    /\ \A a, o : Meaning!OperandWord(a, o) = OperandWord(a, o)
    /\ \A a, n, addr : Meaning!LabelOperand(a, n, addr) = LabelOperand(a, n, addr)
    /\ \A a, op, opers : Meaning!CodeWord(a, op, opers) = CodeWord(a, op, opers)
    /\ \A insn : Meaning!MachineOperands(insn) = MachineOperands(insn)
    /\ \A insn : Meaning!Opcode(insn) = Opcode(insn)
    /\ \A a, insn : Meaning!InsnError(a, insn) <=> InsnError(a, insn)
    /\ \A op, opers : Meaning!Insn(op, opers) = Insn(op, opers)
<1>1. Meaning!Arches = Arches
  BY DEF Meaning!Arches, Arches
<1>2. ASSUME NEW S PROVE Meaning!Cardinality(S) = Cardinality(S)
  BY DEF Meaning!Cardinality, Cardinality
<1>3. ASSUME NEW a, NEW insn PROVE Meaning!Emulated(a, insn) = Emulated(a, insn)
  BY DEF Meaning!Emulated, Emulated, Meaning!EmulatedJand, EmulatedJand,
         Meaning!EmulatedMov, EmulatedMov, Meaning!EmulatedJmp, EmulatedJmp, Meaning!Insn,
         Insn, Meaning!RAW, RAW, Meaning!IMM, IMM, Meaning!Bits, Bits, Meaning!Field,
         Field, Meaning!LongMov, LongMov, Meaning!IsValidImm, IsValidImm,
         Meaning!IsLongJand, IsLongJand, Meaning!LongMasks, LongMasks, Meaning!LowestBit,
         LowestBit, Meaning!Cardinality, Cardinality, Meaning!IsPossibleImm, IsPossibleImm,
         Meaning!ImmNrBits, ImmNrBits
<1>4. ASSUME NEW a, NEW o PROVE Meaning!OperandWord(a, o) = OperandWord(a, o)
  BY DEF Meaning!OperandWord, OperandWord, Meaning!ImmOperand, ImmOperand,
         Meaning!ClassBits, ClassBits, Meaning!Shl, Shl, Meaning!Bits, Bits,
         Meaning!ImmNrBits, ImmNrBits, Meaning!RegOperand, RegOperand, Meaning!RegClass,
         RegClass, Meaning!MemOperand, MemOperand, Meaning!DirectBits, DirectBits,
         Meaning!IndirectOperand, IndirectOperand, Meaning!IndirectBits, IndirectBits
<1>5. ASSUME NEW a, NEW n, NEW addr PROVE Meaning!LabelOperand(a, n, addr) = LabelOperand(a, n, addr)
  BY DEF Meaning!LabelOperand, LabelOperand, Meaning!ClassBits, ClassBits, Meaning!Shl,
         Shl, Meaning!Bits, Bits
<1>6. ASSUME NEW a, NEW op, NEW opers PROVE Meaning!CodeWord(a, op, opers) = CodeWord(a, op, opers)
  BY DEF Meaning!CodeWord, CodeWord, Meaning!OperandBits, OperandBits, Meaning!Shl, Shl
<1>7. ASSUME NEW insn PROVE Meaning!MachineOperands(insn) = MachineOperands(insn)
  BY DEF Meaning!MachineOperands, MachineOperands, Meaning!ExtOpcode, ExtOpcode,
         Meaning!CondOpcode, CondOpcode, Meaning!GPR0, GPR0
<1>8. ASSUME NEW insn PROVE Meaning!Opcode(insn) = Opcode(insn)
  BY DEF Meaning!Opcode, Opcode, Meaning!ExtOpcode, ExtOpcode, Meaning!CondOpcode,
         CondOpcode, Meaning!AluOpcode, AluOpcode, Meaning!JumpOpcode, JumpOpcode,
         Meaning!OtherOpcode, OtherOpcode, Meaning!Bits, Bits, Meaning!Shl, Shl
<1>9. ASSUME NEW a, NEW insn PROVE Meaning!InsnError(a, insn) <=> InsnError(a, insn)
  <2>1. Meaning!EmulationError(a, insn) <=> EmulationError(a, insn)
    BY DEF Meaning!EmulationError, EmulationError, Meaning!IsPossibleImm, IsPossibleImm,
           Meaning!IsLongJand, IsLongJand, Meaning!LongMasks, LongMasks,
           Meaning!IsContiguousBitmask, IsContiguousBitmask, Meaning!IsValidImm, IsValidImm,
           Meaning!IsPowerOfTwo, IsPowerOfTwo, Meaning!Increment, Increment,
           Meaning!LowestBit, LowestBit, Meaning!ImmNrBits, ImmNrBits,
           Meaning!Cardinality, Cardinality
  <2>2. \A x : Meaning!MergeError(x) <=> MergeError(x)
    BY DEF Meaning!MergeError, MergeError, Meaning!ExtOpcode, ExtOpcode,
           Meaning!CondOpcode, CondOpcode
  <2>3. \A x : Meaning!InputError(x) <=> InputError(x)
    BY DEF Meaning!InputError, InputError
  <2>4. \A x : Meaning!OperandError(x) <=> OperandError(x)
    BY DEF Meaning!OperandError, OperandError, Meaning!RegLimit, RegLimit
  <2>5. Meaning!OnlyOn = OnlyOn
    BY DEF Meaning!OnlyOn, OnlyOn
  <2> QED BY <1>3, <1>7, <2>1, <2>2, <2>3, <2>4, <2>5 DEF Meaning!InsnError, InsnError
<1>10. ASSUME NEW op, NEW opers PROVE Meaning!Insn(op, opers) = Insn(op, opers)
  BY DEF Meaning!Insn, Insn
<1> QED BY <1>1, <1>2, <1>3, <1>4, <1>5, <1>6, <1>7, <1>8, <1>9, <1>10

LEMMA PositionFacts ==
    ASSUME NEW p, IsProgram(p), NEW kind
    PROVE  /\ IsFiniteSet(Meaning!Positions(p, kind))
           /\ Cardinality(Meaning!Positions(p, kind)) \in Nat
           /\ \A k : k \in Meaning!Positions(p, kind) <=> k \in 1 .. Len(p) /\ p[k].kind = kind
<1>1. IsFiniteSet(1 .. Len(p)) /\ DOMAIN p = 1 .. Len(p)
  BY FS_Interval DEF IsProgram
<1>2. Meaning!Positions(p, kind) \subseteq 1 .. Len(p)
  BY <1>1 DEF Meaning!Positions
<1>3. IsFiniteSet(Meaning!Positions(p, kind))
  BY <1>1, <1>2, FS_Subset
<1>4. Cardinality(Meaning!Positions(p, kind)) \in Nat
  BY <1>3, FS_CardinalityType
<1> QED BY <1>1, <1>3, <1>4 DEF Meaning!Positions

\* The two fallbacks of firmware architectures are one.
LEMMA SameFallback ==
    ASSUME NEW rev \in Nat
    PROVE  ArchFallback(rev) = CASE rev \in 5 .. 14 -> 5 [] rev >= 15 -> 15 [] OTHER -> rev
<1>1. CASE rev \in 5 .. 14
  <2>1. ~(rev >= 15) /\ ArchFallback(rev) = 5
    BY <1>1 DEF ArchFallback
  <2> QED BY <1>1, <2>1
<1>2. CASE rev >= 15
  <2>1. rev \notin 5 .. 14 /\ ArchFallback(rev) = 15
    BY <1>2 DEF ArchFallback
  <2> QED BY <1>2, <2>1
<1>3. CASE rev \notin 5 .. 14 /\ ~(rev >= 15)
  <2>1. ArchFallback(rev) = rev
    BY <1>3 DEF ArchFallback
  <2> QED BY <1>3, <2>1
<1> QED BY <1>1, <1>2, <1>3

LEMMA OneArch ==
    ASSUME NEW p, IsProgram(p), NEW k \in Meaning!Positions(p, "arch"),
           \A l \in Meaning!Positions(p, "arch") : l = k
    PROVE  /\ Cardinality(Meaning!Positions(p, "arch")) = 1
           /\ Meaning!ArchOf(p) = ArchFallback(p[k].arch)
<1>1. Meaning!Positions(p, "arch") = {k}
  OBVIOUS
<1>2. Cardinality({k}) = 1 /\ (CHOOSE l \in {k} : TRUE) = k
  BY FS_Singleton
<1>3. p[k].arch \in Nat
  BY PositionFacts DEF IsProgram
<1> DEFINE rev == p[k].arch
<1>4. Meaning!ArchOf(p) = CASE rev \in 5 .. 14 -> 5 [] rev >= 15 -> 15 [] OTHER -> rev
  BY <1>1, <1>2 DEF Meaning!ArchOf
<1>5. ArchFallback(rev) = CASE rev \in 5 .. 14 -> 5 [] rev >= 15 -> 15 [] OTHER -> rev
  BY <1>3, SameFallback
<1> QED BY <1>1, <1>2, <1>4, <1>5

LEMMA NoStart ==
    ASSUME NEW p, IsProgram(p), Meaning!Positions(p, "start") = {}
    PROVE  Cardinality(Meaning!Positions(p, "start")) = 0 /\ Meaning!StartOf(p) = NoName
BY FS_EmptySet DEF Meaning!StartOf

LEMMA OneStart ==
    ASSUME NEW p, IsProgram(p), NEW k \in Meaning!Positions(p, "start"),
           \A l \in Meaning!Positions(p, "start") : l = k
    PROVE  Cardinality(Meaning!Positions(p, "start")) = 1 /\ Meaning!StartOf(p) = p[k].name
<1>1. Meaning!Positions(p, "start") = {k}
  OBVIOUS
<1>2. Cardinality({k}) = 1 /\ (CHOOSE l \in {k} : TRUE) = k
  BY FS_Singleton
<1> QED BY <1>1, <1>2 DEF Meaning!StartOf

LEMMA AllDirectives ==
    ASSUME NEW p, IsProgram(p), NEW a, a # 0, NEW s, Directives(p, a, s, Len(p))
    PROVE  /\ a \in Arches /\ Meaning!ArchOf(p) = a /\ Meaning!StartOf(p) = s
           /\ Cardinality(Meaning!Positions(p, "arch")) = 1
           /\ ~(Cardinality(Meaning!Positions(p, "start")) > 1)
<1>1. PICK k \in 1 .. Len(p) : /\ p[k].kind = "arch" /\ a = ArchFallback(p[k].arch) /\ a \in Arches
                               /\ \A l \in 1 .. Len(p) : p[l].kind = "arch" => l = k
  BY DEF Directives
<1>2. /\ k \in Meaning!Positions(p, "arch")
      /\ \A l \in Meaning!Positions(p, "arch") : l = k
  BY <1>1, PositionFacts
<1>3. Meaning!ArchOf(p) = a /\ Cardinality(Meaning!Positions(p, "arch")) = 1
  BY <1>1, <1>2, OneArch
<1>4. Meaning!StartOf(p) = s /\ ~(Cardinality(Meaning!Positions(p, "start")) > 1)
  <2>1. CASE s = NoName
    <3>1. Meaning!Positions(p, "start") = {}
      BY <2>1, PositionFacts DEF Directives
    <3> QED BY <2>1, <3>1, NoStart
  <2>2. CASE s # NoName
    <3>1. PICK m \in 1 .. Len(p) : /\ p[m].kind = "start" /\ s = p[m].name
                                   /\ \A l \in 1 .. Len(p) : p[l].kind = "start" => l = m
      BY <2>2 DEF Directives
    <3>2. /\ m \in Meaning!Positions(p, "start")
          /\ \A l \in Meaning!Positions(p, "start") : l = m
      BY <3>1, PositionFacts
    <3> QED BY <3>1, <3>2, OneStart
  <2> QED BY <2>1, <2>2
<1> QED BY <1>1, <1>3, <1>4

\* The next statement, when eval_directives takes it.
LEMMA NextDirective ==
    ASSUME NEW p, IsProgram(p), NEW a, NEW s, NEW n \in Nat, n + 1 <= Len(p), Directives(p, a, s, n),
           NEW b, NEW t,
           \/ /\ p[n + 1].kind = "arch" /\ a = 0 /\ t = s
              /\ b = ArchFallback(p[n + 1].arch) /\ b \in Arches
           \/ /\ p[n + 1].kind = "start" /\ s = NoName /\ b = a /\ t = p[n + 1].name
           \/ /\ p[n + 1].kind \in {"label", "insn"} /\ b = a /\ t = s
    PROVE  Directives(p, b, t, n + 1)
<1>1. /\ n + 1 \in DOMAIN p /\ n + 1 \in 1 .. n + 1
      /\ \A l : l \in 1 .. n + 1 <=> l \in 1 .. n \/ l = n + 1
  BY DEF IsProgram
<1>2. b # 0 \/ b = a
  BY DEF Arches
<1>3. IF b = 0 THEN \A l \in 1 .. n + 1 : p[l].kind # "arch"
      ELSE \E k \in 1 .. n + 1 : /\ p[k].kind = "arch" /\ b = ArchFallback(p[k].arch) /\ b \in Arches
                                 /\ \A l \in 1 .. n + 1 : p[l].kind = "arch" => l = k
  <2>1. CASE p[n + 1].kind = "arch"
    <3>1. /\ a = 0 /\ b = ArchFallback(p[n + 1].arch) /\ b \in Arches /\ b # 0
      BY <2>1 DEF Arches
    <3>2. \A l \in 1 .. n : p[l].kind # "arch"
      BY <3>1 DEF Directives
    <3> QED BY <1>1, <2>1, <3>1, <3>2
  <2>2. CASE p[n + 1].kind # "arch"
    <3>1. b = a
      BY <2>2
    <3> QED BY <1>1, <2>2, <3>1 DEF Directives
  <2> QED BY <2>1, <2>2
<1>4. IF t = NoName THEN \A l \in 1 .. n + 1 : p[l].kind # "start"
      ELSE \E k \in 1 .. n + 1 : /\ p[k].kind = "start" /\ t = p[k].name
                                 /\ \A l \in 1 .. n + 1 : p[l].kind = "start" => l = k
  <2>1. CASE p[n + 1].kind = "start"
    <3>1. s = NoName /\ t = p[n + 1].name /\ t # NoName
      BY <1>1, <2>1 DEF IsProgram
    <3>2. \A l \in 1 .. n : p[l].kind # "start"
      BY <3>1 DEF Directives
    <3> QED BY <1>1, <2>1, <3>1, <3>2
  <2>2. CASE p[n + 1].kind # "start"
    <3>1. t = s
      BY <2>2
    <3> QED BY <1>1, <2>2, <3>1 DEF Directives
  <2> QED BY <2>1, <2>2
<1> QED BY <1>3, <1>4 DEF Directives

\* The next statement, when eval_directives does not take it.
LEMMA TwoPositions ==
    ASSUME NEW p, IsProgram(p), NEW kind, NEW k, NEW l, k # l,
           k \in Meaning!Positions(p, kind), l \in Meaning!Positions(p, kind)
    PROVE  Cardinality(Meaning!Positions(p, kind)) > 1
<1> DEFINE S == Meaning!Positions(p, kind)
<1>1. IsFiniteSet(S) /\ Cardinality(S) \in Nat
  BY PositionFacts
<1> HIDE DEF S
<1>2. S # {} /\ \A x : S # {x}
  BY DEF S
<1>3. Cardinality(S) # 0 /\ Cardinality(S) # 1
  BY <1>1, <1>2, FS_EmptySet, FS_Singleton
<1> QED BY <1>1, <1>3 DEF S

LEMMA ReasonsToReject ==
    ASSUME NEW p
    PROVE  /\ Cardinality(Meaning!Positions(p, "arch")) # 1 => Meaning!Rejected(p)
           /\ Cardinality(Meaning!Positions(p, "start")) > 1 => Meaning!Rejected(p)
           /\ Meaning!ArchOf(p) \notin Arches => Meaning!Rejected(p)
           /\ (Meaning!StartOf(p) # NoName /\ ~Meaning!IsDefined(p, 0, Meaning!StartRef(p))) =>
                 Meaning!Rejected(p)
           /\ \A k \in Meaning!Positions(p, "insn") :
                 InsnError(Meaning!ArchOf(p), p[k].insn) => Meaning!Rejected(p)
           /\ \A k \in Meaning!Positions(p, "insn"), n \in 1 .. 3 :
                 LET o == MachineOperands(Emulated(Meaning!ArchOf(p), p[k].insn))[n]
                 IN  o.t = "label" /\ ~Meaning!IsDefined(p, k, o) => Meaning!Rejected(p)
<1> DEFINE A == Cardinality(Meaning!Positions(p, "arch")) # 1
           B == Cardinality(Meaning!Positions(p, "start")) > 1
           C == Meaning!ArchOf(p) \notin Arches
           D == Meaning!StartOf(p) # NoName /\ ~Meaning!IsDefined(p, 0, Meaning!StartRef(p))
           E(k) == InsnError(Meaning!ArchOf(p), p[k].insn)
           O(k, n) == MachineOperands(Emulated(Meaning!ArchOf(p), p[k].insn))[n]
           F(k, n) == O(k, n).t = "label" /\ ~Meaning!IsDefined(p, k, O(k, n))
<1>1. Meaning!Rejected(p) <=>
        \/ A \/ B \/ C \/ D
        \/ \E k \in Meaning!Positions(p, "insn") : E(k) \/ \E n \in 1 .. 3 : F(k, n)
  BY SameOperators DEF Meaning!Rejected
<1>2. (A \/ B \/ C \/ D) => Meaning!Rejected(p)
  BY <1>1
<1>3. \A k \in Meaning!Positions(p, "insn") : E(k) => Meaning!Rejected(p)
  <2> HIDE DEF A, B, C, D, E, F
  <2> QED BY <1>1
<1>4. \A k \in Meaning!Positions(p, "insn"), n \in 1 .. 3 : F(k, n) => Meaning!Rejected(p)
  <2> HIDE DEF A, B, C, D, E, F
  <2> QED BY <1>1
<1> QED BY <1>2, <1>3, <1>4

LEMMA BadDirective ==
    ASSUME NEW p, IsProgram(p), NEW a, NEW s, NEW n \in Nat, Directives(p, a, s, n),
           \/ /\ n + 1 <= Len(p) /\ p[n + 1].kind = "arch"
              /\ a # 0 \/ ArchFallback(p[n + 1].arch) \notin Arches
           \/ n + 1 <= Len(p) /\ p[n + 1].kind = "start" /\ s # NoName
           \/ n + 1 > Len(p) /\ n <= Len(p) /\ a = 0
    PROVE  Meaning!Rejected(p)
<1>1. Len(p) \in Nat /\ n \notin {n + 1} /\ \A k \in 1 .. n : k # n + 1 /\ k <= n
  BY DEF IsProgram
<1>2. CASE n + 1 <= Len(p) /\ p[n + 1].kind = "arch"
  <2>1. n + 1 \in Meaning!Positions(p, "arch")
    BY <1>1, <1>2, PositionFacts
  <2>2. CASE a # 0
    <3>1. PICK k \in 1 .. n : p[k].kind = "arch"
      BY <2>2 DEF Directives
    <3>2. k \in Meaning!Positions(p, "arch") /\ k # n + 1
      BY <1>1, <1>2, <3>1, PositionFacts
    <3>3. Cardinality(Meaning!Positions(p, "arch")) # 1
      BY <2>1, <3>2, TwoPositions, PositionFacts
    <3> QED BY <3>3, ReasonsToReject
  <2>3. CASE ArchFallback(p[n + 1].arch) \notin Arches
    <3>1. CASE \A l \in Meaning!Positions(p, "arch") : l = n + 1
      <4>1. Meaning!ArchOf(p) \notin Arches
        BY <2>1, <2>3, <3>1, OneArch
      <4> QED BY <4>1, ReasonsToReject
    <3>2. CASE ~ \A l \in Meaning!Positions(p, "arch") : l = n + 1
      <4>1. Cardinality(Meaning!Positions(p, "arch")) # 1
        BY <2>1, <3>2, TwoPositions, PositionFacts
      <4> QED BY <4>1, ReasonsToReject
    <3> QED BY <3>1, <3>2
  <2>4. a # 0 \/ ArchFallback(p[n + 1].arch) \notin Arches
    BY <1>2
  <2> QED BY <2>2, <2>3, <2>4
<1>3. CASE n + 1 <= Len(p) /\ p[n + 1].kind = "start"
  <2>1. n + 1 \in Meaning!Positions(p, "start")
    BY <1>1, <1>3, PositionFacts
  <2>2. s # NoName
    BY <1>3
  <2>3. PICK k \in 1 .. n : p[k].kind = "start"
    BY <2>2 DEF Directives
  <2>4. k \in Meaning!Positions(p, "start") /\ k # n + 1
    BY <1>1, <1>3, <2>3, PositionFacts
  <2>5. Cardinality(Meaning!Positions(p, "start")) > 1
    BY <2>1, <2>4, TwoPositions
  <2> QED BY <2>5, ReasonsToReject
<1>4. CASE n + 1 > Len(p) /\ n <= Len(p) /\ a = 0
  <2>1. n = Len(p) /\ a = 0
    BY <1>1, <1>4
  <2>2. Meaning!Positions(p, "arch") = {}
    BY <2>1, PositionFacts DEF Directives
  <2>3. Cardinality(Meaning!Positions(p, "arch")) # 1
    <3>1. Cardinality({}) = 0
      BY FS_EmptySet
    <3> QED BY <2>2, <3>1
  <2> QED BY <2>3, ReasonsToReject
<1> QED BY <1>2, <1>3, <1>4
-----------------------------------------------------------------------------
\* The list that is made of a program. The %start jump stands for a statement
\* in front of the first.
InsnOf(p, s, k) == IF k = 0 THEN Insn("jmp", <<LabelOper(s, "absolute")>>) ELSE p[k].insn
MachineOf(p, s, a, k, n) == MachineOperands(Emulated(a, InsnOf(p, s, k)))[n]

IsOperandOf(a, o, m) ==
    IF m.t = "label" THEN o.type = "labelref" /\ o.label.name = m.name /\ o.label.dir = m.dir
    ELSE o.type = "normal" /\ o.operand = OperandWord(a, m)

IsEntryOf(p, s, a, c, k) ==
    /\ c.start <=> k = 0
    /\ IF k = 0 \/ p[k].kind = "insn"
       THEN /\ c.type = "insn" /\ c.opcode = Opcode(Emulated(a, InsnOf(p, s, k)))
            /\ \A n \in 1 .. 3 : IsOperandOf(a, c.operands[n], MachineOf(p, s, a, k, n))
       ELSE p[k].kind = "label" /\ c.type = "label" /\ c.name = p[k].name

\* f gives for each entry the statement among the first n that it comes from.
Places(p, s, a, out, n, f) ==
    /\ f \in [DOMAIN out -> 0 .. n]
    /\ \A j, k \in DOMAIN out : j < k => f[j] < f[k]
    /\ \A l \in 1 .. n : p[l].kind \in {"insn", "label"} => \E j \in DOMAIN out : f[j] = l
    /\ \A j \in DOMAIN out : IsEntryOf(p, s, a, out[j], f[j])

LEMMA StartOperands ==
    ASSUME NEW p, NEW s, NEW a, NEW n \in 1 .. 3
    PROVE  /\ MachineOf(p, s, a, 0, n).t = "label" <=> n = 3
           /\ MachineOf(p, s, a, 0, 3) = LabelOper(s, "absolute")
<1> DEFINE target == LabelOper(s, "absolute")
           jump   == Insn("jext", <<IMM(Bits(127)), target>>)
<1>1. Emulated(a, InsnOf(p, s, 0)) = jump
  <2>1. InsnOf(p, s, 0).op = "jmp" /\ InsnOf(p, s, 0).opers[1] = target
    BY DEF InsnOf, Insn
  <2> HIDE DEF target
  <2> QED BY <2>1 DEF Emulated, EmulatedJmp
<1>2. jump.op = "jext" /\ jump.opers[2] = target
  BY DEF Insn
<1> HIDE DEF jump
<1>3. MachineOperands(jump) = <<GPR0, GPR0, jump.opers[2]>>
  <2>1. DOMAIN ExtOpcode = {"srx", "orx", "jzx", "jnzx"} /\ DOMAIN CondOpcode = {"jext", "jnext"}
    BY DEF ExtOpcode, CondOpcode
  <2> QED BY <1>2, <2>1 DEF MachineOperands
<1>4. MachineOperands(jump)[1] = GPR0 /\ MachineOperands(jump)[2] = GPR0 /\ MachineOperands(jump)[3] = target
  BY <1>2, <1>3
<1>5. GPR0.t = "reg" /\ target.t = "label"
  BY DEF GPR0, LabelOper
<1>6. \A m : MachineOf(p, s, a, 0, m) = MachineOperands(jump)[m]
  BY <1>1 DEF MachineOf
<1> HIDE DEF target
<1>7. n = 1 \/ n = 2 \/ n = 3
  OBVIOUS
<1> QED BY <1>4, <1>5, <1>6, <1>7 DEF target

LEMMA OperandIsPlaced ==
    ASSUME NEW a, NEW m
    PROVE  IsOperandOf(a, OutOperand(a, m), m)
<1>1. CASE m.t = "label"
  BY <1>1 DEF OutOperand, LabelRef, IsOperandOf
<1>2. CASE m.t # "label"
  <2> DEFINE w == OperandWord(a, m)
  <2>1. OutOperand(a, m) = Normal(w)
    BY <1>2 DEF OutOperand
  <2> HIDE DEF w
  <2>2. Normal(w).type = "normal" /\ Normal(w).operand = w
    BY DEF Normal
  <2> QED BY <1>2, <2>1, <2>2 DEF IsOperandOf, w
<1> QED BY <1>1, <1>2

LEMMA InsnIsPlaced ==
    ASSUME NEW p, NEW s, NEW a, NEW k, k = 0 \/ p[k].kind = "insn",
           NEW c, NEW d, d = OutInsn(a, InsnOf(p, s, k)),
           c = IF k = 0 THEN [d EXCEPT !.start = TRUE] ELSE d
    PROVE  IsEntryOf(p, s, a, c, k)
<1> DEFINE real  == Emulated(a, InsnOf(p, s, k))
           opers == [n \in 1 .. 3 |-> OutOperand(a, MachineOperands(real)[n])]
           jump  == real.op \in SetsJumpFlag
           op    == Opcode(real)
<1>1. d = [type |-> "insn", name |-> NoName, address |-> 0, start |-> FALSE,
           jump |-> jump, opcode |-> op, operands |-> opers]
  BY DEF OutInsn
<1>2. \A n \in 1 .. 3 : IsOperandOf(a, opers[n], MachineOf(p, s, a, k, n))
  BY OperandIsPlaced DEF MachineOf
<1> HIDE DEF real, opers, jump, op
<1>3. /\ c.type = "insn" /\ c.opcode = op /\ c.operands = opers
      /\ k = 0 => c.start = TRUE
      /\ k # 0 => c.start = FALSE
  <2>1. CASE k = 0
    BY <1>1, <2>1
  <2>2. CASE k # 0
    BY <1>1, <2>2
  <2> QED BY <2>1, <2>2
<1>4. c.start <=> k = 0
  BY <1>3
<1> QED BY <1>2, <1>3, <1>4 DEF IsEntryOf, op, real

\* The next statement comes last.
LEMMA PlacesAppend ==
    ASSUME NEW p, NEW s, NEW a, NEW out, IsSequence(out), NEW n \in Nat, NEW f,
           Places(p, s, a, out, n, f), NEW c, IsEntryOf(p, s, a, c, n + 1)
    PROVE  \E g : Places(p, s, a, Append(out, c), n + 1, g)
<1> DEFINE N   == Len(out)
           new == Append(out, c)
           g   == [j \in 1 .. N + 1 |-> IF j = N + 1 THEN n + 1 ELSE f[j]]
<1>1. /\ N \in Nat /\ DOMAIN out = 1 .. N /\ DOMAIN new = 1 .. N + 1
      /\ \A j \in 1 .. N : new[j] = out[j]
      /\ new[N + 1] = c
  BY SequenceFacts, AppendFacts
<1> HIDE DEF N, new
<1>2. \A j \in 1 .. N + 1 : j = N + 1 \/ (j \in 1 .. N /\ j # N + 1)
  BY <1>1
<1>3. f \in [1 .. N -> 0 .. n] /\ \A j \in 1 .. N : f[j] \in 0 .. n
  BY <1>1 DEF Places
<1>4. \A j \in 1 .. N : g[j] = f[j] /\ j \in 1 .. N + 1
  BY <1>1
<1>5. g[N + 1] = n + 1 /\ N + 1 \in 1 .. N + 1
  BY <1>1
<1>6. g \in [1 .. N + 1 -> 0 .. n + 1]
  BY <1>2, <1>3
<1> HIDE DEF g
<1>7. ASSUME NEW j \in 1 .. N + 1, NEW k \in 1 .. N + 1, j < k PROVE g[j] < g[k]
  <2>1. j \in 1 .. N
    BY <1>1, <1>7
  <2>2. CASE k = N + 1
    <3>1. g[j] \in 0 .. n
      BY <1>3, <1>4, <2>1
    <3> QED BY <1>5, <2>2, <3>1
  <2>3. CASE k \in 1 .. N
    <3>1. f[j] < f[k]
      BY <1>1, <1>7, <2>1, <2>3 DEF Places
    <3> QED BY <1>4, <2>1, <2>3, <3>1
  <2> QED BY <1>2, <2>2, <2>3
<1>8. ASSUME NEW l \in 1 .. n + 1, p[l].kind \in {"insn", "label"}
      PROVE  \E j \in 1 .. N + 1 : g[j] = l
  <2>1. CASE l = n + 1
    BY <1>5, <2>1
  <2>2. CASE l # n + 1
    <3>1. l \in 1 .. n
      BY <2>2
    <3>2. PICK j \in 1 .. N : f[j] = l
      BY <1>1, <1>8, <3>1 DEF Places
    <3> QED BY <1>4, <3>2
  <2> QED BY <2>1, <2>2
<1>9. ASSUME NEW j \in 1 .. N + 1 PROVE IsEntryOf(p, s, a, new[j], g[j])
  <2>1. CASE j = N + 1
    BY <1>1, <1>5, <2>1
  <2>2. CASE j \in 1 .. N
    <3>1. IsEntryOf(p, s, a, out[j], f[j])
      BY <1>1, <2>2 DEF Places
    <3> QED BY <1>1, <1>4, <2>2, <3>1
  <2> QED BY <1>2, <2>1, <2>2
<1>10. Places(p, s, a, new, n + 1, g)
  BY <1>1, <1>6, <1>7, <1>8, <1>9 DEF Places
<1> QED BY <1>10 DEF new

\* Directives leave nothing in the list.
LEMMA PlacesSkip ==
    ASSUME NEW p, NEW s, NEW a, NEW out, NEW n \in Nat, NEW f, Places(p, s, a, out, n, f),
           p[n + 1].kind \in {"arch", "start"}
    PROVE  Places(p, s, a, out, n + 1, f)
<1>1. \A l \in 1 .. n + 1 : l \in 1 .. n \/ l = n + 1
  OBVIOUS
<1>2. f \in [DOMAIN out -> 0 .. n + 1]
  <2>1. f \in [DOMAIN out -> 0 .. n] /\ 0 .. n \subseteq 0 .. n + 1
    BY DEF Places
  <2> QED BY <2>1
<1> QED BY <1>1, <1>2 DEF Places

LEMMA PlacesRemove ==
    ASSUME NEW p, NEW s, NEW a, NEW out, IsSequence(out), Len(out) >= 1, NEW n \in Nat, NEW f,
           Places(p, s, a, out, n, f), out[1].start
    PROVE  /\ \E g : Places(p, s, a, RemoveAt(out, 1), n, g)
           /\ \A j \in DOMAIN RemoveAt(out, 1) : ~RemoveAt(out, 1)[j].start
<1> DEFINE N   == Len(out)
           new == RemoveAt(out, 1)
           g   == [j \in 1 .. N - 1 |-> f[j + 1]]
<1>1. /\ N \in Nat /\ DOMAIN out = 1 .. N /\ DOMAIN new = 1 .. N - 1 /\ 1 \in 1 .. N
      /\ \A j \in 1 .. N - 1 : new[j] = out[j + 1]
  BY SequenceFacts, RemoveFirstFacts
<1> HIDE DEF N, new
<1>2. \A j \in 1 .. N - 1 : j + 1 \in 1 .. N /\ j + 1 # 1 /\ 1 < j + 1
  BY <1>1
<1>3. f \in [1 .. N -> 0 .. n] /\ f[1] = 0
  BY <1>1 DEF Places, IsEntryOf
<1>4. \A j \in 1 .. N - 1 : g[j] = f[j + 1]
  OBVIOUS
<1>5. g \in [1 .. N - 1 -> 0 .. n]
  BY <1>2, <1>3
<1> HIDE DEF g
<1>6. ASSUME NEW j \in 1 .. N - 1, NEW k \in 1 .. N - 1, j < k PROVE g[j] < g[k]
  <2>1. j + 1 < k + 1
    BY <1>6
  <2>2. f[j + 1] < f[k + 1]
    BY <1>1, <1>2, <2>1 DEF Places
  <2> QED BY <1>4, <2>2
<1>7. ASSUME NEW l \in 1 .. n, p[l].kind \in {"insn", "label"}
      PROVE  \E j \in 1 .. N - 1 : g[j] = l
  <2>1. PICK j \in 1 .. N : f[j] = l
    BY <1>1, <1>7 DEF Places
  <2>2. j # 1
    BY <1>3, <2>1
  <2>3. j - 1 \in 1 .. N - 1 /\ (j - 1) + 1 = j
    BY <1>1, <2>2
  <2> QED BY <1>4, <2>1, <2>3
<1>8. ASSUME NEW j \in 1 .. N - 1 PROVE IsEntryOf(p, s, a, new[j], g[j]) /\ ~new[j].start
  <2>1. IsEntryOf(p, s, a, out[j + 1], f[j + 1]) /\ f[1] < f[j + 1]
    BY <1>1, <1>2 DEF Places
  <2>2. f[j + 1] # 0
    BY <1>2, <1>3, <2>1
  <2>3. IsEntryOf(p, s, a, new[j], g[j])
    BY <1>1, <1>4, <2>1
  <2>4. ~out[j + 1].start
    BY <2>1, <2>2 DEF IsEntryOf
  <2> QED BY <1>1, <2>3, <2>4
<1>9. Places(p, s, a, new, n, g)
  BY <1>1, <1>5, <1>6, <1>7, <1>8 DEF Places
<1> QED BY <1>1, <1>8, <1>9 DEF new

\* Addresses and resolved operands do not change what an entry stands for.
LEMMA PlacesSame ==
    ASSUME NEW p, NEW s, NEW a, NEW out, NEW new, NEW n, NEW f, Places(p, s, a, out, n, f),
           DOMAIN new = DOMAIN out,
           \A j \in DOMAIN out :
              /\ new[j].type = out[j].type /\ new[j].start = out[j].start
              /\ new[j].name = out[j].name /\ new[j].opcode = out[j].opcode
              /\ \A q \in 1 .. 3 :
                    /\ new[j].operands[q].type = out[j].operands[q].type
                    /\ new[j].operands[q].label = out[j].operands[q].label
                    /\ out[j].operands[q].type = "normal" =>
                          new[j].operands[q].operand = out[j].operands[q].operand
    PROVE  Places(p, s, a, new, n, f)
<1>1. ASSUME NEW j \in DOMAIN out PROVE IsEntryOf(p, s, a, new[j], f[j])
  <2>1. IsEntryOf(p, s, a, out[j], f[j])
    BY DEF Places
  <2>2. \A q \in 1 .. 3 : IsOperandOf(a, out[j].operands[q], MachineOf(p, s, a, f[j], q)) =>
                            IsOperandOf(a, new[j].operands[q], MachineOf(p, s, a, f[j], q))
    BY DEF IsOperandOf
  <2> QED BY <2>1, <2>2 DEF IsEntryOf
<1> QED BY <1>1 DEF Places
-----------------------------------------------------------------------------
\* What references mean: get_labeladdress on the list, and in the program.
Directions == {"absolute", "back", "forward"}

LEMMA MeantIsOne ==
    ASSUME NEW p, IsProgram(p), NEW k \in Nat, NEW ref, ref.dir \in Directions,
           NEW l, Meaning!IsMeant(p, k, ref, l)
    PROVE  Meaning!Meant(p, k, ref) = l /\ Meaning!IsDefined(p, k, ref)
<1> DEFINE same == Meaning!LabelsOf(p, ref.name)
<1>1. \A m \in same : m \in DOMAIN p /\ m \in Nat
  BY DEF Meaning!LabelsOf, Meaning!Positions, IsProgram
<1>2. ASSUME NEW m, Meaning!IsMeant(p, k, ref, m) PROVE m = l
  <2>1. m \in same /\ l \in same /\ m \in Nat /\ l \in Nat
    BY <1>1, <1>2 DEF Meaning!IsMeant
  <2> HIDE DEF same
  <2>2. CASE ref.dir = "absolute"
    <3>1. same = {m} /\ same = {l}
      BY <1>2, <2>2 DEF Meaning!IsMeant, same
    <3> QED BY <3>1
  <2>3. CASE ref.dir = "back"
    <3>1. m < k /\ same \cap (m + 1 .. k - 1) = {} /\ l < k /\ same \cap (l + 1 .. k - 1) = {}
      BY <1>2, <2>3 DEF Meaning!IsMeant, same
    <3>2. l \notin m + 1 .. k - 1 /\ m \notin l + 1 .. k - 1
      BY <2>1, <3>1
    <3> QED BY <2>1, <3>1, <3>2
  <2>4. CASE ref.dir = "forward"
    <3>1. m > k /\ same \cap (k + 1 .. m - 1) = {} /\ l > k /\ same \cap (k + 1 .. l - 1) = {}
      BY <1>2, <2>4 DEF Meaning!IsMeant, same
    <3>2. l \notin k + 1 .. m - 1 /\ m \notin k + 1 .. l - 1
      BY <2>1, <3>1
    <3> QED BY <2>1, <3>1, <3>2
  <2> QED BY <2>2, <2>3, <2>4 DEF Directions
<1>3. l \in DOMAIN p
  BY <1>1 DEF Meaning!IsMeant
<1> QED BY <1>2, <1>3 DEF Meaning!Meant, Meaning!IsDefined

\* Only the name and the direction of a reference matter.
LEMMA SameReference ==
    ASSUME NEW p, NEW k, NEW a, NEW b, a.name = b.name, a.dir = b.dir
    PROVE  /\ Meaning!IsDefined(p, k, a) <=> Meaning!IsDefined(p, k, b)
           /\ Meaning!Meant(p, k, a) = Meaning!Meant(p, k, b)
<1>1. \A l : Meaning!IsMeant(p, k, a, l) <=> Meaning!IsMeant(p, k, b, l)
  BY DEF Meaning!IsMeant
<1> QED BY <1>1 DEF Meaning!IsDefined, Meaning!Meant

InOrder(out, f) ==
    \A j, k \in DOMAIN out : /\ j \in Nat /\ k \in Nat /\ f[j] \in Nat /\ f[k] \in Nat
                             /\ j < k <=> f[j] < f[k]
                             /\ j = k <=> f[j] = f[k]

LEMMA PlacesOrder ==
    ASSUME NEW p, NEW s, NEW a, NEW out, IsSequence(out), NEW n \in Nat, NEW f,
           Places(p, s, a, out, n, f)
    PROVE  InOrder(out, f)
<1> SUFFICES ASSUME NEW j \in DOMAIN out, NEW k \in DOMAIN out
             PROVE  /\ j \in Nat /\ k \in Nat /\ f[j] \in Nat /\ f[k] \in Nat
                    /\ j < k <=> f[j] < f[k]
                    /\ j = k <=> f[j] = f[k]
  BY DEF InOrder
<1>1. DOMAIN out = 1 .. Len(out) /\ Len(out) \in Nat
  BY SequenceFacts
<1>2. j \in Nat /\ k \in Nat
  BY <1>1
<1>3. f[j] \in 0 .. n /\ f[k] \in 0 .. n
  BY DEF Places
<1>4. /\ j < k => f[j] < f[k]
      /\ k < j => f[k] < f[j]
  BY DEF Places
<1>5. j < k \/ k < j \/ j = k
  BY <1>2
<1> QED BY <1>2, <1>3, <1>4, <1>5

\* The labels of a name are at the same places in the list and in the program.
LabelsAgree(p, out, f, name) ==
    /\ \A u \in DOMAIN out : u \in LabelsNamed(out, name) <=> f[u] \in Meaning!LabelsOf(p, name)
    /\ \A l \in Meaning!LabelsOf(p, name) : l \in Nat /\ \E u \in DOMAIN out : f[u] = l

LEMMA LabelsPlaced ==
    ASSUME NEW p, IsProgram(p), NEW s, NEW a, NEW out, NEW f,
           Places(p, s, a, out, Len(p), f), NEW name
    PROVE  LabelsAgree(p, out, f, name)
<1>1. \A l : l \in Meaning!LabelsOf(p, name) <=>
               l \in 1 .. Len(p) /\ p[l].kind = "label" /\ p[l].name = name
  BY DEF Meaning!LabelsOf, Meaning!Positions, IsProgram
<1>2. Len(p) \in Nat
  BY DEF IsProgram
<1>3. ASSUME NEW u \in DOMAIN out
      PROVE  u \in LabelsNamed(out, name) <=> f[u] \in Meaning!LabelsOf(p, name)
  <2>1. IsEntryOf(p, s, a, out[u], f[u]) /\ f[u] \in 0 .. Len(p)
    BY DEF Places
  <2>2. f[u] = 0 \/ f[u] \in 1 .. Len(p)
    BY <1>2, <2>1
  <2>3. u \in LabelsNamed(out, name) <=> out[u].type = "label" /\ out[u].name = name
    BY DEF LabelsNamed
  <2>4. CASE f[u] = 0
    BY <1>1, <2>1, <2>3, <2>4 DEF IsEntryOf
  <2>5. CASE f[u] \in 1 .. Len(p) /\ p[f[u]].kind = "insn"
    BY <1>1, <2>1, <2>3, <2>5 DEF IsEntryOf
  <2>6. CASE f[u] \in 1 .. Len(p) /\ p[f[u]].kind # "insn"
    BY <1>1, <1>2, <2>1, <2>3, <2>6 DEF IsEntryOf
  <2> QED BY <2>2, <2>4, <2>5, <2>6
<1>4. ASSUME NEW l \in Meaning!LabelsOf(p, name)
      PROVE  l \in Nat /\ \E u \in DOMAIN out : f[u] = l
  BY <1>1, <1>2 DEF Places
<1> QED BY <1>3, <1>4 DEF LabelsAgree

TargetIsMeant(p, out, f, j, ref, t) ==
    Targets(out, j, ref) = {t} <=> Meaning!IsMeant(p, f[j], ref, f[t])

LEMMA TargetsAreMeant ==
    ASSUME NEW p, IsProgram(p), NEW s, NEW a, NEW out, IsSequence(out), NEW f,
           Places(p, s, a, out, Len(p), f), NEW j \in DOMAIN out,
           NEW ref, ref.dir \in Directions, NEW t \in DOMAIN out
    PROVE  TargetIsMeant(p, out, f, j, ref, t)
<1> SUFFICES Targets(out, j, ref) = {t} <=> Meaning!IsMeant(p, f[j], ref, f[t])
  BY DEF TargetIsMeant
<1> DEFINE same == LabelsNamed(out, ref.name)
           there == Meaning!LabelsOf(p, ref.name)
<1>1. /\ \A u \in DOMAIN out : u \in same <=> f[u] \in there
      /\ \A l \in there : l \in Nat /\ \E u \in DOMAIN out : f[u] = l
      /\ same \subseteq DOMAIN out
  <2>1. LabelsAgree(p, out, f, ref.name)
    BY LabelsPlaced
  <2> QED BY <2>1 DEF LabelsAgree, LabelsNamed
<1>2. \A u, v \in DOMAIN out : /\ u \in Nat /\ v \in Nat /\ f[u] \in Nat /\ f[v] \in Nat
                               /\ u < v <=> f[u] < f[v]
                               /\ u = v <=> f[u] = f[v]
  <2>1. Len(p) \in Nat
    BY DEF IsProgram
  <2>2. InOrder(out, f)
    BY <2>1, PlacesOrder
  <2> QED BY <2>2 DEF InOrder
<1>3. CASE ref.dir = "absolute"
  <2>1. Targets(out, j, ref) = same
    BY <1>3 DEF Targets
  <2>2. Meaning!IsMeant(p, f[j], ref, f[t]) <=> there = {f[t]}
    BY <1>3 DEF Meaning!IsMeant
  <2> HIDE DEF same, there
  <2>3. ASSUME same = {t} PROVE there = {f[t]}
    BY <1>1, <2>3
  <2>4. ASSUME there = {f[t]} PROVE same = {t}
    BY <1>1, <1>2, <2>4
  <2> QED BY <2>1, <2>2, <2>3, <2>4
<1>4. CASE ref.dir = "back"
  <2>1. Targets(out, j, ref) = {u \in same : u < j /\ \A l \in same : l < j => l <= u}
    BY <1>4 DEF Targets
  <2>2. Meaning!IsMeant(p, f[j], ref, f[t]) <=>
          f[t] \in there /\ f[t] < f[j] /\ there \cap (f[t] + 1 .. f[j] - 1) = {}
    BY <1>4 DEF Meaning!IsMeant
  <2> HIDE DEF same, there
  <2>3. Targets(out, j, ref) = {t} <=> t \in same /\ t < j /\ \A l \in same : l < j => l <= t
    BY <1>1, <1>2, <2>1
  <2>4. ASSUME t \in same, t < j, \A l \in same : l < j => l <= t
        PROVE  there \cap (f[t] + 1 .. f[j] - 1) = {}
    <3> SUFFICES ASSUME NEW l \in there, l \in f[t] + 1 .. f[j] - 1 PROVE FALSE
      OBVIOUS
    <3>1. PICK u \in DOMAIN out : f[u] = l
      BY <1>1
    <3>2. u \in same /\ f[t] < f[u] /\ f[u] < f[j]
      BY <1>1, <1>2, <3>1
    <3>3. u < j /\ t < u /\ u \in Nat /\ t \in Nat
      BY <1>2, <3>2
    <3> QED BY <2>4, <3>2, <3>3
  <2>5. ASSUME f[t] \in there, f[t] < f[j], there \cap (f[t] + 1 .. f[j] - 1) = {},
               NEW l \in same, l < j
        PROVE  l <= t
    <3>1. l \in DOMAIN out /\ f[l] \in there /\ f[l] < f[j]
      BY <1>1, <1>2, <2>5
    <3>2. f[l] \notin f[t] + 1 .. f[j] - 1
      BY <2>5, <3>1
    <3>3. ~(f[t] < f[l])
      BY <1>2, <3>1, <3>2
    <3>4. ~(t < l)
      BY <1>2, <3>1, <3>3
    <3> QED BY <1>2, <3>1, <3>4
  <2>6. t \in same <=> f[t] \in there
    BY <1>1
  <2>7. t < j <=> f[t] < f[j]
    BY <1>2
  <2> QED BY <2>2, <2>3, <2>4, <2>5, <2>6, <2>7
<1>5. CASE ref.dir = "forward"
  <2>1. Targets(out, j, ref) = {u \in same : u > j /\ \A l \in same : l > j => u <= l}
    BY <1>5 DEF Targets
  <2>2. Meaning!IsMeant(p, f[j], ref, f[t]) <=>
          f[t] \in there /\ f[t] > f[j] /\ there \cap (f[j] + 1 .. f[t] - 1) = {}
    BY <1>5 DEF Meaning!IsMeant
  <2> HIDE DEF same, there
  <2>3. Targets(out, j, ref) = {t} <=> t \in same /\ t > j /\ \A l \in same : l > j => t <= l
    BY <1>1, <1>2, <2>1
  <2>4. ASSUME t \in same, t > j, \A l \in same : l > j => t <= l
        PROVE  there \cap (f[j] + 1 .. f[t] - 1) = {}
    <3> SUFFICES ASSUME NEW l \in there, l \in f[j] + 1 .. f[t] - 1 PROVE FALSE
      OBVIOUS
    <3>1. PICK u \in DOMAIN out : f[u] = l
      BY <1>1
    <3>2. u \in same /\ f[u] < f[t] /\ f[j] < f[u]
      BY <1>1, <1>2, <3>1
    <3>3. j < u /\ u < t /\ u \in Nat /\ t \in Nat /\ j \in Nat
      BY <1>2, <3>2
    <3> QED BY <2>4, <3>2, <3>3
  <2>5. ASSUME f[t] \in there, f[t] > f[j], there \cap (f[j] + 1 .. f[t] - 1) = {},
               NEW l \in same, l > j
        PROVE  t <= l
    <3>1. l \in DOMAIN out /\ f[l] \in there /\ j < l
      BY <1>1, <1>2, <2>5
    <3>2. f[j] < f[l]
      BY <1>2, <3>1
    <3>3. f[l] \notin f[j] + 1 .. f[t] - 1
      BY <2>5, <3>1
    <3>4. ~(f[l] < f[t])
      BY <1>2, <3>1, <3>2, <3>3
    <3>5. ~(l < t)
      BY <1>2, <3>1, <3>4
    <3> QED BY <1>2, <3>1, <3>5
  <2>6. t \in same <=> f[t] \in there
    BY <1>1
  <2>7. t > j <=> f[t] > f[j]
    <3>1. t \in Nat /\ j \in Nat /\ f[t] \in Nat /\ f[j] \in Nat /\ (j < t <=> f[j] < f[t])
      BY <1>2
    <3> QED BY <3>1
  <2> QED BY <2>2, <2>3, <2>4, <2>5, <2>6, <2>7
<1> QED BY <1>3, <1>4, <1>5 DEF Directions

\* A reference has its one target in the list exactly if it is defined.
LEMMA TargetIsDefined ==
    ASSUME NEW p, IsProgram(p), NEW s, NEW a, NEW out, IsSequence(out), NEW f,
           Places(p, s, a, out, Len(p), f), NEW j \in DOMAIN out,
           NEW ref, ref.dir \in Directions
    PROVE  /\ HasTarget(out, j, ref) <=> Meaning!IsDefined(p, f[j], ref)
           /\ HasTarget(out, j, ref) =>
                \E t \in DOMAIN out : /\ f[t] = Meaning!Meant(p, f[j], ref)
                                      /\ out[t].type = "label"
                                      /\ LabelAddress(out, j, ref) = out[t].address
<1>1. f[j] \in Nat /\ LabelsAgree(p, out, f, ref.name)
  <2>1. Len(p) \in Nat
    BY DEF IsProgram
  <2>2. InOrder(out, f)
    BY <2>1, PlacesOrder
  <2>3. LabelsAgree(p, out, f, ref.name)
    BY LabelsPlaced
  <2> QED BY <2>2, <2>3 DEF InOrder
<1>2. ASSUME HasTarget(out, j, ref)
      PROVE  /\ Meaning!IsDefined(p, f[j], ref)
             /\ \E t \in DOMAIN out : /\ f[t] = Meaning!Meant(p, f[j], ref)
                                      /\ out[t].type = "label"
                                      /\ LabelAddress(out, j, ref) = out[t].address
  <2>1. PICK t \in DOMAIN out : Targets(out, j, ref) = {t}
    BY <1>2 DEF HasTarget
  <2>2. Meaning!IsMeant(p, f[j], ref, f[t])
    <3>1. TargetIsMeant(p, out, f, j, ref, t)
      BY TargetsAreMeant
    <3> QED BY <2>1, <3>1 DEF TargetIsMeant
  <2>3. Meaning!Meant(p, f[j], ref) = f[t] /\ Meaning!IsDefined(p, f[j], ref)
    BY <1>1, <2>2, MeantIsOne
  <2>4. LabelAddress(out, j, ref) = out[t].address
    BY <2>1, TargetAddress
  <2>5. f[t] \in Meaning!LabelsOf(p, ref.name)
    BY <2>2 DEF Meaning!IsMeant
  <2>6. t \in LabelsNamed(out, ref.name)
    BY <1>1, <2>5 DEF LabelsAgree
  <2> QED BY <2>3, <2>4, <2>6 DEF LabelsNamed
<1>3. ASSUME Meaning!IsDefined(p, f[j], ref)
      PROVE  HasTarget(out, j, ref)
  <2>1. PICK l \in DOMAIN p : Meaning!IsMeant(p, f[j], ref, l)
    BY <1>3 DEF Meaning!IsDefined
  <2>2. l \in Meaning!LabelsOf(p, ref.name)
    BY <2>1 DEF Meaning!IsMeant
  <2>3. PICK t \in DOMAIN out : f[t] = l
    BY <1>1, <2>2 DEF LabelsAgree
  <2>4. Targets(out, j, ref) = {t}
    <3>1. TargetIsMeant(p, out, f, j, ref, t)
      BY TargetsAreMeant
    <3> QED BY <2>1, <2>3, <3>1 DEF TargetIsMeant
  <2> QED BY <2>4 DEF HasTarget
<1> QED BY <1>2, <1>3
-----------------------------------------------------------------------------
\* Addresses count instructions: those of the list in front of an entry, and
\* those of the program in front of the statement it comes from.
InsnsUpTo(out, n) == {k \in 1 .. n : out[k].type = "insn"}
Rank(out, n) == Cardinality(InsnsUpTo(out, n))

HasStart(out) == \E j \in DOMAIN out : out[j].start

LEMMA RankNext ==
    ASSUME NEW out, NEW n \in Nat
    PROVE  /\ Rank(out, 0) = 0 /\ Rank(out, n) \in Nat
           /\ Rank(out, n + 1) = Rank(out, n) + IF out[n + 1].type = "insn" THEN 1 ELSE 0
<1>1. InsnsUpTo(out, 0) = {} /\ Cardinality({}) = 0
  <2>1. InsnsUpTo(out, 0) = {}
    BY DEF InsnsUpTo
  <2> QED BY <2>1, FS_EmptySet
<1>2. IsFiniteSet(InsnsUpTo(out, n))
  <2>1. IsFiniteSet(1 .. n) /\ InsnsUpTo(out, n) \subseteq 1 .. n
    BY FS_Interval DEF InsnsUpTo
  <2> QED BY <2>1, FS_Subset
<1>3. Cardinality(InsnsUpTo(out, n)) \in Nat
  BY <1>2, FS_CardinalityType
<1>4. \A k : k \in 1 .. n + 1 <=> k \in 1 .. n \/ k = n + 1
  OBVIOUS
<1>5. CASE out[n + 1].type = "insn"
  <2>1. /\ InsnsUpTo(out, n + 1) = InsnsUpTo(out, n) \cup {n + 1}
        /\ n + 1 \notin InsnsUpTo(out, n)
    BY <1>4, <1>5 DEF InsnsUpTo
  <2>2. Cardinality(InsnsUpTo(out, n) \cup {n + 1}) = Cardinality(InsnsUpTo(out, n)) + 1
    BY <1>2, <2>1, FS_AddElement
  <2> QED BY <1>1, <1>3, <1>5, <2>1, <2>2 DEF Rank
<1>6. CASE out[n + 1].type # "insn"
  <2>1. InsnsUpTo(out, n + 1) = InsnsUpTo(out, n)
    BY <1>4, <1>6 DEF InsnsUpTo
  <2> QED BY <1>1, <1>3, <1>6, <2>1 DEF Rank
<1> QED BY <1>5, <1>6

LEMMA AddressIsRank ==
    ASSUME NEW out, NEW N \in Nat, AddressesChain(out, N),
           \A k \in 1 .. N : out[k].address \in Nat
    PROVE  \A t \in 1 .. N : out[t].address = Rank(out, t - 1)
<1> DEFINE T == {t \in 1 .. N : out[t].address = Rank(out, t - 1)}
<1>1. CASE N >= 1
  <2>1. 1 \in T
    <3>1. out[1].address = 0 /\ 1 - 1 = 0 /\ Rank(out, 0) = 0
      BY <1>1, RankNext DEF AddressesChain
    <3> QED BY <1>1, <3>1
  <2>2. ASSUME NEW t \in 1 .. N - 1, t \in T PROVE t + 1 \in T
    <3>1. /\ out[t].address = Rank(out, t - 1) /\ t + 1 \in 1 .. N
          /\ out[t + 1].address = NextAddress(out[t])
      BY <2>2 DEF AddressesChain
    <3>2. t - 1 \in Nat /\ (t - 1) + 1 = t /\ (t + 1) - 1 = t
      OBVIOUS
    <3>3. /\ Rank(out, t - 1) \in Nat
          /\ Rank(out, t) = Rank(out, t - 1) + IF out[t].type = "insn" THEN 1 ELSE 0
      BY <3>2, RankNext
    <3>4. out[t + 1].address = Rank(out, t)
      BY <3>1, <3>3 DEF NextAddress
    <3> QED BY <3>1, <3>2, <3>4
  <2> HIDE DEF T
  <2>3. 1 .. N \subseteq T
    BY <2>1, <2>2, InductionOnEntries
  <2> QED BY <2>3 DEF T
<1>2. CASE ~(N >= 1)
  BY <1>2
<1> QED BY <1>1, <1>2

Before(p, k) == {l \in Meaning!Positions(p, "insn") : l < k}

LEMMA BeforeFacts ==
    ASSUME NEW p, IsProgram(p), NEW k
    PROVE  /\ IsFiniteSet(Before(p, k)) /\ Cardinality(Before(p, k)) \in Nat
           /\ Meaning!InsnsBefore(p, k) = Cardinality(Before(p, k))
<1>1. IsFiniteSet(Meaning!Positions(p, "insn")) /\ Before(p, k) \subseteq Meaning!Positions(p, "insn")
  BY PositionFacts DEF Before
<1>2. IsFiniteSet(Before(p, k))
  BY <1>1, FS_Subset
<1>3. Cardinality(Before(p, k)) \in Nat
  BY <1>2, FS_CardinalityType
<1>4. Meaning!InsnsBefore(p, k) = Cardinality(Before(p, k))
  BY SameOperators DEF Meaning!InsnsBefore, Before
<1> QED BY <1>2, <1>3, <1>4

\* What stands behind the last entry comes from behind the program.
Place(out, f, n, t) == IF t = Len(out) + 1 THEN n + 1 ELSE f[t]

\* Between two entries there is no instruction of the program.
LEMMA BeforeNext ==
    ASSUME NEW p, IsProgram(p), NEW s, NEW a, NEW out, IsSequence(out), NEW f,
           Places(p, s, a, out, Len(p), f), NEW t \in DOMAIN out
    PROVE  /\ Before(p, Place(out, f, Len(p), t + 1)) =
                Before(p, f[t]) \cup (IF out[t].type = "insn" /\ f[t] # 0 THEN {f[t]} ELSE {})
           /\ f[t] \notin Before(p, f[t])
<1> DEFINE n == Len(p)
           next == Place(out, f, n, t + 1)
<1>1. n \in Nat /\ Len(out) \in Nat /\ DOMAIN out = 1 .. Len(out) /\ DOMAIN p = 1 .. n
  BY SequenceFacts DEF IsProgram
<1>2. InOrder(out, f) /\ \A u \in DOMAIN out : f[u] \in 0 .. n
  <2>1. InOrder(out, f)
    BY <1>1, PlacesOrder
  <2> QED BY <2>1 DEF Places
<1>3. \A l : l \in Meaning!Positions(p, "insn") <=> l \in 1 .. n /\ p[l].kind = "insn"
  BY PositionFacts
<1>4. next \in Nat /\ f[t] < next /\ t + 1 \in Nat /\ t \in Nat
  <2>1. CASE t = Len(out)
    BY <1>1, <1>2, <2>1 DEF Place
  <2>2. CASE t # Len(out)
    <3>1. t + 1 \in DOMAIN out /\ next = f[t + 1] /\ t < t + 1
      BY <1>1, <2>2 DEF Place
    <3> QED BY <1>2, <3>1 DEF InOrder
  <2> QED BY <2>1, <2>2
<1>5. ASSUME NEW l \in Meaning!Positions(p, "insn"), l < next, ~(l < f[t])
      PROVE  l = f[t]
  <2>1. l \in 1 .. n /\ p[l].kind = "insn"
    BY <1>3
  <2>2. PICK j \in DOMAIN out : f[j] = l
    BY <2>1 DEF Places
  <2>3. j \in Nat /\ ~(j < t)
    BY <1>2, <1>5, <2>2 DEF InOrder
  <2>4. ~(j >= t + 1)
    <3> SUFFICES ASSUME j >= t + 1 PROVE FALSE
      OBVIOUS
    <3>1. t + 1 \in DOMAIN out /\ t # Len(out) /\ next = f[t + 1] /\ (t + 1 < j \/ t + 1 = j)
      BY <1>1, <1>4, <2>3 DEF Place
    <3>2. ~(f[j] < f[t + 1])
      BY <1>2, <3>1 DEF InOrder
    <3> QED BY <1>5, <2>2, <3>1, <3>2
  <2>5. j = t
    BY <1>4, <2>3, <2>4
  <2> QED BY <2>2, <2>5
<1>6. f[t] \in Meaning!Positions(p, "insn") <=> out[t].type = "insn" /\ f[t] # 0
  <2>1. IsEntryOf(p, s, a, out[t], f[t]) /\ f[t] \in 0 .. n
    BY <1>2 DEF Places
  <2> QED BY <1>1, <1>3, <2>1 DEF IsEntryOf
<1>7. f[t] \in Nat /\ \A l \in Meaning!Positions(p, "insn") : l \in Nat
  BY <1>1, <1>2, <1>3
<1>8. Before(p, next) = Before(p, f[t]) \cup (IF out[t].type = "insn" /\ f[t] # 0 THEN {f[t]} ELSE {})
  <2> HIDE DEF next
  <2>1. ASSUME NEW l \in Before(p, next)
        PROVE  l \in Before(p, f[t]) \/ (l = f[t] /\ out[t].type = "insn" /\ f[t] # 0)
    BY <1>5, <1>6 DEF Before
  <2>2. ASSUME NEW l \in Before(p, f[t]) PROVE l \in Before(p, next)
    BY <1>4, <1>7 DEF Before
  <2>3. (out[t].type = "insn" /\ f[t] # 0) => f[t] \in Before(p, next)
    BY <1>4, <1>6 DEF Before
  <2> QED BY <2>1, <2>2, <2>3
<1> QED BY <1>7, <1>8 DEF Before

LEMMA RankOfPlace ==
    ASSUME NEW p, IsProgram(p), NEW s, NEW a, NEW out, IsSequence(out), NEW f,
           Places(p, s, a, out, Len(p), f), NEW t \in 1 .. Len(out) + 1
    PROVE  Rank(out, t - 1) = Cardinality(Before(p, Place(out, f, Len(p), t))) +
                              IF t > 1 /\ HasStart(out) THEN 1 ELSE 0
<1> DEFINE n == Len(p)
           N == Len(out)
           B(u) == Before(p, Place(out, f, n, u))
           st(u) == IF u > 1 /\ HasStart(out) THEN 1 ELSE 0
           T == {u \in 1 .. N + 1 : Rank(out, u - 1) = Cardinality(B(u)) + st(u)}
<1>1. n \in Nat /\ N \in Nat /\ DOMAIN out = 1 .. N /\ DOMAIN p = 1 .. n
  BY SequenceFacts DEF IsProgram
<1>2. InOrder(out, f) /\ \A u \in DOMAIN out : f[u] \in 0 .. n /\ (out[u].start <=> f[u] = 0)
  <2>1. InOrder(out, f)
    BY <1>1, PlacesOrder
  <2> QED BY <2>1 DEF Places, IsEntryOf
<1>3. 1 \in T
  <2>1. B(1) = {}
    <3> SUFFICES ASSUME NEW l \in Meaning!Positions(p, "insn"), l < Place(out, f, n, 1) PROVE FALSE
      BY DEF Before
    <3>1. l \in 1 .. n /\ p[l].kind = "insn"
      BY PositionFacts
    <3>2. PICK j \in DOMAIN out : f[j] = l
      BY <3>1 DEF Places
    <3>3. 1 \in DOMAIN out /\ Place(out, f, n, 1) = f[1] /\ (1 < j \/ 1 = j)
      BY <1>1, <3>2 DEF Place
    <3> QED BY <1>2, <3>2, <3>3 DEF InOrder
  <2>2. Cardinality(B(1)) = 0 /\ Rank(out, 1 - 1) = 0 /\ st(1) = 0
    <3>1. Cardinality({}) = 0 /\ 1 - 1 = 0 /\ 0 \in Nat
      BY FS_EmptySet
    <3>2. Rank(out, 0) = 0
      BY <3>1, RankNext
    <3>3. st(1) = 0
      OBVIOUS
    <3> HIDE DEF B, st
    <3> QED BY <2>1, <3>1, <3>2, <3>3
  <2> HIDE DEF B, st
  <2> QED BY <1>1, <2>2
<1>4. ASSUME NEW u \in 1 .. (N + 1) - 1, u \in T PROVE u + 1 \in T
  <2>1. /\ u \in DOMAIN out /\ u \in Nat /\ u - 1 \in Nat /\ (u - 1) + 1 = u /\ (u + 1) - 1 = u
        /\ u + 1 \in 1 .. N + 1 /\ Place(out, f, n, u) = f[u]
    BY <1>1 DEF Place
  <2>2. /\ Rank(out, u) = Rank(out, u - 1) + IF out[u].type = "insn" THEN 1 ELSE 0
    BY <2>1, RankNext
  <2>3. Rank(out, u - 1) = Cardinality(B(u)) + st(u)
    BY <1>4
  <2>4. /\ B(u + 1) = B(u) \cup (IF out[u].type = "insn" /\ f[u] # 0 THEN {f[u]} ELSE {})
        /\ f[u] \notin B(u)
    BY <2>1, BeforeNext
  <2>5. IsFiniteSet(B(u)) /\ Cardinality(B(u)) \in Nat
    BY BeforeFacts
  <2>6. f[u] = 0 <=> u = 1 /\ HasStart(out)
    <3>1. ASSUME f[u] = 0 PROVE u = 1 /\ HasStart(out)
      <4>1. HasStart(out)
        BY <1>2, <2>1, <3>1 DEF HasStart
      <4>2. ~(1 < u)
        <5>1. 1 \in DOMAIN out /\ f[1] \in 0 .. n
          BY <1>1, <1>2
        <5>2. ~(f[1] < f[u])
          BY <3>1, <5>1
        <5> QED BY <1>2, <2>1, <5>1, <5>2 DEF InOrder
      <4> QED BY <2>1, <4>1, <4>2
    <3>2. ASSUME HasStart(out), u = 1 PROVE f[u] = 0
      <4>1. PICK j \in DOMAIN out : f[j] = 0
        BY <1>2, <3>2 DEF HasStart
      <4>2. ~(1 < j) /\ j \in Nat /\ j # 0
        <5>1. 1 \in DOMAIN out /\ f[1] \in 0 .. n
          BY <1>1, <1>2
        <5>2. ~(f[1] < f[j])
          BY <4>1, <5>1
        <5> QED BY <1>1, <1>2, <5>1, <5>2 DEF InOrder
      <4> QED BY <3>2, <4>1, <4>2
    <3> QED BY <3>1, <3>2
  <2>7. f[u] = 0 => out[u].type = "insn"
    BY <2>1 DEF Places, IsEntryOf
  <2> HIDE DEF B
  <2>8. Cardinality(B(u + 1)) = Cardinality(B(u)) + IF out[u].type = "insn" /\ f[u] # 0 THEN 1 ELSE 0
    <3>1. CASE out[u].type = "insn" /\ f[u] # 0
      <4>1. B(u + 1) = B(u) \cup {f[u]}
        BY <2>4, <3>1
      <4>2. Cardinality(B(u) \cup {f[u]}) = Cardinality(B(u)) + 1
        BY <2>4, <2>5, FS_AddElement
      <4> QED BY <3>1, <4>1, <4>2
    <3>2. CASE ~(out[u].type = "insn" /\ f[u] # 0)
      <4>1. B(u + 1) = B(u)
        BY <2>4, <3>2
      <4> QED BY <2>5, <3>2, <4>1
    <3> QED BY <3>1, <3>2
  <2>9. Rank(out, u) = Cardinality(B(u + 1)) + st(u + 1)
    <3>1. st(u + 1) = IF HasStart(out) THEN 1 ELSE 0
      BY <2>1
    <3>2. CASE f[u] = 0
      <4>1. st(u) = 0 /\ st(u + 1) = 1
        BY <2>6, <3>1, <3>2
      <4> HIDE DEF st
      <4> QED BY <2>2, <2>3, <2>5, <2>7, <2>8, <3>2, <4>1
    <3>3. CASE f[u] # 0
      <4>1. st(u) = st(u + 1) /\ st(u) \in Nat
        <5>1. u > 1 \/ ~HasStart(out)
          <6>1. u # 1 \/ ~HasStart(out)
            BY <2>6, <3>3
          <6>2. u = 1 \/ u > 1
            BY <2>1
          <6> QED BY <6>1, <6>2
        <5> QED BY <3>1, <5>1
      <4> HIDE DEF st
      <4> QED BY <2>2, <2>3, <2>5, <2>8, <3>3, <4>1
    <3> QED BY <3>2, <3>3
  <2> QED BY <2>1, <2>9
<1>5. 1 .. N + 1 \subseteq T
  <2> DEFINE M == N + 1
  <2>1. M \in Nat
    BY <1>1
  <2>2. \A u \in 1 .. M - 1 : u \in T => u + 1 \in T
    BY <1>4
  <2> HIDE DEF T, M
  <2>3. 1 .. M \subseteq T
    BY <1>3, <2>1, <2>2, InductionOnEntries
  <2> QED BY <2>3 DEF M
<1> QED BY <1>5

\* A list that resolve_labels has counted.
Counted(p, s, a, out, f) ==
    /\ IsProgram(p) /\ IsSequence(out)
    /\ Places(p, s, a, out, Len(p), f)
    /\ AddressesChain(out, Len(out))
    /\ \A k \in DOMAIN out : out[k].address \in Nat

\* The address of an entry, in the program: the first loop of resolve_labels.
LEMMA EntryAddress ==
    ASSUME NEW p, NEW s, NEW a, NEW out, NEW f, Counted(p, s, a, out, f), NEW t \in DOMAIN out
    PROVE  out[t].address = Meaning!InsnsBefore(p, f[t]) +
                            IF f[t] # 0 /\ HasStart(out) THEN 1 ELSE 0
<1>1. /\ IsProgram(p) /\ IsSequence(out) /\ Places(p, s, a, out, Len(p), f)
      /\ AddressesChain(out, Len(out)) /\ \A k \in DOMAIN out : out[k].address \in Nat
      /\ Len(p) \in Nat /\ Len(out) \in Nat /\ DOMAIN out = 1 .. Len(out)
  BY SequenceFacts DEF Counted, IsProgram
<1>2. out[t].address = Rank(out, t - 1)
  BY <1>1, AddressIsRank
<1>3. Place(out, f, Len(p), t) = f[t] /\ t \in 1 .. Len(out) + 1
  BY <1>1 DEF Place
<1>4. Rank(out, t - 1) = Cardinality(Before(p, Place(out, f, Len(p), t))) +
                         IF t > 1 /\ HasStart(out) THEN 1 ELSE 0
  BY <1>1, <1>3, RankOfPlace
<1>5. HasStart(out) => (t > 1 <=> f[t] # 0)
  <2> SUFFICES ASSUME HasStart(out) PROVE t > 1 <=> f[t] # 0
    OBVIOUS
  <2>1. InOrder(out, f) /\ \A u \in DOMAIN out : f[u] \in 0 .. Len(p) /\ (out[u].start <=> f[u] = 0)
    <3>1. InOrder(out, f)
      BY <1>1, PlacesOrder
    <3> QED BY <1>1, <3>1 DEF Places, IsEntryOf
  <2>2. PICK j \in DOMAIN out : f[j] = 0
    BY <2>1 DEF HasStart
  <2>3. 1 \in DOMAIN out /\ f[1] \in 0 .. Len(p) /\ j \in Nat /\ j >= 1
    BY <1>1, <2>1
  <2>4. ~(1 < j)
    <3>1. ~(f[1] < f[j])
      BY <2>2, <2>3
    <3> QED BY <2>1, <2>3, <3>1 DEF InOrder
  <2>5. f[1] = 0
    BY <2>2, <2>3, <2>4
  <2> QED BY <1>1, <2>1, <2>3, <2>5 DEF InOrder
<1> QED BY <1>2, <1>3, <1>4, <1>5, <1>1, BeforeFacts

LEMMA ListLength ==
    ASSUME NEW p, IsProgram(p), NEW s, NEW a, NEW out, IsSequence(out), NEW f,
           Places(p, s, a, out, Len(p), f)
    PROVE  Rank(out, Len(out)) = Cardinality(Meaning!Positions(p, "insn")) +
                                 IF HasStart(out) THEN 1 ELSE 0
<1>1. Len(p) \in Nat /\ Len(out) \in Nat /\ DOMAIN out = 1 .. Len(out)
  BY SequenceFacts DEF IsProgram
<1> DEFINE t == Len(out) + 1
<1>2. t \in 1 .. Len(out) + 1 /\ t - 1 = Len(out) /\ Place(out, f, Len(p), t) = Len(p) + 1
  BY <1>1 DEF Place
<1>3. Rank(out, t - 1) = Cardinality(Before(p, Place(out, f, Len(p), t))) +
                         IF t > 1 /\ HasStart(out) THEN 1 ELSE 0
  BY <1>2, RankOfPlace
<1>4. Before(p, Len(p) + 1) = Meaning!Positions(p, "insn")
  BY <1>1, PositionFacts DEF Before
<1>5. HasStart(out) => t > 1
  BY <1>1 DEF HasStart
<1> QED BY <1>2, <1>3, <1>4, <1>5
-----------------------------------------------------------------------------
\* What is written: the image that the program means.

LEMMA ReferenceAddress ==
    ASSUME NEW p, NEW s, NEW a, NEW out, NEW f, Counted(p, s, a, out, f),
           NEW j \in DOMAIN out, NEW ref, ref.dir \in Directions, HasTarget(out, j, ref)
    PROVE  LabelAddress(out, j, ref) =
             Meaning!InsnsBefore(p, Meaning!Meant(p, f[j], ref)) + IF HasStart(out) THEN 1 ELSE 0
<1>1. /\ IsProgram(p) /\ IsSequence(out) /\ Places(p, s, a, out, Len(p), f)
      /\ AddressesChain(out, Len(out)) /\ \A k \in DOMAIN out : out[k].address \in Nat
  BY DEF Counted
<1>2. PICK t \in DOMAIN out : /\ f[t] = Meaning!Meant(p, f[j], ref)
                              /\ out[t].type = "label"
                              /\ LabelAddress(out, j, ref) = out[t].address
  BY <1>1, TargetIsDefined
<1>3. f[t] # 0
  BY <1>1, <1>2 DEF Places, IsEntryOf
<1>4. out[t].address = Meaning!InsnsBefore(p, f[t]) + IF f[t] # 0 /\ HasStart(out) THEN 1 ELSE 0
  BY EntryAddress
<1> QED BY <1>2, <1>3, <1>4

LEMMA OperandReference ==
    ASSUME NEW p, IsProgram(p), NEW s, NEW a \in Arches, NEW n \in 1 .. 3, NEW k,
           k = 0 \/ (k \in DOMAIN p /\ p[k].kind = "insn"), MachineOf(p, s, a, k, n).t = "label"
    PROVE  MachineOf(p, s, a, k, n).dir \in Directions
<1>1. CASE k = 0
  <2>1. n = 3 /\ MachineOf(p, s, a, 0, 3) = LabelOper(s, "absolute")
    BY <1>1, StartOperands
  <2>2. LabelOper(s, "absolute").dir = "absolute"
    BY DEF LabelOper
  <2> QED BY <1>1, <2>1, <2>2 DEF Directions
<1>2. CASE k # 0
  <2>1. MachineOf(p, s, a, k, n) = MachineOperands(Emulated(a, p[k].insn))[n]
    BY <1>2 DEF MachineOf, InsnOf
  <2> QED BY <1>2, <2>1 DEF IsProgram, Directions
<1> QED BY <1>1, <1>2

LEMMA InsnPlace ==
    ASSUME NEW p, NEW s, NEW a, NEW out, NEW f, Counted(p, s, a, out, f),
           NEW u \in DOMAIN out, out[u].type = "insn"
    PROVE  /\ f[u] = 0 \/ (f[u] \in DOMAIN p /\ p[f[u]].kind = "insn")
           /\ out[u].opcode = Opcode(Emulated(a, InsnOf(p, s, f[u])))
           /\ \A n \in 1 .. 3 : IsOperandOf(a, out[u].operands[n], MachineOf(p, s, a, f[u], n))
<1>1. IsProgram(p) /\ IsEntryOf(p, s, a, out[u], f[u]) /\ f[u] \in 0 .. Len(p)
  BY DEF Counted, Places
<1>2. f[u] = 0 \/ p[f[u]].kind = "insn"
  BY <1>1 DEF IsEntryOf
<1>3. f[u] = 0 \/ f[u] \in DOMAIN p
  BY <1>1 DEF IsProgram
<1> QED BY <1>1, <1>2, <1>3 DEF IsEntryOf

LEMMA CodeIsMeant ==
    ASSUME NEW p, NEW s, NEW a \in Arches, NEW out, NEW f, Counted(p, s, a, out, f),
           Meaning!ArchOf(p) = a, HasStart(out) <=> Meaning!NeedsStartJump(p),
           NEW u \in DOMAIN out, out[u].type = "insn", ResolvedRight(a, out, u)
    PROVE  Code(a, out[u]) = Meaning!MeantCode(p, f[u], InsnOf(p, s, f[u]))
<1> DEFINE k     == f[u]
           insn  == Emulated(a, InsnOf(p, s, k))
           words == [n \in 1 .. 3 |-> out[u].operands[n].operand]
<1>1. IsProgram(p)
  BY DEF Counted
<1>2. /\ k = 0 \/ (k \in DOMAIN p /\ p[k].kind = "insn")
      /\ out[u].opcode = Opcode(insn)
      /\ \A n \in 1 .. 3 : IsOperandOf(a, out[u].operands[n], MachineOf(p, s, a, k, n))
  BY InsnPlace
<1>3. ASSUME NEW n \in 1 .. 3
      PROVE  out[u].operands[n].operand = Meaning!MeantOperands(p, k, insn)[n]
  <2> DEFINE m == MachineOf(p, s, a, k, n)
             o == out[u].operands[n]
  <2>1. Meaning!MachineOperands(insn)[n] = m
    BY SameOperators DEF MachineOf
  <2>2. Meaning!MeantOperands(p, k, insn)[n] =
          IF m.t = "label"
          THEN Meaning!LabelOperand(a, n, Meaning!AddressOf(p, Meaning!Meant(p, k, m)))
          ELSE Meaning!OperandWord(a, m)
    <3> HIDE DEF m, insn
    <3> QED BY <2>1 DEF Meaning!MeantOperands
  <2>3. IsOperandOf(a, o, m)
    BY <1>2
  <2>4. CASE m.t = "label"
    <3>1. m.dir \in Directions
      BY <1>1, <1>2, <2>4, OperandReference
    <3> HIDE DEF m
    <3>2. o.type = "labelref" /\ o.label.name = m.name /\ o.label.dir = m.dir
      BY <2>3, <2>4 DEF IsOperandOf
    <3>3. HasTarget(out, u, o.label) /\ o.operand = LabelOperand(a, n, LabelAddress(out, u, o.label))
      BY <3>2 DEF ResolvedRight
    <3>4. LabelAddress(out, u, o.label) =
            Meaning!InsnsBefore(p, Meaning!Meant(p, k, o.label)) + IF HasStart(out) THEN 1 ELSE 0
      BY <3>1, <3>2, <3>3, ReferenceAddress
    <3>5. Meaning!Meant(p, k, o.label) = Meaning!Meant(p, k, m)
      BY <3>2, SameReference
    <3>6. LabelAddress(out, u, o.label) = Meaning!AddressOf(p, Meaning!Meant(p, k, m))
      BY <3>4, <3>5 DEF Meaning!AddressOf
    <3>7. Meaning!LabelOperand(a, n, Meaning!AddressOf(p, Meaning!Meant(p, k, m))) = o.operand
      BY <3>3, <3>6, SameOperators
    <3> QED BY <2>2, <2>4, <3>7
  <2>5. CASE m.t # "label"
    <3> HIDE DEF m
    <3>1. o.operand = OperandWord(a, m)
      BY <2>3, <2>5 DEF IsOperandOf
    <3>2. Meaning!OperandWord(a, m) = OperandWord(a, m)
      BY SameOperators
    <3> QED BY <2>2, <2>5, <3>1, <3>2
  <2> QED BY <2>4, <2>5
<1>4. words = Meaning!MeantOperands(p, k, insn)
  <2> HIDE DEF insn
  <2>1. Meaning!MeantOperands(p, k, insn) = [n \in 1 .. 3 |-> Meaning!MeantOperands(p, k, insn)[n]]
    BY DEF Meaning!MeantOperands
  <2> QED BY <1>3, <2>1
<1>5. Code(a, out[u]) = CodeWord(a, Opcode(insn), words)
  BY <1>2 DEF Code
<1>6. Meaning!MeantCode(p, k, InsnOf(p, s, k)) =
        CodeWord(a, Opcode(insn), Meaning!MeantOperands(p, k, insn))
  <2>1. Meaning!Emulated(a, InsnOf(p, s, k)) = insn
    BY SameOperators
  <2> HIDE DEF insn
  <2>2. Meaning!MeantCode(p, k, InsnOf(p, s, k)) =
          Meaning!CodeWord(a, Meaning!Opcode(insn), Meaning!MeantOperands(p, k, insn))
    BY <2>1 DEF Meaning!MeantCode
  <2> QED BY <2>2, SameOperators
<1> QED BY <1>4, <1>5, <1>6

\* Two instructions of a program have different addresses.
LEMMA InsnsApart ==
    ASSUME NEW p, IsProgram(p), NEW k \in Meaning!Positions(p, "insn"),
           NEW l \in Meaning!Positions(p, "insn"),
           Meaning!InsnsBefore(p, k) = Meaning!InsnsBefore(p, l)
    PROVE  k = l
<1>1. ASSUME NEW x \in Meaning!Positions(p, "insn"), NEW y \in Meaning!Positions(p, "insn"), x < y
      PROVE  Meaning!InsnsBefore(p, x) < Meaning!InsnsBefore(p, y)
  <2>1. \A z \in Meaning!Positions(p, "insn") : z \in Nat
    BY PositionFacts
  <2>2. /\ Before(p, x) \cup {x} \subseteq Before(p, y)
        /\ x \notin Before(p, x)
    BY <1>1, <2>1 DEF Before
  <2>3. Cardinality(Before(p, x) \cup {x}) = Cardinality(Before(p, x)) + 1
    BY <2>2, BeforeFacts, FS_AddElement
  <2>4. Cardinality(Before(p, x) \cup {x}) <= Cardinality(Before(p, y))
    BY <2>2, BeforeFacts, FS_Subset
  <2> QED BY <2>3, <2>4, BeforeFacts
<1>2. k \in Nat /\ l \in Nat
  BY PositionFacts
<1>3. Meaning!InsnsBefore(p, k) \in Nat
  BY BeforeFacts
<1> QED BY <1>1, <1>2, <1>3

\* The code words of the first n entries.
Emitted(a, out, words, n) ==
    /\ IsSequence(words) /\ Len(words) = Rank(out, n)
    /\ \A q \in 1 .. Len(words) :
          \E u \in 1 .. n : /\ out[u].type = "insn" /\ out[u].address = q - 1
                            /\ words[q] = Code(a, out[u])

LEMMA WordsAreImage ==
    ASSUME NEW p, NEW s, NEW a \in Arches, NEW out, NEW f, Counted(p, s, a, out, f),
           Meaning!ArchOf(p) = a, Meaning!StartOf(p) = s, HasStart(out) <=> Meaning!NeedsStartJump(p),
           \A k \in DOMAIN out : ResolvedRight(a, out, k),
           NEW words, Emitted(a, out, words, Len(out))
    PROVE  words = Meaning!Image(p)
<1> DEFINE first == IF Meaning!NeedsStartJump(p) THEN 1 ELSE 0
           N == Cardinality(Meaning!Positions(p, "insn")) + first
           Word(w) == IF w <= first THEN Meaning!StartCode(p)
                      ELSE Meaning!MeantCode(p, Meaning!InsnAt(p, w - 1), p[Meaning!InsnAt(p, w - 1)].insn)
<1>1. /\ IsProgram(p) /\ IsSequence(out) /\ Places(p, s, a, out, Len(p), f)
      /\ AddressesChain(out, Len(out)) /\ \A k \in DOMAIN out : out[k].address \in Nat
      /\ Len(out) \in Nat /\ DOMAIN out = 1 .. Len(out)
  BY SequenceFacts DEF Counted
<1>2. Meaning!Image(p) = [w \in 1 .. N |-> Word(w)]
  BY SameOperators DEF Meaning!Image
<1>3. Rank(out, Len(out)) = Cardinality(Meaning!Positions(p, "insn")) + IF HasStart(out) THEN 1 ELSE 0
  BY <1>1, ListLength
<1>4. /\ DOMAIN words = 1 .. Len(words) /\ Len(words) = N /\ N \in Nat
      /\ words = [w \in 1 .. Len(words) |-> words[w]]
  BY <1>1, <1>3, SequenceFacts, PositionFacts DEF Emitted, IsSequence
<1>5. ASSUME NEW w \in 1 .. N PROVE words[w] = Word(w)
  <2>1. PICK u \in DOMAIN out : /\ out[u].type = "insn" /\ out[u].address = w - 1
                                /\ words[w] = Code(a, out[u])
    BY <1>1, <1>4 DEF Emitted
  <2>2. words[w] = Meaning!MeantCode(p, f[u], InsnOf(p, s, f[u]))
    BY <2>1, CodeIsMeant
  <2>3. w - 1 = Meaning!InsnsBefore(p, f[u]) + IF f[u] # 0 /\ HasStart(out) THEN 1 ELSE 0
    BY <2>1, EntryAddress
  <2>4. f[u] = 0 \/ (f[u] \in DOMAIN p /\ p[f[u]].kind = "insn")
    BY <2>1, InsnPlace
  <2>5. Meaning!InsnsBefore(p, f[u]) \in Nat
    BY <1>1, BeforeFacts
  <2>6. CASE f[u] = 0
    <3>1. HasStart(out)
      BY <1>1, <2>6 DEF HasStart, Places, IsEntryOf
    <3>2. Before(p, 0) = {}
      BY <1>1, PositionFacts DEF Before
    <3>3. Meaning!InsnsBefore(p, 0) = 0
      BY <1>1, <3>2, BeforeFacts, FS_EmptySet
    <3>4. w = 1 /\ first = 1
      BY <2>3, <2>6, <3>1, <3>3
    <3>5. Meaning!StartCode(p) = Meaning!MeantCode(p, 0, InsnOf(p, s, 0))
      <4>1. Meaning!StartCode(p) =
              Meaning!MeantCode(p, 0, Meaning!Insn("jmp", <<[t |-> "label", name |-> s, dir |-> "absolute"]>>))
        BY DEF Meaning!StartCode
      <4>2. InsnOf(p, s, 0) = Insn("jmp", <<[t |-> "label", name |-> s, dir |-> "absolute"]>>)
        BY DEF InsnOf, LabelOper
      <4> QED BY <4>1, <4>2, SameOperators
    <3> HIDE DEF first
    <3> QED BY <2>2, <2>6, <3>4, <3>5
  <2>7. CASE f[u] # 0
    <3>1. f[u] \in Meaning!Positions(p, "insn") /\ InsnOf(p, s, f[u]) = p[f[u]].insn
      BY <2>4, <2>7 DEF Meaning!Positions, InsnOf
    <3>2. Meaning!AddressOf(p, f[u]) = w - 1
      BY <2>3, <2>7 DEF Meaning!AddressOf
    <3>3. \A k \in Meaning!Positions(p, "insn") : Meaning!AddressOf(p, k) = w - 1 => k = f[u]
      <4> SUFFICES ASSUME NEW k \in Meaning!Positions(p, "insn"), Meaning!AddressOf(p, k) = w - 1
                   PROVE  k = f[u]
        OBVIOUS
      <4>1. Meaning!InsnsBefore(p, k) \in Nat
        BY <1>1, BeforeFacts
      <4>2. Meaning!InsnsBefore(p, k) = Meaning!InsnsBefore(p, f[u])
        BY <2>5, <3>2, <4>1 DEF Meaning!AddressOf
      <4> QED BY <1>1, <3>1, <4>2, InsnsApart
    <3>4. Meaning!InsnAt(p, w - 1) = f[u]
      BY <3>1, <3>2, <3>3 DEF Meaning!InsnAt
    <3>5. ~(w <= first)
      BY <2>3, <2>5, <2>7
    <3> HIDE DEF first
    <3> QED BY <2>2, <3>1, <3>4, <3>5
  <2> QED BY <2>6, <2>7
<1> HIDE DEF N, Word
<1>6. words = [w \in 1 .. N |-> Word(w)]
  BY <1>4, <1>5
<1> QED BY <1>2, <1>6 DEF N, Word
-----------------------------------------------------------------------------
\* The invariant: what each loop knows of the program so far.
NoErrors(p, a, n) == \A k \in 1 .. n : p[k].kind = "insn" => ~InsnError(a, p[k].insn)

\* The list after assemble_instructions. A %start jump that is missing from it
\* was not needed.
Made(p, s, a, out) ==
    /\ a \in Arches /\ Directives(p, a, s, Len(p)) /\ NoErrors(p, a, Len(p))
    /\ \E f : Places(p, s, a, out, Len(p), f)
    /\ HasStart(out) => s # NoName
    /\ (s # NoName /\ ~HasStart(out)) =>
          Meaning!IsDefined(p, 0, Meaning!StartRef(p)) /\ ~Meaning!NeedsStartJump(p)

Assembled(p, s, a, out, n) ==
    /\ a \in Arches /\ Directives(p, a, s, Len(p)) /\ NoErrors(p, a, n)
    /\ \E f : Places(p, s, a, out, n, f)
    /\ HasStart(out) <=> s # NoName

ProgramSoFar ==
    /\ prog \in Programs
    /\ pc = "directives" => i <= Len(prog) + 1 /\ Directives(prog, arch, start, i - 1)
    /\ pc = "assemble" => i <= Len(prog) + 1 /\ Assembled(prog, start, arch, output, i - 1)
    /\ pc \in {"addresses", "resolve", "emit", "done"} => Made(prog, start, arch, output)
    /\ ((pc = "resolve" /\ i > 1) \/ pc \in {"emit", "done"}) /\ HasStart(output) =>
          Meaning!NeedsStartJump(prog)

ImageSoFar ==
    /\ IF pc = "done" THEN outfile.state \in {"closed", "truncated"}
       ELSE outfile.state \in {"old", "open"}
    /\ pc = "emit" => i <= Len(output) + 1
    /\ pc \in {"emit", "done"} =>
          /\ outfile.header = 8 * InsnCount(output)
          /\ Emitted(arch, output, outfile.words, IF pc = "emit" THEN i - 1 ELSE Len(output))

MeaningInv == IInv /\ ProgramSoFar /\ ImageSoFar

LEMMA StateFacts ==
    ASSUME MeaningInv
    PROVE  /\ IsProgram(prog) /\ Len(prog) \in Nat /\ DOMAIN prog = 1 .. Len(prog)
           /\ IsSequence(output) /\ Len(output) \in Nat /\ DOMAIN output = 1 .. Len(output)
           /\ \A k \in DOMAIN output : IsEntry(output[k])
           /\ i \in Nat \ {0} /\ StartFirst
<1>1. prog \in Programs /\ IsSequence(output)
  BY DEF MeaningInv, ProgramSoFar, IInv
<1>2. IsProgram(prog)
  BY <1>1, ProgramType
<1>3. Len(output) \in Nat /\ DOMAIN output = 1 .. Len(output)
  BY <1>1, SequenceFacts
<1> QED BY <1>1, <1>2, <1>3 DEF IsProgram, MeaningInv, IInv, TypeOK

LEMMA MeaningInit == Init => MeaningInv
<1> SUFFICES ASSUME Init PROVE MeaningInv
  OBVIOUS
<1>1. prog \in Programs /\ Len(prog) \in Nat
  BY ProgramType DEF Init, IsProgram
<1>2. Directives(prog, 0, NoName, 0)
  BY DEF Directives
<1>3. ProgramSoFar
  BY <1>1, <1>2 DEF Init, ProgramSoFar
<1>4. ImageSoFar
  BY DEF Init, ImageSoFar, OldFile
<1> QED BY <1>3, <1>4, InitInv DEF MeaningInv

\* eval_directives
LEMMA MeaningDirectives ==
    ASSUME MeaningInv, EvalArch \/ EvalStart \/ EvalOther
    PROVE  ProgramSoFar' /\ ImageSoFar'
<1>1. /\ pc = "directives" /\ pc' = "directives" /\ i' = i + 1 /\ i <= Len(prog)
      /\ UNCHANGED <<prog, outfile>>
  BY DEF EvalArch, EvalStart, EvalOther, AtStatement
<1>2. PICK n \in Nat : i = n + 1
  <2>1. i - 1 \in Nat /\ i = (i - 1) + 1
    BY StateFacts
  <2> QED BY <2>1
<1>3. IsProgram(prog) /\ Directives(prog, arch, start, n)
  <2>1. i - 1 = n
    BY <1>2
  <2> QED BY <1>1, <2>1, StateFacts DEF MeaningInv, ProgramSoFar
<1>4. \/ /\ prog[n + 1].kind = "arch" /\ arch = 0 /\ start' = start
         /\ arch' = ArchFallback(prog[n + 1].arch) /\ arch' \in Arches
      \/ /\ prog[n + 1].kind = "start" /\ start = NoName /\ arch' = arch /\ start' = prog[n + 1].name
      \/ /\ prog[n + 1].kind \in {"label", "insn"} /\ arch' = arch /\ start' = start
  BY <1>2 DEF EvalArch, EvalStart, EvalOther, AtStatement
<1>5. Directives(prog, arch', start', n + 1)
  <2>1. n + 1 <= Len(prog)
    BY <1>1, <1>2
  <2> QED BY <1>3, <1>4, <2>1, NextDirective
<1>6. i' - 1 = n + 1 /\ i' <= Len(prog) + 1
  BY <1>1, <1>2, StateFacts
<1>7. ProgramSoFar'
  BY <1>1, <1>5, <1>6 DEF MeaningInv, ProgramSoFar
<1>8. ImageSoFar'
  BY <1>1 DEF MeaningInv, ImageSoFar
<1> QED BY <1>7, <1>8

LEMMA MeaningBegin ==
    ASSUME MeaningInv, BeginAssembly
    PROVE  ProgramSoFar' /\ ImageSoFar'
<1>1. /\ pc = "directives" /\ pc' = "assemble" /\ i' = 1 /\ i > Len(prog) /\ arch # 0
      /\ output' = IF start = NoName THEN <<>> ELSE <<StartJump(arch, start)>>
      /\ UNCHANGED <<prog, arch, start, outfile>>
  BY DEF BeginAssembly
<1>2. arch \in Arches /\ Directives(prog, arch, start, Len(prog)) /\ Len(prog) \in Nat
  <2>1. i - 1 = Len(prog)
    BY <1>1, StateFacts DEF MeaningInv, ProgramSoFar
  <2> QED BY <1>1, <2>1, StateFacts DEF MeaningInv, ProgramSoFar, IInv, TypeOK
<1>3. NoErrors(prog, arch, 0)
  BY DEF NoErrors
<1>4. /\ \E f : Places(prog, start, arch, output', 0, f)
      /\ HasStart(output') <=> start # NoName
  <2>1. CASE start = NoName
    <3> DEFINE f == [j \in {} |-> 0]
    <3>1. output' = <<>> /\ DOMAIN output' = {}
      BY <1>1, <2>1, EmptyFacts
    <3>2. f \in [{} -> 0 .. 0]
      OBVIOUS
    <3> HIDE DEF f
    <3>3. Places(prog, start, arch, output', 0, f)
      BY <3>1, <3>2 DEF Places
    <3> QED BY <2>1, <3>1, <3>3 DEF HasStart
  <2>2. CASE start # NoName
    <3> DEFINE f == [j \in 1 .. 1 |-> 0]
               d == OutInsn(arch, InsnOf(prog, start, 0))
               c == [d EXCEPT !.start = TRUE]
    <3>1. StartJump(arch, start) = c
      BY DEF StartJump, InsnOf
    <3>2. IsEntryOf(prog, start, arch, c, 0)
      <4>1. c = IF 0 = 0 THEN [d EXCEPT !.start = TRUE] ELSE d
        OBVIOUS
      <4> HIDE DEF c
      <4>2. d = OutInsn(arch, InsnOf(prog, start, 0))
        OBVIOUS
      <4> HIDE DEF d
      <4> QED BY <4>1, <4>2, InsnIsPlaced
    <3> HIDE DEF c
    <3>3. output' = Append(<<>>, c)
      BY <1>1, <2>2, <3>1
    <3>4. DOMAIN output' = 1 .. 1 /\ output'[1] = c
      <4>1. /\ DOMAIN Append(<<>>, c) = 1 .. Len(<<>>) + 1
            /\ Append(<<>>, c)[Len(<<>>) + 1] = c
        BY EmptyFacts, AppendFacts
      <4>2. Len(<<>>) + 1 = 1
        BY EmptyFacts
      <4> QED BY <3>3, <4>1, <4>2
    <3>5. f \in [1 .. 1 -> 0 .. 0] /\ \A j \in 1 .. 1 : f[j] = 0 /\ j = 1
      OBVIOUS
    <3> HIDE DEF f
    <3>6. \A j \in DOMAIN output' : IsEntryOf(prog, start, arch, output'[j], f[j])
      BY <3>2, <3>4, <3>5
    <3>7. Places(prog, start, arch, output', 0, f)
      BY <3>4, <3>5, <3>6 DEF Places
    <3>8. c.start
      BY <3>2 DEF IsEntryOf
    <3>9. HasStart(output')
      BY <3>4, <3>8 DEF HasStart
    <3> QED BY <2>2, <3>7, <3>9
  <2> QED BY <2>1, <2>2
<1>5. Assembled(prog, start, arch, output', 0)
  BY <1>2, <1>3, <1>4 DEF Assembled
<1>6. ProgramSoFar'
  <2>1. i' - 1 = 0 /\ i' <= Len(prog) + 1
    BY <1>1, <1>2
  <2> QED BY <1>1, <1>5, <2>1 DEF MeaningInv, ProgramSoFar
<1>7. ImageSoFar'
  BY <1>1 DEF MeaningInv, ImageSoFar
<1> QED BY <1>6, <1>7

\* assemble_instructions
LEMMA StartAppend ==
    ASSUME NEW out, IsSequence(out), NEW c, ~c.start
    PROVE  HasStart(Append(out, c)) <=> HasStart(out)
<1> DEFINE N   == Len(out)
           new == Append(out, c)
<1>1. /\ N \in Nat /\ DOMAIN out = 1 .. N /\ DOMAIN new = 1 .. N + 1
      /\ \A j \in 1 .. N : new[j] = out[j]
      /\ new[N + 1] = c
  BY SequenceFacts, AppendFacts
<1> HIDE DEF N, new
<1>2. \A j : j \in 1 .. N + 1 <=> j \in 1 .. N \/ j = N + 1
  BY <1>1
<1>3. HasStart(new) <=> HasStart(out)
  BY <1>1, <1>2 DEF HasStart
<1> QED BY <1>3 DEF new

LEMMA MeaningAssemble ==
    ASSUME MeaningInv, AssembleInsn \/ AssembleLabel \/ AssembleDirective
    PROVE  ProgramSoFar' /\ ImageSoFar'
<1>1. /\ pc = "assemble" /\ pc' = "assemble" /\ i' = i + 1 /\ i <= Len(prog)
      /\ UNCHANGED <<prog, arch, start, outfile>>
  BY DEF AssembleInsn, AssembleLabel, AssembleDirective, AtStatement
<1>2. PICK n \in Nat : i = n + 1
  <2>1. i - 1 \in Nat /\ i = (i - 1) + 1
    BY StateFacts
  <2> QED BY <2>1
<1>3. Assembled(prog, start, arch, output, n) /\ IsSequence(output)
  <2>1. i - 1 = n
    BY <1>2
  <2> QED BY <1>1, <2>1, StateFacts DEF MeaningInv, ProgramSoFar
<1>4. PICK f : Places(prog, start, arch, output, n, f)
  BY <1>3 DEF Assembled
<1>5. /\ \E g : Places(prog, start, arch, output', n + 1, g)
      /\ HasStart(output') <=> HasStart(output)
      /\ prog[n + 1].kind = "insn" => ~InsnError(arch, prog[n + 1].insn)
  <2>1. CASE AssembleInsn
    <3> DEFINE c == OutInsn(arch, prog[n + 1].insn)
    <3>1. /\ prog[n + 1].kind = "insn" /\ ~InsnError(arch, prog[n + 1].insn)
          /\ output' = Append(output, c)
      BY <1>2, <2>1 DEF AssembleInsn, AtStatement
    <3>2. n + 1 # 0 /\ InsnOf(prog, start, n + 1) = prog[n + 1].insn
      BY DEF InsnOf
    <3>3. IsEntryOf(prog, start, arch, c, n + 1)
      <4> DEFINE k == n + 1
      <4>1. k # 0 /\ prog[k].kind = "insn" /\ c = OutInsn(arch, InsnOf(prog, start, k))
        BY <3>1, <3>2
      <4> HIDE DEF k, c
      <4>2. c = IF k = 0 THEN [c EXCEPT !.start = TRUE] ELSE c
        BY <4>1
      <4>3. IsEntryOf(prog, start, arch, c, k)
        BY <4>1, <4>2, InsnIsPlaced
      <4> QED BY <4>3 DEF k
    <3> HIDE DEF c
    <3>4. ~c.start
      BY <3>2, <3>3 DEF IsEntryOf
    <3>5. \E g : Places(prog, start, arch, Append(output, c), n + 1, g)
      BY <1>3, <1>4, <3>3, PlacesAppend
    <3>6. HasStart(Append(output, c)) <=> HasStart(output)
      BY <1>3, <3>4, StartAppend
    <3> QED BY <3>1, <3>5, <3>6
  <2>2. CASE AssembleLabel
    <3> DEFINE c == OutLabel(prog[n + 1].name)
    <3>1. prog[n + 1].kind = "label" /\ output' = Append(output, c)
      BY <1>2, <2>2 DEF AssembleLabel, AtStatement
    <3>2. c.type = "label" /\ c.name = prog[n + 1].name /\ c.start = FALSE
      BY DEF OutLabel
    <3> HIDE DEF c
    <3>3. IsEntryOf(prog, start, arch, c, n + 1)
      <4>1. n + 1 # 0
        OBVIOUS
      <4> QED BY <3>1, <3>2, <4>1 DEF IsEntryOf
    <3>4. \E g : Places(prog, start, arch, Append(output, c), n + 1, g)
      BY <1>3, <1>4, <3>3, PlacesAppend
    <3>5. HasStart(Append(output, c)) <=> HasStart(output)
      BY <1>3, <3>2, StartAppend
    <3> QED BY <3>1, <3>4, <3>5
  <2>3. CASE AssembleDirective
    <3>1. prog[n + 1].kind \in {"arch", "start"} /\ output' = output
      BY <1>2, <2>3 DEF AssembleDirective, AtStatement
    <3>2. Places(prog, start, arch, output, n + 1, f)
      BY <1>4, <3>1, PlacesSkip
    <3> QED BY <3>1, <3>2
  <2> QED BY <2>1, <2>2, <2>3
<1>6. NoErrors(prog, arch, n + 1)
  <2>1. \A k \in 1 .. n + 1 : k \in 1 .. n \/ k = n + 1
    OBVIOUS
  <2>2. NoErrors(prog, arch, n)
    BY <1>3 DEF Assembled
  <2> QED BY <1>5, <2>1, <2>2 DEF NoErrors
<1>7. Assembled(prog, start, arch, output', n + 1)
  BY <1>3, <1>5, <1>6 DEF Assembled
<1>8. i' - 1 = n + 1 /\ i' <= Len(prog) + 1
  BY <1>1, <1>2, StateFacts
<1>9. ProgramSoFar'
  BY <1>1, <1>7, <1>8 DEF MeaningInv, ProgramSoFar
<1>10. ImageSoFar'
  BY <1>1 DEF MeaningInv, ImageSoFar
<1> QED BY <1>9, <1>10
-----------------------------------------------------------------------------
\* resolve_labels
LEMMA MeaningAddresses ==
    ASSUME MeaningInv, BeginAddresses \/ BeginResolve
    PROVE  ProgramSoFar' /\ ImageSoFar'
<1>1. /\ pc' \in {"addresses", "resolve"} /\ i' = 1
      /\ \/ pc = "assemble" /\ i > Len(prog)
         \/ pc = "addresses"
      /\ UNCHANGED <<prog, arch, start, output, outfile>>
  BY DEF BeginAddresses, BeginResolve
<1>2. Made(prog, start, arch, output)
  <2>1. CASE pc = "assemble"
    <3>1. i - 1 = Len(prog)
      BY <1>1, <2>1, StateFacts DEF MeaningInv, ProgramSoFar
    <3>2. Assembled(prog, start, arch, output, Len(prog))
      BY <2>1, <3>1 DEF MeaningInv, ProgramSoFar
    <3> QED BY <3>2 DEF Assembled, Made
  <2>2. CASE pc = "addresses"
    BY <2>2 DEF MeaningInv, ProgramSoFar
  <2> QED BY <1>1, <2>1, <2>2
<1>3. ProgramSoFar'
  BY <1>1, <1>2 DEF MeaningInv, ProgramSoFar
<1>4. ImageSoFar'
  BY <1>1 DEF MeaningInv, ImageSoFar
<1> QED BY <1>3, <1>4

\* Addresses and resolved operands leave the list what it is.
LEMMA MadeSame ==
    ASSUME NEW p, NEW s, NEW a, NEW out, Made(p, s, a, out), NEW new, DOMAIN new = DOMAIN out,
           \A j \in DOMAIN out :
              /\ new[j].type = out[j].type /\ new[j].start = out[j].start
              /\ new[j].name = out[j].name /\ new[j].opcode = out[j].opcode
              /\ \A q \in 1 .. 3 :
                    /\ new[j].operands[q].type = out[j].operands[q].type
                    /\ new[j].operands[q].label = out[j].operands[q].label
                    /\ out[j].operands[q].type = "normal" =>
                          new[j].operands[q].operand = out[j].operands[q].operand
    PROVE  Made(p, s, a, new) /\ (HasStart(new) <=> HasStart(out))
<1>1. HasStart(new) <=> HasStart(out)
  BY DEF HasStart
<1>2. PICK f : Places(p, s, a, out, Len(p), f)
  BY DEF Made
<1>3. Places(p, s, a, new, Len(p), f)
  <2> DEFINE n == Len(p)
  <2>1. Places(p, s, a, out, n, f)
    BY <1>2
  <2> HIDE DEF n
  <2>2. Places(p, s, a, new, n, f)
    BY <2>1, PlacesSame
  <2> QED BY <2>2 DEF n
<1> QED BY <1>1, <1>3 DEF Made

LEMMA MeaningCount ==
    ASSUME MeaningInv, CountInsn \/ CountLabel
    PROVE  ProgramSoFar' /\ ImageSoFar'
<1>1. /\ pc = "addresses" /\ pc' = "addresses" /\ i <= Len(output)
      /\ output' = [output EXCEPT ![i].address = address]
      /\ UNCHANGED <<prog, arch, start, outfile>>
  BY DEF CountInsn, CountLabel, AtOutput
<1>2. /\ DOMAIN output = 1 .. Len(output) /\ Len(output) \in Nat /\ i \in DOMAIN output
      /\ \A k \in DOMAIN output : IsEntry(output[k])
  BY <1>1, StateFacts
<1>3. DOMAIN output' = DOMAIN output
  BY <1>1
<1>4. ASSUME NEW j \in DOMAIN output
      PROVE  /\ output'[j].type = output[j].type /\ output'[j].start = output[j].start
             /\ output'[j].name = output[j].name /\ output'[j].opcode = output[j].opcode
             /\ output'[j].operands = output[j].operands
  <2>1. CASE j = i
    <3>1. output'[j] = [output[i] EXCEPT !.address = address]
      BY <1>1, <1>2, <2>1
    <3>2. IsEntry(output[i])
      BY <1>2
    <3> QED BY <2>1, <3>1, <3>2 DEF IsEntry
  <2>2. CASE j # i
    <3>1. output'[j] = output[j]
      BY <1>1, <1>2, <2>2
    <3> QED BY <3>1
  <2> QED BY <2>1, <2>2
<1>5. Made(prog, start, arch, output)
  BY <1>1 DEF MeaningInv, ProgramSoFar
<1>6. Made(prog, start, arch, output')
  <2>1. \A j \in DOMAIN output :
              /\ output'[j].type = output[j].type /\ output'[j].start = output[j].start
              /\ output'[j].name = output[j].name /\ output'[j].opcode = output[j].opcode
              /\ \A q \in 1 .. 3 :
                    /\ output'[j].operands[q].type = output[j].operands[q].type
                    /\ output'[j].operands[q].label = output[j].operands[q].label
                    /\ output[j].operands[q].type = "normal" =>
                          output'[j].operands[q].operand = output[j].operands[q].operand
    BY <1>4
  <2> QED BY ONLY <1>3, <1>5, <2>1, MadeSame
<1>7. ProgramSoFar'
  BY <1>1, <1>6 DEF MeaningInv, ProgramSoFar
<1>8. ImageSoFar'
  BY <1>1 DEF MeaningInv, ImageSoFar
<1> QED BY <1>7, <1>8

\* The list while labels are resolved and code is written.
LEMMA ListIsCounted ==
    ASSUME MeaningInv, pc \in {"resolve", "emit", "done"}
    PROVE  /\ Made(prog, start, arch, output)
           /\ \E f : Counted(prog, start, arch, output, f)
<1>1. Made(prog, start, arch, output)
  BY DEF MeaningInv, ProgramSoFar
<1>2. AddressesChain(output, Len(output))
  BY DEF MeaningInv, IInv, AddressesConsistent
<1>3. \A k \in DOMAIN output : output[k].address \in Nat
  BY StateFacts DEF IsEntry
<1>4. PICK f : Places(prog, start, arch, output, Len(prog), f)
  BY <1>1 DEF Made
<1>5. Counted(prog, start, arch, output, f)
  BY <1>2, <1>3, <1>4, StateFacts DEF Counted
<1> QED BY <1>1, <1>5

\* "If the first %start-jump jumps to 001, we can optimize it away": it is not
\* needed exactly then.
LEMMA StartDecides ==
    ASSUME NEW p, NEW s, NEW a \in Arches, NEW out, NEW f, Counted(p, s, a, out, f),
           Meaning!StartOf(p) = s, s # NoName, NEW j \in DOMAIN out, out[j].start = TRUE,
           Unresolvable(out, j) = {}
    PROVE  /\ Meaning!IsDefined(p, 0, Meaning!StartRef(p))
           /\ NeedlessStart(out, j) <=> ~Meaning!NeedsStartJump(p)
<1> DEFINE o == out[j].operands[3]
           ref == Meaning!StartRef(p)
<1>1. /\ IsProgram(p) /\ IsSequence(out) /\ Places(p, s, a, out, Len(p), f)
  BY DEF Counted
<1>2. f[j] = 0 /\ out[j].type = "insn"
  BY <1>1 DEF Places, IsEntryOf
<1>3. IsOperandOf(a, o, MachineOf(p, s, a, 0, 3))
  <2>1. 3 \in 1 .. 3
    OBVIOUS
  <2> QED BY <1>2, <2>1, InsnPlace
<1>4. MachineOf(p, s, a, 0, 3) = LabelOper(s, "absolute")
  <2>1. 3 \in 1 .. 3
    OBVIOUS
  <2> QED BY <2>1, StartOperands
<1>5. o.type = "labelref" /\ o.label.name = ref.name /\ o.label.dir = ref.dir /\ o.label.dir \in Directions
  BY <1>3, <1>4 DEF IsOperandOf, LabelOper, Meaning!StartRef, Directions
<1>6. HasTarget(out, j, o.label)
  BY <1>5 DEF Unresolvable
<1>7. Meaning!IsDefined(p, 0, o.label)
  BY <1>1, <1>2, <1>5, <1>6, TargetIsDefined
<1> HIDE DEF ref
<1>8. /\ Meaning!IsDefined(p, 0, ref)
      /\ Meaning!Meant(p, 0, ref) = Meaning!Meant(p, 0, o.label)
  BY <1>5, <1>7, SameReference
<1>9. LabelAddress(out, j, o.label) = Meaning!InsnsBefore(p, Meaning!Meant(p, f[j], o.label)) +
                                      IF HasStart(out) THEN 1 ELSE 0
  BY <1>5, <1>6, ReferenceAddress
<1>10. LabelAddress(out, j, o.label) = Meaning!InsnsBefore(p, Meaning!Meant(p, 0, ref)) + 1
  BY <1>2, <1>8, <1>9 DEF HasStart
<1>11. Meaning!InsnsBefore(p, Meaning!Meant(p, 0, ref)) \in Nat
  BY <1>1, BeforeFacts
<1>12. NeedlessStart(out, j) <=> Meaning!InsnsBefore(p, Meaning!Meant(p, 0, ref)) = 0
  BY <1>10, <1>11 DEF NeedlessStart
<1> QED BY <1>8, <1>12 DEF Meaning!NeedsStartJump, ref

LEMMA MeaningResolve ==
    ASSUME MeaningInv, ResolveInsn \/ ResolveLabel
    PROVE  ProgramSoFar' /\ ImageSoFar'
<1>1. /\ pc = "resolve" /\ pc' = "resolve" /\ i <= Len(output) /\ i' = i + 1
      /\ UNCHANGED <<prog, arch, start, outfile>>
  BY DEF ResolveInsn, ResolveLabel, AtOutput
<1>2. /\ DOMAIN output = 1 .. Len(output) /\ Len(output) \in Nat /\ i \in DOMAIN output /\ i \in Nat \ {0}
      /\ \A k \in DOMAIN output : IsEntry(output[k])
  BY <1>1, StateFacts
<1>3. Made(prog, start, arch, output) /\ \E f : Counted(prog, start, arch, output, f)
  BY <1>1, ListIsCounted
<1>4. Made(prog, start, arch, output') /\ (HasStart(output') <=> HasStart(output))
  <2>1. CASE ResolveLabel
    BY <1>3, <2>1 DEF ResolveLabel
  <2>2. CASE ResolveInsn
    <3> DEFINE opers == [n \in 1 .. 3 |-> ResolvedOperand(arch, output, i, n)]
    <3>1. output' = [output EXCEPT ![i].operands = opers]
      BY <2>2 DEF ResolveInsn
    <3>2. ASSUME NEW q \in 1 .. 3
          PROVE  /\ opers[q].type = output[i].operands[q].type
                 /\ opers[q].label = output[i].operands[q].label
                 /\ output[i].operands[q].type = "normal" =>
                      opers[q].operand = output[i].operands[q].operand
      <4>1. opers[q] = ResolvedOperand(arch, output, i, q)
        OBVIOUS
      <4> HIDE DEF opers
      <4>2. CASE output[i].operands[q].type = "labelref"
        <5>1. ResolvedOperand(arch, output, i, q).type = "labelref"
          BY <4>2 DEF ResolvedOperand
        <5>2. ResolvedOperand(arch, output, i, q).label = output[i].operands[q].label
          BY <4>2 DEF ResolvedOperand
        <5> QED BY <4>1, <4>2, <5>1, <5>2
      <4>3. CASE output[i].operands[q].type # "labelref"
        <5>1. ResolvedOperand(arch, output, i, q) = output[i].operands[q]
          BY <4>3 DEF ResolvedOperand
        <5> QED BY <4>1, <5>1
      <4> QED BY <4>2, <4>3
    <3> HIDE DEF opers
    <3>3. DOMAIN output' = DOMAIN output
      BY <3>1
    <3>4. ASSUME NEW j \in DOMAIN output
          PROVE  /\ output'[j].type = output[j].type /\ output'[j].start = output[j].start
                 /\ output'[j].name = output[j].name /\ output'[j].opcode = output[j].opcode
                 /\ output'[j].operands = IF j = i THEN opers ELSE output[j].operands
      <4>1. CASE j = i
        <5>1. output'[j] = [output[i] EXCEPT !.operands = opers]
          BY <1>2, <3>1, <4>1
        <5>2. IsEntry(output[i])
          BY <1>2
        <5> QED BY <4>1, <5>1, <5>2 DEF IsEntry
      <4>2. CASE j # i
        <5>1. output'[j] = output[j]
          BY <1>2, <3>1, <4>2
        <5> QED BY <4>2, <5>1
      <4> QED BY <4>1, <4>2
    <3>5. \A j \in DOMAIN output :
              /\ output'[j].type = output[j].type /\ output'[j].start = output[j].start
              /\ output'[j].name = output[j].name /\ output'[j].opcode = output[j].opcode
              /\ \A q \in 1 .. 3 :
                    /\ output'[j].operands[q].type = output[j].operands[q].type
                    /\ output'[j].operands[q].label = output[j].operands[q].label
                    /\ output[j].operands[q].type = "normal" =>
                          output'[j].operands[q].operand = output[j].operands[q].operand
      BY <3>2, <3>4
    <3> QED BY ONLY <1>3, <3>3, <3>5, MadeSame
  <2> QED BY <2>1, <2>2
<1>5. HasStart(output') => Meaning!NeedsStartJump(prog)
  <2> SUFFICES ASSUME HasStart(output) PROVE Meaning!NeedsStartJump(prog)
    BY <1>4
  <2>1. CASE i > 1
    BY <1>1, <2>1 DEF MeaningInv, ProgramSoFar
  <2>2. CASE i = 1
    <3>1. output[1].start = TRUE
      <4>1. PICK j \in DOMAIN output : output[j].start
        BY DEF HasStart
      <4>2. j = 1 /\ IsEntry(output[j])
        BY <1>2, <4>1, StateFacts DEF StartFirst
      <4> QED BY <4>1, <4>2 DEF IsEntry
    <3>2. PICK f : Counted(prog, start, arch, output, f)
      BY <1>3
    <3>3. output[1].type = "insn" /\ 1 \in DOMAIN output
      <4>1. 1 \in DOMAIN output
        BY <1>2, <2>2
      <4> QED BY <3>1, <3>2, <4>1 DEF Counted, Places, IsEntryOf
    <3>4. Unresolvable(output, 1) = {} /\ ~NeedlessStart(output, 1)
      BY <2>2, <3>3 DEF ResolveInsn, ResolveLabel, AtOutput
    <3>5. /\ arch \in Arches /\ arch # 0 /\ Directives(prog, arch, start, Len(prog)) /\ start # NoName
      BY <1>3 DEF Made, Arches
    <3>6. Meaning!StartOf(prog) = start
      BY <3>5, StateFacts, AllDirectives
    <3> QED BY <3>1, <3>2, <3>3, <3>4, <3>5, <3>6, StartDecides
  <2> QED BY <1>2, <2>1, <2>2
<1>6. ProgramSoFar'
  BY <1>1, <1>4, <1>5 DEF MeaningInv, ProgramSoFar
<1>7. ImageSoFar'
  BY <1>1 DEF MeaningInv, ImageSoFar
<1> QED BY <1>6, <1>7

LEMMA MeaningRemove ==
    ASSUME MeaningInv, RemoveStart
    PROVE  ProgramSoFar' /\ ImageSoFar'
<1>1. /\ pc = "resolve" /\ pc' = "addresses" /\ i <= Len(output)
      /\ Unresolvable(output, i) = {} /\ NeedlessStart(output, i)
      /\ output' = RemoveAt(output, i)
      /\ UNCHANGED <<prog, arch, start, outfile>>
  BY DEF RemoveStart, AtOutput
<1>2. /\ DOMAIN output = 1 .. Len(output) /\ Len(output) \in Nat /\ i \in DOMAIN output
      /\ \A k \in DOMAIN output : IsEntry(output[k])
  BY <1>1, StateFacts
<1>3. output[i].start = TRUE /\ i = 1
  <2>1. output[i].start /\ IsEntry(output[i])
    BY <1>1, <1>2 DEF NeedlessStart
  <2> QED BY <1>2, <2>1, StateFacts DEF StartFirst, IsEntry
<1>4. Made(prog, start, arch, output) /\ \E f : Counted(prog, start, arch, output, f)
  BY <1>1, ListIsCounted
<1>5. PICK f : Counted(prog, start, arch, output, f)
  BY <1>4
<1>6. /\ arch \in Arches /\ arch # 0 /\ Directives(prog, arch, start, Len(prog)) /\ start # NoName
      /\ NoErrors(prog, arch, Len(prog))
  <2>1. HasStart(output)
    BY <1>2, <1>3 DEF HasStart
  <2> QED BY <1>4, <2>1 DEF Made, Arches
<1>7. Meaning!StartOf(prog) = start
  BY <1>6, StateFacts, AllDirectives
<1>8. Meaning!IsDefined(prog, 0, Meaning!StartRef(prog)) /\ ~Meaning!NeedsStartJump(prog)
  BY <1>1, <1>2, <1>3, <1>5, <1>6, <1>7, StartDecides
<1>9. /\ \E g : Places(prog, start, arch, output', Len(prog), g)
      /\ ~HasStart(output')
  <2>1. Places(prog, start, arch, output, Len(prog), f) /\ Len(output) >= 1 /\ output[1].start
    BY <1>2, <1>3, <1>5 DEF Counted
  <2>2. IsSequence(output) /\ Len(prog) \in Nat
    BY StateFacts
  <2>3. /\ \E g : Places(prog, start, arch, RemoveAt(output, 1), Len(prog), g)
        /\ \A j \in DOMAIN RemoveAt(output, 1) : ~RemoveAt(output, 1)[j].start
    BY <2>1, <2>2, PlacesRemove
  <2> QED BY <1>1, <1>3, <2>3 DEF HasStart
<1>10. Made(prog, start, arch, output')
  BY <1>6, <1>8, <1>9 DEF Made
<1>11. ProgramSoFar'
  BY <1>1, <1>10 DEF MeaningInv, ProgramSoFar
<1>12. ImageSoFar'
  BY <1>1 DEF MeaningInv, ImageSoFar
<1> QED BY <1>11, <1>12
-----------------------------------------------------------------------------
\* emit_code
LEMMA MeaningOpen ==
    ASSUME MeaningInv, OpenOutput
    PROVE  ProgramSoFar' /\ ImageSoFar'
<1>1. /\ pc = "resolve" /\ pc' = "emit" /\ i > Len(output) /\ i' = 1
      /\ outfile' = [state |-> "open", header |-> 8 * InsnCount(output), words |-> <<>>]
      /\ UNCHANGED <<prog, arch, start, output>>
  BY DEF OpenOutput
<1>2. Len(output) \in Nat /\ DOMAIN output = 1 .. Len(output) /\ i \in Nat \ {0}
  BY StateFacts
<1>3. HasStart(output) => Meaning!NeedsStartJump(prog)
  <2>1. HasStart(output) => i > 1
    BY <1>1, <1>2 DEF HasStart
  <2> QED BY <1>1, <2>1 DEF MeaningInv, ProgramSoFar
<1>4. Made(prog, start, arch, output)
  BY <1>1 DEF MeaningInv, ProgramSoFar
<1>5. ProgramSoFar'
  BY <1>1, <1>3, <1>4 DEF MeaningInv, ProgramSoFar
<1>6. Emitted(arch, output, <<>>, 0)
  <2>1. IsSequence(<<>>) /\ Len(<<>>) = 0 /\ 0 \in Nat
    BY EmptyFacts
  <2>2. Rank(output, 0) = 0
    BY <2>1, RankNext
  <2> QED BY <2>1, <2>2 DEF Emitted
<1>7. /\ outfile'.state = "open" /\ outfile'.header = 8 * InsnCount(output') /\ outfile'.words = <<>>
      /\ i' - 1 = 0 /\ i' <= Len(output') + 1
  <2>1. InsnCount(output') = InsnCount(output)
    BY <1>1 DEF InsnCount
  <2> QED BY <1>1, <1>2, <2>1
<1>8. ImageSoFar'
  BY <1>1, <1>6, <1>7 DEF ImageSoFar
<1> QED BY <1>5, <1>8

LEMMA MeaningEmit ==
    ASSUME MeaningInv, EmitInsn \/ EmitLabel
    PROVE  ProgramSoFar' /\ ImageSoFar'
<1>1. /\ pc = "emit" /\ pc' = "emit" /\ i <= Len(output) /\ i' = i + 1
      /\ UNCHANGED <<prog, arch, start, output>>
  BY DEF EmitInsn, EmitLabel, AtOutput
<1>2. PICK n \in Nat : i = n + 1
  <2>1. i - 1 \in Nat /\ i = (i - 1) + 1
    BY StateFacts
  <2> QED BY <2>1
<1>3. /\ Len(output) \in Nat /\ DOMAIN output = 1 .. Len(output) /\ n + 1 \in DOMAIN output
      /\ i - 1 = n /\ i' - 1 = n + 1 /\ i' <= Len(output') + 1
  BY <1>1, <1>2, StateFacts
<1>4. /\ outfile.state \in {"old", "open"} /\ outfile.header = 8 * InsnCount(output)
      /\ Emitted(arch, output, outfile.words, n)
      /\ outfile = [state |-> outfile.state, header |-> outfile.header, words |-> outfile.words]
  BY <1>1, <1>3 DEF MeaningInv, ImageSoFar, IInv, TypeOK
<1>5. Rank(output, n) \in Nat /\
      Rank(output, n + 1) = Rank(output, n) + IF output[n + 1].type = "insn" THEN 1 ELSE 0
  BY RankNext
<1>6. \A u : u \in 1 .. n => u \in 1 .. n + 1
  OBVIOUS
<1>7. /\ outfile'.state = outfile.state /\ outfile'.header = outfile.header
      /\ Emitted(arch, output, outfile'.words, n + 1)
  <2>1. CASE EmitInsn
    <3> DEFINE code  == Code(arch, output[n + 1])
               words == outfile.words
    <3>1. output[n + 1].type = "insn" /\ outfile' = [outfile EXCEPT !.words = Append(words, code)]
      BY <1>2, <2>1 DEF EmitInsn, AtOutput
    <3> HIDE DEF code
    <3>2. outfile'.state = outfile.state /\ outfile'.header = outfile.header
          /\ outfile'.words = Append(words, code)
      BY <1>4, <3>1
    <3>3. IsSequence(words) /\ Len(words) = Rank(output, n)
      BY <1>4 DEF Emitted
    <3>4. output[n + 1].address = Len(words)
      <4>1. AddressesChain(output, Len(output))
        BY <1>1 DEF MeaningInv, IInv, AddressesConsistent
      <4>2. \A k \in 1 .. Len(output) : output[k].address \in Nat
        BY StateFacts DEF IsEntry
      <4>3. \A t \in 1 .. Len(output) : output[t].address = Rank(output, t - 1)
        BY <1>3, <4>1, <4>2, AddressIsRank
      <4>4. (n + 1) - 1 = n
        OBVIOUS
      <4> QED BY <1>3, <3>3, <4>3, <4>4
    <3>5. /\ IsSequence(Append(words, code))
          /\ Len(Append(words, code)) = Len(words) + 1
          /\ \A q \in 1 .. Len(words) : Append(words, code)[q] = words[q]
          /\ Append(words, code)[Len(words) + 1] = code
          /\ Len(words) \in Nat
      BY <3>3, AppendFacts, SequenceFacts
    <3>6. Len(Append(words, code)) = Rank(output, n + 1)
      BY <1>5, <3>1, <3>3, <3>5
    <3>7. ASSUME NEW q \in 1 .. Len(Append(words, code))
          PROVE  \E u \in 1 .. n + 1 : /\ output[u].type = "insn" /\ output[u].address = q - 1
                                       /\ Append(words, code)[q] = Code(arch, output[u])
      <4>1. CASE q \in 1 .. Len(words)
        <5>1. PICK u \in 1 .. n : /\ output[u].type = "insn" /\ output[u].address = q - 1
                                  /\ words[q] = Code(arch, output[u])
          BY <1>4, <4>1 DEF Emitted
        <5> QED BY <1>6, <3>5, <4>1, <5>1
      <4>2. CASE q = Len(words) + 1
        <5>1. n + 1 \in 1 .. n + 1 /\ output[n + 1].address = q - 1
          BY <3>4, <3>5, <4>2
        <5> QED BY <3>1, <3>5, <4>2, <5>1 DEF code
      <4> QED BY <3>5, <4>1, <4>2
    <3> QED BY <3>2, <3>5, <3>6, <3>7 DEF Emitted
  <2>2. CASE EmitLabel
    <3>1. output[n + 1].type = "label" /\ outfile' = outfile
      BY <1>2, <2>2 DEF EmitLabel, AtOutput
    <3>2. Rank(output, n + 1) = Rank(output, n)
      BY <1>5, <3>1
    <3> QED BY <1>4, <1>6, <3>1, <3>2 DEF Emitted
  <2> QED BY <2>1, <2>2
<1>8. ProgramSoFar'
  BY <1>1 DEF MeaningInv, ProgramSoFar
<1>9. ImageSoFar'
  <2>1. InsnCount(output') = InsnCount(output)
    BY <1>1 DEF InsnCount
  <2>2. Emitted(arch', output', outfile'.words, i' - 1)
    BY <1>1, <1>3, <1>7
  <2> QED BY <1>1, <1>3, <1>4, <1>7, <2>1, <2>2 DEF ImageSoFar
<1> QED BY <1>8, <1>9

\* The end of the program.
LEMMA MeaningClose ==
    ASSUME MeaningInv, CloseOutput \/ CloseLosesData
    PROVE  ProgramSoFar' /\ ImageSoFar'
<1>1. /\ pc = "emit" /\ pc' = "done" /\ i > Len(output)
      /\ \E st \in {"closed", "truncated"} : outfile' = [outfile EXCEPT !.state = st]
      /\ UNCHANGED <<prog, arch, start, output>>
  BY DEF CloseOutput, CloseLosesData
<1>2. i <= Len(output) + 1 /\ i - 1 = Len(output)
  BY <1>1, StateFacts DEF MeaningInv, ImageSoFar
<1>3. outfile = [state |-> outfile.state, header |-> outfile.header, words |-> outfile.words]
  BY DEF MeaningInv, IInv, TypeOK
<1>4. /\ outfile'.state \in {"closed", "truncated"}
      /\ outfile'.header = outfile.header /\ outfile'.words = outfile.words
  <2>1. PICK st \in {"closed", "truncated"} : outfile' = [outfile EXCEPT !.state = st]
    BY <1>1
  <2> QED BY <1>3, <2>1
<1>5. outfile.header = 8 * InsnCount(output) /\ Emitted(arch, output, outfile.words, Len(output))
  BY <1>1, <1>2 DEF MeaningInv, ImageSoFar
<1>6. ProgramSoFar'
  BY <1>1 DEF MeaningInv, ProgramSoFar
<1>7. ImageSoFar'
  <2>1. InsnCount(output') = InsnCount(output)
    BY <1>1 DEF InsnCount
  <2>2. Emitted(arch', output', outfile'.words, Len(output'))
    BY <1>1, <1>4, <1>5
  <2> QED BY <1>1, <1>4, <1>5, <2>1, <2>2 DEF ImageSoFar
<1> QED BY <1>6, <1>7

LEMMA MeaningErrors ==
    ASSUME MeaningInv,
           \/ DirectiveError \/ AssembleError \/ ResolveError \/ OpenFails \/ WriteFails
           \/ UNCHANGED vars
    PROVE  ProgramSoFar' /\ ImageSoFar'
<1>1. CASE UNCHANGED vars
  BY <1>1 DEF vars, MeaningInv, ProgramSoFar, ImageSoFar, InsnCount
<1>2. CASE ~UNCHANGED vars
  <2>1. /\ pc # "done" /\ pc' \in {"error", "ioerror"} /\ prog' = prog
        /\ outfile' = outfile \/ outfile'.state = "open"
    BY <1>2 DEF DirectiveError, AssembleError, ResolveError, OpenFails, WriteFails, AsmError, AtStatement,
                AtOutput
  <2> QED BY <2>1 DEF MeaningInv, ProgramSoFar, ImageSoFar
<1> QED BY <1>1, <1>2

LEMMA MeaningStep == MeaningInv /\ [Next]_vars => MeaningInv'
<1> SUFFICES ASSUME MeaningInv, [Next]_vars PROVE MeaningInv'
  OBVIOUS
<1>1. IInv'
  BY StepInv DEF MeaningInv
<1>2. ProgramSoFar' /\ ImageSoFar'
  BY MeaningDirectives, MeaningBegin, MeaningAssemble, MeaningAddresses, MeaningCount, MeaningResolve,
     MeaningRemove, MeaningOpen, MeaningEmit, MeaningClose, MeaningErrors DEF Next
<1> QED BY <1>1, <1>2 DEF MeaningInv
-----------------------------------------------------------------------------
\* Which programs are rejected.
LEMMA NotRejected ==
    ASSUME NEW p, NEW s, NEW a, NEW out, Made(p, s, a, out), NEW f, Counted(p, s, a, out, f),
           \A k \in DOMAIN out : ResolvedRight(a, out, k)
    PROVE  ~Meaning!Rejected(p)
<1>1. /\ a \in Arches /\ a # 0 /\ IsProgram(p) /\ IsSequence(out) /\ Places(p, s, a, out, Len(p), f)
      /\ NoErrors(p, a, Len(p)) /\ Directives(p, a, s, Len(p)) /\ DOMAIN p = 1 .. Len(p)
  BY DEF Made, Counted, Arches, IsProgram
<1>2. /\ Meaning!ArchOf(p) = a /\ Meaning!StartOf(p) = s
      /\ Cardinality(Meaning!Positions(p, "arch")) = 1
      /\ ~(Cardinality(Meaning!Positions(p, "start")) > 1)
  BY <1>1, AllDirectives
<1>3. ASSUME NEW u \in DOMAIN out, out[u].type = "insn", NEW n \in 1 .. 3,
             MachineOf(p, s, a, f[u], n).t = "label"
      PROVE  Meaning!IsDefined(p, f[u], MachineOf(p, s, a, f[u], n))
  <2> DEFINE m == MachineOf(p, s, a, f[u], n)
             o == out[u].operands[n]
  <2>1. /\ f[u] = 0 \/ (f[u] \in DOMAIN p /\ p[f[u]].kind = "insn")
        /\ IsOperandOf(a, o, m)
    BY <1>3, InsnPlace
  <2>2. m.dir \in Directions
    BY <1>1, <1>3, <2>1, OperandReference
  <2> HIDE DEF m
  <2>3. o.type = "labelref" /\ o.label.name = m.name /\ o.label.dir = m.dir
    BY <1>3, <2>1 DEF IsOperandOf, m
  <2>4. HasTarget(out, u, o.label)
    BY <2>3 DEF ResolvedRight
  <2>5. Meaning!IsDefined(p, f[u], o.label)
    BY <1>1, <2>2, <2>3, <2>4, TargetIsDefined
  <2>6. Meaning!IsDefined(p, f[u], m)
    BY <2>3, <2>5, SameReference
  <2> QED BY <2>6 DEF m
<1>4. s # NoName => Meaning!IsDefined(p, 0, Meaning!StartRef(p))
  <2>1. CASE HasStart(out)
    <3>1. PICK u \in DOMAIN out : out[u].start
      BY <2>1 DEF HasStart
    <3>2. f[u] = 0 /\ out[u].type = "insn"
      BY <1>1, <3>1 DEF Places, IsEntryOf
    <3>3. 3 \in 1 .. 3 /\ LabelOper(s, "absolute").t = "label"
      BY DEF LabelOper
    <3>4. MachineOf(p, s, a, 0, 3) = LabelOper(s, "absolute")
      BY <3>3, StartOperands
    <3>5. Meaning!IsDefined(p, 0, LabelOper(s, "absolute"))
      BY <1>3, <3>2, <3>3, <3>4
    <3>6. LabelOper(s, "absolute").name = Meaning!StartRef(p).name /\
          LabelOper(s, "absolute").dir = Meaning!StartRef(p).dir
      BY <1>2 DEF LabelOper, Meaning!StartRef
    <3> QED BY <3>5, <3>6, SameReference
  <2>2. CASE ~HasStart(out)
    BY <2>2 DEF Made
  <2> QED BY <2>1, <2>2
<1>5. ASSUME NEW k \in Meaning!Positions(p, "insn")
      PROVE  /\ ~InsnError(a, p[k].insn)
             /\ \A n \in 1 .. 3 : MachineOperands(Emulated(a, p[k].insn))[n].t = "label" =>
                   Meaning!IsDefined(p, k, MachineOperands(Emulated(a, p[k].insn))[n])
  <2>1. k \in 1 .. Len(p) /\ p[k].kind = "insn" /\ k # 0
    BY <1>1, PositionFacts
  <2>2. PICK u \in DOMAIN out : f[u] = k
    BY <1>1, <2>1 DEF Places
  <2>3. out[u].type = "insn"
    BY <1>1, <2>1, <2>2 DEF Places, IsEntryOf
  <2>4. \A n : MachineOf(p, s, a, f[u], n) = MachineOperands(Emulated(a, p[k].insn))[n]
    BY <2>1, <2>2 DEF MachineOf, InsnOf
  <2>5. ~InsnError(a, p[k].insn)
    BY <1>1, <2>1 DEF NoErrors
  <2> QED BY <1>3, <2>2, <2>3, <2>4, <2>5
<1> DEFINE opers(k) == MachineOperands(Emulated(a, p[k].insn))
<1>6. Meaning!Rejected(p) <=>
        \/ Cardinality(Meaning!Positions(p, "arch")) # 1
        \/ Cardinality(Meaning!Positions(p, "start")) > 1
        \/ a \notin Arches
        \/ s # NoName /\ ~Meaning!IsDefined(p, 0, Meaning!StartRef(p))
        \/ \E k \in Meaning!Positions(p, "insn") :
              \/ InsnError(a, p[k].insn)
              \/ \E n \in 1 .. 3 : opers(k)[n].t = "label" /\ ~Meaning!IsDefined(p, k, opers(k)[n])
  BY <1>2, SameOperators DEF Meaning!Rejected
<1> QED BY <1>1, <1>2, <1>4, <1>5, <1>6

LEMMA UnresolvableRejects ==
    ASSUME NEW p, NEW s, NEW a, NEW out, Made(p, s, a, out), NEW f, Counted(p, s, a, out, f),
           NEW u \in DOMAIN out, out[u].type = "insn", Unresolvable(out, u) # {}
    PROVE  Meaning!Rejected(p)
<1>1. /\ a \in Arches /\ a # 0 /\ IsProgram(p) /\ IsSequence(out) /\ Places(p, s, a, out, Len(p), f)
      /\ Directives(p, a, s, Len(p)) /\ DOMAIN p = 1 .. Len(p)
  BY DEF Made, Counted, Arches, IsProgram
<1>2. Meaning!ArchOf(p) = a /\ Meaning!StartOf(p) = s
  BY <1>1, AllDirectives
<1>3. PICK n \in 1 .. 3 : /\ out[u].operands[n].type = "labelref"
                          /\ ~HasTarget(out, u, out[u].operands[n].label)
  BY DEF Unresolvable
<1> DEFINE m == MachineOf(p, s, a, f[u], n)
           o == out[u].operands[n]
<1>4. /\ f[u] = 0 \/ (f[u] \in DOMAIN p /\ p[f[u]].kind = "insn")
      /\ IsOperandOf(a, o, m)
  BY InsnPlace
<1>5. m.t = "label" /\ o.label.name = m.name /\ o.label.dir = m.dir
  <2> HIDE DEF m
  <2> QED BY <1>3, <1>4 DEF IsOperandOf
<1>6. m.dir \in Directions
  BY <1>1, <1>4, <1>5, OperandReference
<1>7. ~Meaning!IsDefined(p, f[u], m)
  <2> HIDE DEF m
  <2>1. ~Meaning!IsDefined(p, f[u], o.label)
    BY <1>1, <1>3, <1>5, <1>6, TargetIsDefined
  <2> QED BY <1>5, <2>1, SameReference
<1>8. CASE f[u] = 0
  <2>1. n = 3 /\ m = LabelOper(s, "absolute")
    BY <1>5, <1>8, StartOperands
  <2>2. LabelOper(s, "absolute").name = Meaning!StartRef(p).name /\
        LabelOper(s, "absolute").dir = Meaning!StartRef(p).dir
    BY <1>2 DEF LabelOper, Meaning!StartRef
  <2> HIDE DEF m
  <2>3. ~Meaning!IsDefined(p, 0, Meaning!StartRef(p))
    BY <1>7, <1>8, <2>1, <2>2, SameReference
  <2>4. HasStart(out)
    BY <1>1, <1>8 DEF HasStart, Places, IsEntryOf
  <2>5. s # NoName
    BY <2>4 DEF Made
  <2> QED BY <1>2, <2>3, <2>5, ReasonsToReject
<1>9. CASE f[u] # 0
  <2>1. f[u] \in Meaning!Positions(p, "insn")
    BY <1>4, <1>9 DEF Meaning!Positions
  <2>2. m = MachineOperands(Emulated(Meaning!ArchOf(p), p[f[u]].insn))[n]
    BY <1>2, <1>9 DEF MachineOf, InsnOf
  <2> HIDE DEF m
  <2> QED BY <1>5, <1>7, <2>1, <2>2, ReasonsToReject
<1> QED BY <1>8, <1>9
-----------------------------------------------------------------------------
\* The refinement: every step of the program is a step of its meaning or none.
BarImage == IF Status = "done" /\ outfile.header = 8 * Len(outfile.words) THEN outfile.words ELSE <<>>

LEMMA Running ==
    ASSUME MeaningInv, pc \notin {"error", "ioerror", "done"}
    PROVE  Status = "running" /\ BarImage = <<>>
BY DEF MeaningInv, ImageSoFar, Status, BarImage

LEMMA RejectStep ==
    ASSUME MeaningInv, DirectiveError \/ AssembleError \/ ResolveError
    PROVE  Meaning!Reject
<1>1. /\ pc \in {"directives", "assemble", "resolve"} /\ AsmError /\ pc' = "error" /\ prog' = prog
  BY DEF DirectiveError, AssembleError, ResolveError, AsmError, AtStatement, AtOutput
<1>2. Status = "running" /\ BarImage = <<>>
  BY <1>1, Running
<1>3. Status' = "error" /\ BarImage' = <<>>
  <2>1. outfile'.state # "truncated"
    BY <1>1 DEF AsmError, MeaningInv, ImageSoFar
  <2> QED BY <1>1, <2>1 DEF Status, BarImage
<1>4. Meaning!Rejected(prog)
  <2>1. CASE DirectiveError
    <3>1. PICK n \in Nat : i = n + 1
      <4>1. i - 1 \in Nat /\ i = (i - 1) + 1
        BY StateFacts
      <4> QED BY <4>1
    <3>2. pc = "directives"
      BY <2>1 DEF DirectiveError, AtStatement
    <3>3. Directives(prog, arch, start, n) /\ i <= Len(prog) + 1 /\ IsProgram(prog) /\ Len(prog) \in Nat
      <4>1. i - 1 = n
        BY <3>1
      <4> QED BY <3>2, <4>1, StateFacts DEF MeaningInv, ProgramSoFar
    <3>4. \/ /\ n + 1 <= Len(prog) /\ prog[n + 1].kind = "arch"
             /\ arch # 0 \/ ArchFallback(prog[n + 1].arch) \notin Arches
          \/ n + 1 <= Len(prog) /\ prog[n + 1].kind = "start" /\ start # NoName
          \/ n + 1 > Len(prog) /\ n <= Len(prog) /\ arch = 0
      <4>1. n <= Len(prog)
        BY <3>1, <3>3
      <4> QED BY <2>1, <3>1, <4>1 DEF DirectiveError, AtStatement
    <3> QED BY <3>3, <3>4, BadDirective
  <2>2. CASE AssembleError
    <3>1. pc = "assemble" /\ i <= Len(prog) /\ prog[i].kind = "insn" /\ InsnError(arch, prog[i].insn)
      BY <2>2 DEF AssembleError, AtStatement
    <3>2. arch \in Arches /\ arch # 0 /\ Directives(prog, arch, start, Len(prog))
      BY <3>1 DEF MeaningInv, ProgramSoFar, Assembled, Arches
    <3>3. Meaning!ArchOf(prog) = arch
      BY <3>2, StateFacts, AllDirectives
    <3>4. i \in Meaning!Positions(prog, "insn")
      BY <3>1, StateFacts DEF Meaning!Positions
    <3> QED BY <3>1, <3>3, <3>4, ReasonsToReject
  <2>3. CASE ResolveError
    <3>1. pc = "resolve" /\ i \in DOMAIN output /\ output[i].type = "insn" /\ Unresolvable(output, i) # {}
      BY <2>3, StateFacts DEF ResolveError, AtOutput
    <3>2. PICK f : Counted(prog, start, arch, output, f)
      BY <3>1, ListIsCounted
    <3>3. Made(prog, start, arch, output)
      BY <3>1, ListIsCounted
    <3> QED BY <3>1, <3>2, <3>3, UnresolvableRejects
  <2> QED BY <2>1, <2>2, <2>3
<1> QED BY <1>1, <1>2, <1>3, <1>4 DEF Meaning!Reject, BarImage

\* Once the loop over the references has ended, the program has a meaning.
LEMMA Accepted ==
    ASSUME MeaningInv, (pc = "resolve" /\ i > Len(output)) \/ pc = "emit"
    PROVE  ~Meaning!Rejected(prog)
<1>1. Made(prog, start, arch, output) /\ \E f : Counted(prog, start, arch, output, f)
  BY ListIsCounted
<1>2. PICK f : Counted(prog, start, arch, output, f)
  BY <1>1
<1>3. \A k \in DOMAIN output : ResolvedRight(arch, output, k)
  <2>1. CASE pc = "emit"
    BY <2>1 DEF MeaningInv, IInv, ReferencesResolved
  <2>2. CASE pc = "resolve" /\ i > Len(output)
    <3>1. \A k \in DOMAIN output : k < i
      BY <2>2, StateFacts
    <3> QED BY <2>2, <3>1 DEF MeaningInv, IInv, ResolvedSoFar
  <2> QED BY <2>1, <2>2
<1> QED BY <1>1, <1>2, <1>3, NotRejected

LEMMA TroubleStep ==
    ASSUME MeaningInv, OpenFails \/ WriteFails \/ CloseLosesData
    PROVE  Meaning!FileTrouble
<1>1. /\ (pc = "resolve" /\ i > Len(output)) \/ pc = "emit"
      /\ prog' = prog
      /\ pc' = "ioerror" \/ (pc' = "done" /\ CloseLosesData)
  BY DEF OpenFails, WriteFails, CloseLosesData, AtOutput
<1>2. Status = "running" /\ BarImage = <<>>
  BY <1>1, Running
<1>3. Status' = "iotrouble" /\ BarImage' = <<>>
  <2>1. CASE pc' = "ioerror"
    BY <2>1 DEF Status, BarImage
  <2>2. CASE pc' = "done" /\ CloseLosesData
    <3>1. outfile'.state = "truncated"
      <4>1. outfile = [state |-> outfile.state, header |-> outfile.header, words |-> outfile.words]
        BY DEF MeaningInv, IInv, TypeOK
      <4> QED BY <2>2, <4>1 DEF CloseLosesData
    <3> QED BY <2>2, <3>1 DEF Status, BarImage
  <2> QED BY <1>1, <2>1, <2>2
<1>4. ~Meaning!Rejected(prog)
  BY <1>1, Accepted
<1> QED BY <1>1, <1>2, <1>3, <1>4 DEF Meaning!FileTrouble, BarImage

LEMMA TranslateStep ==
    ASSUME MeaningInv, CloseOutput
    PROVE  Meaning!Translate
<1>1. /\ pc = "emit" /\ pc' = "done" /\ i > Len(output) /\ prog' = prog
      /\ outfile' = [outfile EXCEPT !.state = "closed"]
  BY DEF CloseOutput
<1>2. Status = "running"
  BY <1>1, Running
<1>3. i - 1 = Len(output)
  BY <1>1, StateFacts DEF MeaningInv, ImageSoFar
<1>4. outfile.header = 8 * InsnCount(output) /\ Emitted(arch, output, outfile.words, Len(output))
  BY <1>1, <1>3 DEF MeaningInv, ImageSoFar
<1>5. outfile'.state = "closed" /\ outfile'.header = outfile.header /\ outfile'.words = outfile.words
  <2>1. outfile = [state |-> outfile.state, header |-> outfile.header, words |-> outfile.words]
    BY DEF MeaningInv, IInv, TypeOK
  <2> QED BY <1>1, <2>1
<1>6. InsnCount(output) = Len(outfile.words)
  <2>1. InsnCount(output) = Rank(output, Len(output))
    BY StateFacts DEF InsnCount, Rank, InsnsUpTo
  <2> QED BY <1>4, <2>1 DEF Emitted
<1>7. Status' = "done" /\ BarImage' = outfile.words
  BY <1>1, <1>4, <1>5, <1>6 DEF Status, BarImage
<1>8. outfile.words = Meaning!Image(prog)
  <2>1. Made(prog, start, arch, output) /\ \E f : Counted(prog, start, arch, output, f)
    BY <1>1, ListIsCounted
  <2>2. PICK f : Counted(prog, start, arch, output, f)
    BY <2>1
  <2>3. arch \in Arches /\ arch # 0 /\ Directives(prog, arch, start, Len(prog))
    BY <2>1 DEF Made, Arches
  <2>4. Meaning!ArchOf(prog) = arch /\ Meaning!StartOf(prog) = start
    BY <2>3, StateFacts, AllDirectives
  <2>5. HasStart(output) <=> Meaning!NeedsStartJump(prog)
    <3>1. HasStart(output) => Meaning!NeedsStartJump(prog)
      BY <1>1 DEF MeaningInv, ProgramSoFar
    <3>2. ~HasStart(output) => ~Meaning!NeedsStartJump(prog)
      <4>1. CASE start = NoName
        BY <2>4, <4>1 DEF Meaning!NeedsStartJump
      <4>2. CASE start # NoName
        BY <2>1, <4>2 DEF Made
      <4> QED BY <4>1, <4>2
    <3> QED BY <3>1, <3>2
  <2>6. \A k \in DOMAIN output : ResolvedRight(arch, output, k)
    BY <1>1 DEF MeaningInv, IInv, ReferencesResolved
  <2> QED BY <1>4, <2>2, <2>3, <2>4, <2>5, <2>6, WordsAreImage
<1>9. ~Meaning!Rejected(prog)
  BY <1>1, Accepted
<1> QED BY <1>1, <1>2, <1>7, <1>8, <1>9 DEF Meaning!Translate, BarImage

LEMMA StutterStep ==
    ASSUME MeaningInv,
           \/ EvalArch \/ EvalStart \/ EvalOther \/ BeginAssembly \/ AssembleInsn \/ AssembleLabel
           \/ AssembleDirective \/ BeginAddresses \/ CountInsn \/ CountLabel \/ BeginResolve
           \/ ResolveInsn \/ RemoveStart \/ ResolveLabel \/ OpenOutput \/ EmitInsn \/ EmitLabel
           \/ UNCHANGED vars
    PROVE  UNCHANGED Meaning!vars
<1>1. CASE UNCHANGED vars
  BY <1>1 DEF vars, Meaning!vars, Status
<1>2. CASE ~UNCHANGED vars
  <2>1. /\ pc \notin {"error", "ioerror", "done"} /\ pc' \notin {"error", "ioerror", "done"}
        /\ prog' = prog /\ outfile'.state # "truncated"
    <3>1. outfile.state # "truncated" /\ pc \notin {"error", "ioerror", "done"} =>
             outfile'.state # "truncated"
      <4>1. outfile = [state |-> outfile.state, header |-> outfile.header, words |-> outfile.words]
        BY DEF MeaningInv, IInv, TypeOK
      <4> QED BY <1>2, <4>1
            DEF EvalArch, EvalStart, EvalOther, BeginAssembly, AssembleInsn, AssembleLabel,
                AssembleDirective, BeginAddresses, CountInsn, CountLabel, BeginResolve, ResolveInsn,
                RemoveStart, ResolveLabel, OpenOutput, EmitInsn, EmitLabel
    <3>2. pc \notin {"error", "ioerror", "done"} => outfile.state # "truncated"
      BY DEF MeaningInv, ImageSoFar
    <3>3. /\ pc \notin {"error", "ioerror", "done"} /\ pc' \notin {"error", "ioerror", "done"}
          /\ prog' = prog
      BY <1>2
         DEF EvalArch, EvalStart, EvalOther, BeginAssembly, AssembleInsn, AssembleLabel,
             AssembleDirective, BeginAddresses, CountInsn, CountLabel, BeginResolve, ResolveInsn,
             RemoveStart, ResolveLabel, OpenOutput, EmitInsn, EmitLabel, AtStatement, AtOutput
    <3> QED BY <3>1, <3>2, <3>3
  <2>2. Status = "running" /\ BarImage = <<>>
    BY <2>1, Running
  <2>3. Status' = "running" /\ BarImage' = <<>>
    BY <2>1 DEF Status, BarImage
  <2> QED BY <2>1, <2>2, <2>3 DEF Meaning!vars, BarImage
<1> QED BY <1>1, <1>2

\* Whatever passes the assembler makes over its lists (%start optimisation and
\* recalculation included), each of its steps is a step of the one-step
\* assembler of AsmMeaning or invisible there: for every program it rejects what
\* has no meaning and writes the image that a program means.
THEOREM MeaningIsImplemented == Spec => ImplementsMeaning
<1>1. Init => MeaningInv /\ Meaning!Init
  <2>1. Init => MeaningInv
    BY MeaningInit
  <2>2. Init => Meaning!Init
    BY DEF Init, Meaning!Init, Status, OldFile
  <2> QED BY <2>1, <2>2
<1>2. MeaningInv /\ [Next]_vars => MeaningInv'
  BY MeaningStep
<1>3. MeaningInv /\ [Next]_vars => [Meaning!Next]_(Meaning!vars)
  BY RejectStep, TroubleStep, TranslateStep, StutterStep DEF Next, Meaning!Next
<1> QED BY <1>1, <1>2, <1>3, PTL DEF Spec, ImplementsMeaning, Meaning!Spec
=============================================================================
