----------------------------- MODULE Assembler -----------------------------
(***************************************************************************)
(* The core of b43-asm (assemble() in assembler/main.c): directives are    *)
(* evaluated, the statements assembled into the list ctx->output, labels   *)
(* resolved on that list and the image written. One step is one iteration  *)
(* of one of the program's loops.                                          *)
(*                                                                         *)
(* A statement of the parser is one of                                     *)
(*   [kind |-> "arch",  arch]      %arch                                   *)
(*   [kind |-> "start", name]      %start (an absolute label reference)    *)
(*   [kind |-> "label", name]                                              *)
(*   [kind |-> "insn",  insn]      insn as in AsmInstructions              *)
(***************************************************************************)
EXTENDS AsmInstructions, SequencesExt

CONSTANTS
    Programs,  \* the statement lists the assembler may be given
    NoName     \* no label name

\* What the parser makes: lists; numbers behind %arch, identifiers behind
\* %start; label references of three directions.
ASSUME ProgramsAssumption ==
    \A p \in Programs :
        /\ Len(p) \in Nat /\ DOMAIN p = 1 .. Len(p)
        /\ \A k \in DOMAIN p :
              /\ p[k].kind \in {"arch", "start", "label", "insn"}
              /\ p[k].kind = "arch" => p[k].arch \in Nat
              /\ p[k].kind = "start" => p[k].name # NoName
              /\ p[k].kind = "insn" => \A a \in Arches, n \in 1 .. 3 :
                    LET o == MachineOperands(Emulated(a, p[k].insn))[n]
                    IN  o.t = "label" => o.dir \in {"absolute", "back", "forward"}

VARIABLES
    prog,        \* infile.sl
    pc,          \* the loop the program is in, or how it ended
    i,           \* the list position of the loop
    arch,        \* ctx->arch, 0 before %arch
    start,       \* ctx->start_label, NoName without %start
    output,      \* ctx->output
    address,     \* current_address of resolve_labels
    retWarnings, \* the statements warned about as "RET after jump"
    outfile      \* the microcode file

vars == <<prog, pc, i, arch, start, output, address, retWarnings, outfile>>

\* A machine operand: a word, or a label reference whose union member becomes
\* the operand when resolve_labels has run over it.
Normal(w)     == [type |-> "normal", operand |-> w, resolved |-> TRUE,
                  label |-> [name |-> NoName, dir |-> "absolute"]]
LabelRef(ref) == [type |-> "labelref", operand |-> {}, resolved |-> FALSE,
                  label |-> [name |-> ref.name, dir |-> ref.dir]]

OutOperand(a, o) ==
    IF o.t = "label" THEN LabelRef(o) ELSE Normal(OperandWord(a, o))

\* Seeded fault: every jump is taken for the %start jump.
FaultyOutInsn(a, insn) ==
    LET real == Emulated(a, insn)
    IN  [type |-> "insn", name |-> NoName, address |-> 0,
         start |-> real.op = "jext", jump |-> real.op \in SetsJumpFlag,
         opcode |-> Opcode(real),
         operands |-> [k \in 1 .. 3 |-> OutOperand(a, MachineOperands(real)[k])]]

\* do_assemble_insn's code_output, with the is_jump_insn flag of its caller.
OutInsn(a, insn) ==
    LET real == Emulated(a, insn)
    IN  [type |-> "insn", name |-> NoName, address |-> 0, start |-> FALSE,
         jump |-> real.op \in SetsJumpFlag,
         opcode |-> Opcode(real),
         operands |-> [k \in 1 .. 3 |-> OutOperand(a, MachineOperands(real)[k])]]

OutLabel(name) ==
    [type |-> "label", name |-> name, address |-> 0, start |-> FALSE,
     jump |-> FALSE, opcode |-> {}, operands |-> [k \in 1 .. 3 |-> Normal({})]]

LabelOper(name, dir) == [t |-> "label", name |-> name, dir |-> dir]

\* The jump to the %start label, put first.
StartJump(a, name) ==
    [OutInsn(a, Insn("jmp", <<LabelOper(name, "absolute")>>)) EXCEPT !.start = TRUE]
-----------------------------------------------------------------------------
OldFile == [state |-> "old", header |-> -1, words |-> <<>>]

Init ==
    /\ prog \in Programs
    /\ pc = "directives"
    /\ i = 1
    /\ arch = 0
    /\ start = NoName
    /\ output = <<>>
    /\ address = 0
    /\ retWarnings = {}
    /\ outfile = OldFile

\* The loop is at a statement of this kind (loops over infile.sl).
AtStatement(loop, kind) == pc = loop /\ i <= Len(prog) /\ prog[i].kind = kind

\* The loop is at an entry of this type (loops over ctx->output).
AtOutput(loop, type) == pc = loop /\ i <= Len(output) /\ output[i].type = type

\* asm_error: the message goes to stderr and the program exits.
AsmError ==
    /\ pc' = "error"
    /\ UNCHANGED <<prog, i, arch, start, output, address, retWarnings, outfile>>
-----------------------------------------------------------------------------
\* eval_directives

\* The firmware architecture of a core revision.
ArchFallback(rev) ==
    IF rev > 5 /\ rev < 15 THEN 5 ELSE IF rev > 15 THEN 15 ELSE rev

EvalArch ==
    /\ AtStatement("directives", "arch")
    /\ arch = 0
    /\ ArchFallback(prog[i].arch) \in Arches
    /\ arch' = ArchFallback(prog[i].arch)
    /\ i' = i + 1
    /\ UNCHANGED <<prog, pc, start, output, address, retWarnings, outfile>>

EvalStart ==
    /\ AtStatement("directives", "start")
    /\ start = NoName
    /\ start' = prog[i].name
    /\ i' = i + 1
    /\ UNCHANGED <<prog, pc, arch, output, address, retWarnings, outfile>>

EvalOther ==
    /\ AtStatement("directives", "label") \/ AtStatement("directives", "insn")
    /\ i' = i + 1
    /\ UNCHANGED <<prog, pc, arch, start, output, address, retWarnings, outfile>>

\* "Multiple %arch", "Architecture version unsupported", "Multiple %start"
\* and, after the last statement, "No %arch defined".
DirectiveError ==
    /\ \/ /\ AtStatement("directives", "arch")
          /\ arch # 0 \/ ArchFallback(prog[i].arch) \notin Arches
       \/ AtStatement("directives", "start") /\ start # NoName
       \/ pc = "directives" /\ i > Len(prog) /\ arch = 0
    /\ AsmError

\* The loop ends; assemble_instructions begins with the %start jump.
BeginAssembly ==
    /\ pc = "directives" /\ i > Len(prog) /\ arch # 0
    /\ pc' = "assemble"
    /\ i' = 1
    /\ output' = IF start = NoName THEN <<>> ELSE <<StartJump(arch, start)>>
    /\ UNCHANGED <<prog, arch, start, address, retWarnings, outfile>>
-----------------------------------------------------------------------------
\* assemble_instructions

\* Seeded fault: any earlier jump counts, not just the instruction before.
FaultyFollowsJump(out) == \E k \in DOMAIN out : out[k].type = "insn" /\ out[k].jump

\* do_assemble_ret: the last instruction in the list, labels skipped.
FollowsJump(out) ==
    \E k \in DOMAIN out :
        /\ out[k].type = "insn" /\ out[k].jump
        /\ \A l \in DOMAIN out : l > k => out[l].type = "label"

AssembleInsn ==
    /\ AtStatement("assemble", "insn")
    /\ ~InsnError(arch, prog[i].insn)
    /\ output' = Append(output, OutInsn(arch, prog[i].insn))
    /\ retWarnings' = IF prog[i].insn.op = "ret" /\ FollowsJump(output)
                      THEN retWarnings \cup {i} ELSE retWarnings
    /\ i' = i + 1
    /\ UNCHANGED <<prog, pc, arch, start, address, outfile>>

AssembleLabel ==
    /\ AtStatement("assemble", "label")
    /\ output' = Append(output, OutLabel(prog[i].name))
    /\ i' = i + 1
    /\ UNCHANGED <<prog, pc, arch, start, address, retWarnings, outfile>>

AssembleDirective ==
    /\ AtStatement("assemble", "arch") \/ AtStatement("assemble", "start")
    /\ i' = i + 1
    /\ UNCHANGED <<prog, pc, arch, start, output, address, retWarnings, outfile>>

AssembleError ==
    /\ AtStatement("assemble", "insn")
    /\ InsnError(arch, prog[i].insn)
    /\ AsmError

\* resolve_labels begins: recalculate_addresses.
BeginAddresses ==
    /\ pc = "assemble" /\ i > Len(prog)
    /\ pc' = "addresses"
    /\ i' = 1
    /\ address' = 0
    /\ UNCHANGED <<prog, arch, start, output, retWarnings, outfile>>
-----------------------------------------------------------------------------
\* resolve_labels, first loop: the address of every list entry.
CountInsn ==
    /\ AtOutput("addresses", "insn")
    /\ output' = [output EXCEPT ![i].address = address]
    /\ address' = address + 1
    /\ i' = i + 1
    /\ UNCHANGED <<prog, pc, arch, start, retWarnings, outfile>>

CountLabel ==
    /\ AtOutput("addresses", "label")
    /\ output' = [output EXCEPT ![i].address = address]
    /\ i' = i + 1
    /\ UNCHANGED <<prog, pc, arch, start, address, retWarnings, outfile>>

\* Seeded fault: the output is opened before the labels are resolved.
FaultyBeginResolve ==
    /\ pc = "addresses" /\ i > Len(output)
    /\ pc' = "resolve"
    /\ i' = 1
    /\ outfile' = [state |-> "open", header |-> -1, words |-> <<>>]
    /\ UNCHANGED <<prog, arch, start, output, address, retWarnings>>

BeginResolve ==
    /\ pc = "addresses" /\ i > Len(output)
    /\ pc' = "resolve"
    /\ i' = 1
    /\ UNCHANGED <<prog, arch, start, output, address, retWarnings, outfile>>

\* get_labeladdress: the list positions a reference made at position k may
\* mean. It is resolved when there is exactly one; none is "does not exist",
\* several (absolute references only) are "Ambiguous".
LabelsNamed(out, name) ==
    {j \in DOMAIN out : out[j].type = "label" /\ out[j].name = name}

\* Seeded fault: the first of several labels is taken without a complaint.
FaultyTargets(out, k, ref) ==
    LET same == LabelsNamed(out, ref.name)
    IN  CASE ref.dir = "absolute" -> {j \in same : \A l \in same : j <= l}
          [] ref.dir = "back" ->
               {j \in same : j < k /\ \A l \in same : l < k => l <= j}
          [] ref.dir = "forward" ->
               {j \in same : j > k /\ \A l \in same : l > k => j <= l}

Targets(out, k, ref) ==
    LET same == LabelsNamed(out, ref.name)
    IN  CASE ref.dir = "absolute" -> same
          [] ref.dir = "back" ->
               {j \in same : j < k /\ \A l \in same : l < k => l <= j}
          [] ref.dir = "forward" ->
               {j \in same : j > k /\ \A l \in same : l > k => j <= l}

HasTarget(out, k, ref) == \E j \in DOMAIN out : Targets(out, k, ref) = {j}

LabelAddress(out, k, ref) ==
    out[CHOOSE j \in DOMAIN out : Targets(out, k, ref) = {j}].address

\* The references of the instruction at position k that have no one target.
Unresolvable(out, k) ==
    {n \in 1 .. 3 : /\ out[k].operands[n].type = "labelref"
                    /\ ~HasTarget(out, k, out[k].operands[n].label)}

\* "If the first %start-jump jumps to 001, we can optimize it away."
NeedlessStart(out, k) ==
    /\ out[k].start
    /\ LabelAddress(out, k, out[k].operands[3].label) = 1

\* Seeded fault: only the jump target slot is resolved.
FaultyResolvedOperand(a, out, k, n) ==
    LET o == out[k].operands[n]
    IN  IF o.type = "labelref" /\ n = 3
        THEN [type |-> "labelref", resolved |-> TRUE, label |-> o.label,
              operand |-> LabelOperand(a, n, LabelAddress(out, k, o.label))]
        ELSE o

ResolvedOperand(a, out, k, n) ==
    LET o == out[k].operands[n]
    IN  IF o.type = "labelref"
        THEN [type |-> "labelref", resolved |-> TRUE, label |-> o.label,
              operand |-> LabelOperand(a, n, LabelAddress(out, k, o.label))]
        ELSE o

ResolveInsn ==
    /\ AtOutput("resolve", "insn")
    /\ Unresolvable(output, i) = {}
    /\ ~NeedlessStart(output, i)
    /\ output' = [output EXCEPT ![i].operands =
                     [n \in 1 .. 3 |-> ResolvedOperand(arch, output, i, n)]]
    /\ i' = i + 1
    /\ UNCHANGED <<prog, pc, arch, start, address, retWarnings, outfile>>

\* Seeded faults: the removal without the recalculation, without the list_del,
\* and with a list position before the first entry.
RemovedStart(list, loop, pos) ==
    /\ AtOutput("resolve", "insn")
    /\ Unresolvable(output, i) = {}
    /\ NeedlessStart(output, i)
    /\ output' = list
    /\ pc' = loop /\ i' = pos
    /\ address' = 0
    /\ UNCHANGED <<prog, arch, start, retWarnings, outfile>>

NoRecalculation == RemovedStart(RemoveAt(output, i), "resolve", 1)
NoListDel       == RemovedStart(output, "addresses", 1)
WrongPosition   == RemovedStart(RemoveAt(output, i), "addresses", 0)

\* list_del and goto recalculate_addresses.
RemoveStart ==
    /\ AtOutput("resolve", "insn")
    /\ Unresolvable(output, i) = {}
    /\ NeedlessStart(output, i)
    /\ output' = RemoveAt(output, i)
    /\ pc' = "addresses"
    /\ i' = 1
    /\ address' = 0
    /\ UNCHANGED <<prog, arch, start, retWarnings, outfile>>

ResolveLabel ==
    /\ AtOutput("resolve", "label")
    /\ i' = i + 1
    /\ UNCHANGED <<prog, pc, arch, start, output, address, retWarnings, outfile>>

ResolveError ==
    /\ AtOutput("resolve", "insn")
    /\ Unresolvable(output, i) # {}
    /\ AsmError
-----------------------------------------------------------------------------
\* emit_code. In the b43 format a header with the image's size precedes the
\* code words; every write may fail.
InsnCount(out) == Cardinality({k \in DOMAIN out : out[k].type = "insn"})

OpenOutput ==
    /\ pc = "resolve" /\ i > Len(output)
    /\ pc' = "emit"
    /\ i' = 1
    /\ outfile' = [state |-> "open", header |-> 8 * InsnCount(output), words |-> <<>>]
    /\ UNCHANGED <<prog, arch, start, output, address, retWarnings>>

Code(a, c) == CodeWord(a, c.opcode, [n \in 1 .. 3 |-> c.operands[n].operand])

EmitInsn ==
    /\ AtOutput("emit", "insn")
    /\ outfile' = [outfile EXCEPT !.words = Append(@, Code(arch, output[i]))]
    /\ i' = i + 1
    /\ UNCHANGED <<prog, pc, arch, start, output, address, retWarnings>>

EmitLabel ==
    /\ AtOutput("emit", "label")
    /\ i' = i + 1
    /\ UNCHANGED <<prog, pc, arch, start, output, address, retWarnings, outfile>>

CloseOutput ==
    /\ pc = "emit" /\ i > Len(output)
    /\ pc' = "done"
    /\ outfile' = [outfile EXCEPT !.state = "closed"]
    /\ UNCHANGED <<prog, i, arch, start, output, address, retWarnings>>

\* fclose's result is not looked at: when the data that stdio still buffers
\* cannot be written, the program goes on as if it had been.
CloseLosesData ==
    /\ pc = "emit" /\ i > Len(output)
    /\ pc' = "done"
    /\ outfile' = [outfile EXCEPT !.state = "truncated"]
    /\ UNCHANGED <<prog, i, arch, start, output, address, retWarnings>>

\* "Could not open microcode output file"; "Could not write microcode outfile"
\* for the header, with the old contents gone, and for a code word.
OpenFails ==
    /\ pc = "resolve" /\ i > Len(output)
    /\ pc' = "ioerror"
    /\ outfile' \in {outfile, [state |-> "open", header |-> -1, words |-> <<>>]}
    /\ UNCHANGED <<prog, i, arch, start, output, address, retWarnings>>

WriteFails ==
    /\ AtOutput("emit", "insn")
    /\ pc' = "ioerror"
    /\ UNCHANGED <<prog, i, arch, start, output, address, retWarnings, outfile>>

Ended == pc \in {"done", "error", "ioerror"}

Next ==
    \/ EvalArch \/ EvalStart \/ EvalOther \/ DirectiveError \/ BeginAssembly
    \/ AssembleInsn \/ AssembleLabel \/ AssembleDirective \/ AssembleError
    \/ BeginAddresses \/ CountInsn \/ CountLabel \/ BeginResolve
    \/ ResolveInsn \/ RemoveStart \/ ResolveLabel \/ ResolveError
    \/ OpenOutput \/ OpenFails \/ EmitInsn \/ EmitLabel \/ WriteFails
    \/ CloseOutput \/ CloseLosesData

Spec == Init /\ [][Next]_vars

\* The program is one thread that nothing waits for: it keeps running.
FairSpec == Spec /\ WF_vars(Next)
-----------------------------------------------------------------------------
\* Types.
IsOutOperand(o) ==
    /\ o = [type |-> o.type, operand |-> o.operand, resolved |-> o.resolved,
            label |-> o.label]
    /\ o.type \in {"normal", "labelref"}
    /\ o.resolved \in BOOLEAN

IsEntry(c) ==
    /\ c = [type |-> c.type, name |-> c.name, address |-> c.address,
            start |-> c.start, jump |-> c.jump, opcode |-> c.opcode,
            operands |-> c.operands]
    /\ c.type \in {"insn", "label"}
    /\ c.address \in Nat
    /\ c.start \in BOOLEAN /\ c.jump \in BOOLEAN
    /\ c.operands = [n \in 1 .. 3 |-> c.operands[n]]
    /\ \A n \in 1 .. 3 : IsOutOperand(c.operands[n])

TypeOK ==
    /\ pc \in {"directives", "assemble", "addresses", "resolve", "emit",
               "done", "error", "ioerror"}
    /\ i \in Nat \ {0}
    /\ arch \in {0} \cup Arches
    /\ address \in Nat
    /\ \A k \in DOMAIN output : IsEntry(output[k])
    /\ outfile = [state |-> outfile.state, header |-> outfile.header,
                  words |-> outfile.words]
    /\ outfile.state \in {"old", "open", "closed", "truncated"}
-----------------------------------------------------------------------------
\* Safety.

\* The address behind a list entry.
NextAddress(c) == IF c.type = "insn" THEN c.address + 1 ELSE c.address

AddressesChain(out, n) ==
    /\ n >= 1 => out[1].address = 0
    /\ \A k \in 1 .. n - 1 : out[k + 1].address = NextAddress(out[k])

\* While references are resolved and code is written, every list entry has
\* the address it gets by counting the instructions of the list as it is now,
\* whether or not the %start jump has been removed from it.
AddressesConsistent ==
    pc \in {"resolve", "emit", "done"} => AddressesChain(output, Len(output))

ResolvedRight(a, out, k) ==
    \A n \in 1 .. 3 :
        LET o == out[k].operands[n]
        IN  o.type = "labelref" =>
              /\ HasTarget(out, k, o.label)
              /\ o.operand = LabelOperand(a, n, LabelAddress(out, k, o.label))
              /\ o.resolved

\* Code is written only from operands that hold the address of the label they
\* refer to in the final list: no reference keeps an address from before the
\* %start jump was removed, and none is written unresolved.
ReferencesResolved ==
    pc \in {"emit", "done"} => \A k \in DOMAIN output : ResolvedRight(arch, output, k)

Unresolved(out, k) ==
    \A n \in 1 .. 3 :
        out[k].operands[n].type = "labelref" => ~out[k].operands[n].resolved

\* The address calculation restarts only while no operand has been resolved:
\* resolving overwrites the label pointer (one union), so a second pass over a
\* resolved reference would read an address as a pointer.
RestartBeforeResolving ==
    [][pc = "resolve" /\ pc' = "addresses" =>
          \A k \in DOMAIN output : Unresolved(output, k)]_vars

\* Every error of a program is found before the microcode file is opened, which
\* would empty it: a rejected program leaves an existing file as it was.
RejectedKeepsFile == pc = "error" => outfile = OldFile

\* Every run of the assembler ends; resolve_labels restarts at most once.
Terminates == <>Ended

\* The instruction statement before statement k, 0 if there is none.
InsnBefore(k) ==
    LET before == {l \in 1 .. k - 1 : prog[l].kind = "insn"}
    IN  IF before = {} THEN 0 ELSE CHOOSE l \in before : \A m \in before : m <= l

IsJump(insn) ==
    insn.op \in DOMAIN JumpOpcode \cup {"jmp", "jzx", "jnzx", "jext", "jnext"}

\* The jump that main.c:854 forgets to mark as one.
BehindJg(k) == InsnBefore(k) # 0 /\ prog[InsnBefore(k)].insn.op = "jg"

\* A RET is warned about exactly when the instruction before it, labels skipped,
\* is a jump, or when it comes first behind the %start jump (do_assemble_ret).
\* Nothing is said of a RET behind JG: is_jump_insn is to be set for every jump
\* (main.c:52), and the case of OP_JG does not set it.
RetWarningsJustified ==
    pc \in {"addresses", "resolve", "emit", "done"} =>
        \A k \in DOMAIN prog :
            (prog[k].kind = "insn" /\ prog[k].insn.op = "ret" /\ ~BehindJg(k)) =>
                (k \in retWarnings <=>
                    IF InsnBefore(k) = 0 THEN start # NoName
                    ELSE IsJump(prog[InsnBefore(k)].insn))

-----------------------------------------------------------------------------
\* The one-step meaning of a program (AsmMeaning) that this module implements.
Status == CASE pc = "done" /\ outfile.state = "closed" -> "done"
            [] pc = "error" -> "error"
            [] pc = "ioerror" \/ outfile.state = "truncated" -> "iotrouble"
            [] OTHER -> "running"

Meaning == INSTANCE AsmMeaning WITH
    status <- Status,
    image  <- IF Status = "done" /\ outfile.header = 8 * Len(outfile.words)
              THEN outfile.words ELSE <<>>

\* Whatever passes the assembler makes over its lists, it rejects exactly the
\* programs without a meaning and writes exactly the image a program means,
\* behind a header that counts its bytes.
ImplementsMeaning == Meaning!Spec
=============================================================================
