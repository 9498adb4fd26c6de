----------------------------- MODULE AsmMeaning -----------------------------
(***************************************************************************)
(* What b43-asm promises, without lists, cursors and passes: a program is  *)
(* either rejected or translated, in one step, into the image that its     *)
(* statements mean. The address of a statement is the number of machine    *)
(* instructions in front of it, the %start jump included if there is one.  *)
(***************************************************************************)
EXTENDS AsmInstructions

CONSTANTS Programs, NoName

VARIABLES prog, status, image

vars == <<prog, status, image>>

Positions(p, kind) == {k \in DOMAIN p : p[k].kind = kind}

\* The architecture and the start label of a program that has exactly one
\* %arch and at most one %start.
ArchOf(p) ==
    LET rev == p[CHOOSE k \in Positions(p, "arch") : TRUE].arch
    IN  CASE rev \in 5 .. 14 -> 5 [] rev >= 15 -> 15 [] OTHER -> rev

StartOf(p) == IF Positions(p, "start") = {} THEN NoName
              ELSE p[CHOOSE k \in Positions(p, "start") : TRUE].name

InsnsBefore(p, k) == Cardinality({l \in Positions(p, "insn") : l < k})

\* The statement a reference at position k means: the only label of that
\* name, the last one before k, or the first one after k.
LabelsOf(p, name) == {l \in Positions(p, "label") : p[l].name = name}

IsMeant(p, k, ref, l) ==
    LET same == LabelsOf(p, ref.name)
    IN  /\ l \in same
        /\ CASE ref.dir = "absolute" -> same = {l}
             [] ref.dir = "back"     -> l < k /\ same \cap (l + 1 .. k - 1) = {}
             [] ref.dir = "forward"  -> l > k /\ same \cap (k + 1 .. l - 1) = {}

Meant(p, k, ref) == CHOOSE l \in DOMAIN p : IsMeant(p, k, ref, l)
IsDefined(p, k, ref) == \E l \in DOMAIN p : IsMeant(p, k, ref, l)

StartRef(p) == [name |-> StartOf(p), dir |-> "absolute"]

\* A %start jump is needed when an instruction precedes the start label.
NeedsStartJump(p) ==
    StartOf(p) # NoName /\ InsnsBefore(p, Meant(p, 0, StartRef(p))) # 0

AddressOf(p, l) == InsnsBefore(p, l) + IF NeedsStartJump(p) THEN 1 ELSE 0

MeantOperands(p, k, insn) ==
    [n \in 1 .. 3 |->
        LET o == MachineOperands(insn)[n]
        IN  IF o.t = "label"
            THEN LabelOperand(ArchOf(p), n, AddressOf(p, Meant(p, k, o)))
            ELSE OperandWord(ArchOf(p), o)]

MeantCode(p, k, stmt) ==
    LET insn == Emulated(ArchOf(p), stmt)
    IN  CodeWord(ArchOf(p), Opcode(insn), MeantOperands(p, k, insn))

StartCode(p) ==
    MeantCode(p, 0, Insn("jmp", <<[t |-> "label", name |-> StartOf(p),
                                   dir |-> "absolute"]>>))

Rejected(p) ==
    \/ Cardinality(Positions(p, "arch")) # 1
    \/ Cardinality(Positions(p, "start")) > 1
    \/ ArchOf(p) \notin Arches
    \/ StartOf(p) # NoName /\ ~IsDefined(p, 0, StartRef(p))
    \/ \E k \in Positions(p, "insn") :
          \/ InsnError(ArchOf(p), p[k].insn)
          \/ LET opers == MachineOperands(Emulated(ArchOf(p), p[k].insn))
             IN  \E n \in 1 .. 3 :
                    opers[n].t = "label" /\ ~IsDefined(p, k, opers[n])

\* The instruction that ends up at address a of the image.
InsnAt(p, a) == CHOOSE k \in Positions(p, "insn") : AddressOf(p, k) = a

Image(p) ==
    LET first == IF NeedsStartJump(p) THEN 1 ELSE 0
    IN  [w \in 1 .. Cardinality(Positions(p, "insn")) + first |->
            IF w <= first THEN StartCode(p)
            ELSE MeantCode(p, InsnAt(p, w - 1), p[InsnAt(p, w - 1)].insn)]
-----------------------------------------------------------------------------
Init == prog \in Programs /\ status = "running" /\ image = <<>>

Reject ==
    /\ status = "running" /\ status' = "error"
    /\ Rejected(prog)
    /\ UNCHANGED <<prog, image>>

\* The image is complete when the file could be written.
Translate ==
    /\ status = "running" /\ status' = "done"
    /\ ~Rejected(prog)
    /\ image' = Image(prog)
    /\ UNCHANGED prog

FileTrouble ==
    /\ status = "running" /\ status' = "iotrouble"
    /\ ~Rejected(prog)
    /\ UNCHANGED <<prog, image>>

Next == Reject \/ Translate \/ FileTrouble

Spec == Init /\ [][Next]_vars
=============================================================================
