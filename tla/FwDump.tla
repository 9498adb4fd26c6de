------------------------------- MODULE FwDump -------------------------------
(***************************************************************************)
(* b43-fwdump and the hardware access of libb43: the microcode processor   *)
(* (PSM) is stopped, its registers are read one access after the other,    *)
(* and it is started again.  Several dumpers, the driver and the processor *)
(* share the device; nothing keeps a dumper from starting the processor    *)
(* while another one reads.  The device (MaskSet, the processor) and the   *)
(* driver are as the library uses and mentions them.                       *)
(***************************************************************************)
EXTENDS Integers, Sequences, FiniteSets, FiniteSetsExt

CONSTANTS
    Dumpers,
    WithShm,   \* those that dump the shared memory, too
    WithBinary,  \* those that dump instructions, too
    Texts,     \* of --binary: the address in each line, None in a label's line
    Pcs,       \* program counters
    Gprs, LinkRegs, OffsetRegs, ShmWords,  \* bounds: 64, 4, 7 and 1024 accesses
    MaxTime,   \* bound: changes of the processor's state
    MaxDriver, \* bound: changes by the driver
    None

ASSUME FwDumpAssumption ==
    /\ Gprs \in Nat /\ LinkRegs \in Nat /\ OffsetRegs \in Nat /\ ShmWords \in Nat
    /\ MaxTime \in Nat /\ MaxDriver \in Nat
    /\ Pcs \subseteq Nat /\ Pcs # {} /\ None \notin Pcs
    /\ \A t \in Texts : t \in Seq(Nat \cup {None})
    /\ None \notin Texts

VARIABLES
    macctl,    \* bits that are set
    driver,    \* bits the driver has set, and the number of its changes
    psm,       \* the processor: program counter and number of changes
    pc,        \* where each dumper is
    taken,     \* the times at which its registers were read
    dbg,       \* the program counter among them
    binary,    \* what --binary names, or None
    shown,     \* the lines that makeShortDump shows, or None
    disturbed  \* someone else has started the processor meanwhile

vars == <<macctl, driver, psm, pc, taken, dbg, binary, shown, disturbed>>

device == <<driver, psm>>

\* MACEN stands for all other bits, too.
Bits == {"RUN", "MACEN"}

Init ==
    /\ macctl \in SUBSET Bits
    /\ driver = [bits |-> macctl, changes |-> 0]
    /\ psm = [pc |-> Min(Pcs), changes |-> 0]
    /\ pc = [d \in Dumpers |-> "open"]
    /\ taken = [d \in Dumpers |-> <<>>]
    /\ dbg = [d \in Dumpers |-> None]
    /\ binary \in [Dumpers -> Texts \cup {None}]
    /\ \A d \in Dumpers : binary[d] # None <=> d \in WithBinary
    /\ shown = [d \in Dumpers |-> None]
    /\ disturbed = [d \in Dumpers |-> FALSE]

Dumping == {d \in Dumpers : pc[d] = "read"}

\* What starts the processor disturbs every other dumper that reads.
Disturb(who) ==
    disturbed' = [d \in Dumpers |->
        disturbed[d] \/ (d \in Dumping \ who /\ "RUN" \notin macctl /\ "RUN" \in macctl')]

\* The kernel's end of mmio32write.
MaskSet(mask, set) == macctl' = (macctl \cap mask) \cup set

\* The processor runs on; each time it does, all it holds may change.
PsmRuns ==
    /\ "RUN" \in macctl /\ psm.changes < MaxTime
    /\ \E next \in Pcs : psm' = [pc |-> next, changes |-> psm.changes + 1]
    /\ UNCHANGED <<macctl, driver, pc, taken, dbg, binary, shown, disturbed>>

\* The driver sets or clears a bit of its own register.
DriverWrites ==
    /\ driver.changes < MaxDriver
    /\ \E bit \in Bits :
          \/ /\ MaskSet(Bits, {bit})
             /\ driver' = [bits |-> driver.bits \cup {bit}, changes |-> driver.changes + 1]
          \/ /\ MaskSet(Bits \ {bit}, {})
             /\ driver' = [bits |-> driver.bits \ {bit}, changes |-> driver.changes + 1]
    /\ Disturb({})
    /\ UNCHANGED <<psm, pc, taken, dbg, binary, shown>>
-----------------------------------------------------------------------------
\* ucodeStop and ucodeStart.
UcodeStop(d) ==
    /\ pc[d] = "open"
    /\ MaskSet(Bits \ {"RUN"}, {})
    /\ pc' = [pc EXCEPT ![d] = "read"]
    /\ UNCHANGED <<device, taken, dbg, binary, shown, disturbed>>

\* getGprs, getLinkRegs, getOffsetRegs, shmSharedRead, getPsmDebug and
\* getPsmConditions: one access for each register.
Before(d)   == Gprs + LinkRegs + OffsetRegs + (IF d \in WithShm THEN ShmWords ELSE 0)
Accesses(d) == Before(d) + 2

ReadRegister(d) ==
    /\ pc[d] = "read" /\ Len(taken[d]) < Accesses(d)
    /\ taken' = [taken EXCEPT ![d] = Append(@, psm.changes)]
    /\ dbg' = IF Len(taken[d]) = Before(d) THEN [dbg EXCEPT ![d] = psm.pc] ELSE dbg
    /\ UNCHANGED <<macctl, device, pc, binary, shown, disturbed>>

\* An access that debugfs refuses, or the end of the program.
Broken(d) ==
    /\ pc[d] \in {"open", "read"}
    /\ pc' = [pc EXCEPT ![d] = "failed"]
    /\ UNCHANGED <<macctl, device, taken, dbg, binary, shown, disturbed>>

\* Seeded fault: mask and set are those of ucodeStop, the wrong way round.
FaultyUcodeStart(d) ==
    /\ pc[d] = "read" /\ Len(taken[d]) = Accesses(d)
    /\ MaskSet({"RUN"}, {})
    /\ Disturb({d})
    /\ pc' = [pc EXCEPT ![d] = "print"]
    /\ UNCHANGED <<device, taken, dbg, binary, shown>>

\* Seeded fault: started before the last two registers are read.
EarlyUcodeStart(d) ==
    /\ pc[d] = "read" /\ Len(taken[d]) >= Before(d)
    /\ MaskSet(Bits, {"RUN"})
    /\ Disturb({d})
    /\ pc' = [pc EXCEPT ![d] = IF Len(taken[d]) = Accesses(d) THEN "print" ELSE "read"]
    /\ UNCHANGED <<device, taken, dbg, binary, shown>>

UcodeStart(d) ==
    /\ pc[d] = "read" /\ Len(taken[d]) = Accesses(d)
    /\ MaskSet(Bits, {"RUN"})
    /\ Disturb({d})
    /\ pc' = [pc EXCEPT ![d] = "print"]
    /\ UNCHANGED <<device, taken, dbg, binary, shown>>
-----------------------------------------------------------------------------
\* makeShortDump: the numbers of the lines that are shown, counted from zero.
LineOf(text, address) == Min({n \in DOMAIN text : text[n] = address}) - 1

Pos(i) == IF i < 8 THEN 0 ELSE i - 8

\* Seeded fault: the end is taken for the last line of the window.
FaultyEndOf(text, i) == IF i + 7 < Len(text) - 1 THEN i + 7 ELSE Len(text) - 1

EndOf(text, i) == IF i + 8 < Len(text) - 1 THEN i + 8 ELSE Len(text) - 1

ShortDump(text, address) ==
    IF \A n \in DOMAIN text : text[n] # address THEN {}
    ELSE LET i == LineOf(text, address) IN Pos(i) .. EndOf(text, i) - 1

\* b43-dasm may fail, which nobody looks at.
PrintDump(d) ==
    /\ pc[d] = "print"
    /\ pc' = [pc EXCEPT ![d] = "done"]
    /\ shown' = [shown EXCEPT ![d] = IF binary[d] = None THEN None ELSE ShortDump(binary[d], dbg[d])]
    /\ UNCHANGED <<macctl, device, taken, dbg, binary, disturbed>>

PrintFails(d) ==
    /\ pc[d] = "print" /\ binary[d] # None
    /\ pc' = [pc EXCEPT ![d] = "done"]
    /\ UNCHANGED <<macctl, device, taken, dbg, binary, shown, disturbed>>

Dumper(d) ==
    \/ UcodeStop(d) \/ ReadRegister(d) \/ Broken(d) \/ UcodeStart(d)
    \/ PrintDump(d) \/ PrintFails(d)

Next == PsmRuns \/ DriverWrites \/ \E d \in Dumpers : Dumper(d)

Spec == Init /\ [][Next]_vars

\* A dumper is a process that waits for nobody.
FairSpec == Spec /\ \A d \in Dumpers : WF_vars(Dumper(d))
-----------------------------------------------------------------------------
\* All registers of a dump belong to one state of the processor, and the
\* program counter to it, too, unless another dumper or the driver has started
\* the processor in between.
SnapshotConsistent ==
    \A d \in Dumpers : ~disturbed[d] =>
        \A m, n \in DOMAIN taken[d] : taken[d][m] = taken[d][n]

\* The dumpers leave the device to the driver as they found it: whatever the
\* driver does meanwhile and however many dumpers there are, the bits that are
\* not theirs have the driver's values, and when all have ended the processor
\* runs if the driver wants it to, unless a dumper was stopped by an error.
DeviceIsHandedBack ==
    /\ macctl \ {"RUN"} = driver.bits \ {"RUN"}
    /\ (\A d \in Dumpers : pc[d] \in {"open", "print", "done"}) => driver.bits \subseteq macctl

\* The lines around the program counter are shown: it, the eight lines before
\* and the seven behind it, as far as there are some, the last line of the text
\* excepted (makeShortDump ends in front of it).
ShortDumpShowsPc ==
    \A d \in Dumpers : \A n \in 0 .. (IF shown[d] = None THEN 0 ELSE Len(binary[d])) - 2 :
        LET i == LineOf(binary[d], dbg[d])
        IN  (\E l \in DOMAIN binary[d] : binary[d][l] = dbg[d]) =>
                (n \in shown[d] <=> n \in i - 8 .. i + 7)

\* A processor that a dumper has stopped is started again, unless an error ends
\* the dumper.
RunsAgain ==
    \A d \in Dumpers : (pc[d] = "read") ~> ("RUN" \in macctl \/ pc[d] = "failed")
=============================================================================
