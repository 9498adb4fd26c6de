--------------------------- MODULE FwDump_proofs ---------------------------
(***************************************************************************)
(* Safety of the state dump, for every number of dumpers and registers:    *)
(* the registers of an undisturbed dump belong together, the device is     *)
(* handed back, and the short dump shows the lines around the program      *)
(* counter.                                                                *)
(***************************************************************************)
EXTENDS FwDump, SequenceLemmas

DumpTypeOK ==
    /\ macctl \in SUBSET Bits
    /\ driver \in [bits : SUBSET Bits, changes : Nat]
    /\ psm \in [pc : Pcs, changes : Nat]
    /\ pc \in [Dumpers -> {"open", "read", "print", "done", "failed"}]
    /\ taken \in [Dumpers -> Seq(Nat)]
    /\ dbg \in [Dumpers -> Pcs \cup {None}]
    /\ binary \in [Dumpers -> Texts \cup {None}]
    /\ shown \in [Dumpers -> (SUBSET Int) \cup {None}]
    /\ disturbed \in [Dumpers -> BOOLEAN]

\* While a dumper reads and nobody has disturbed it, the processor stands still
\* and has done so since the first access.
StandsStill ==
    \A d \in Dumpers : (pc[d] = "read" /\ ~disturbed[d]) =>
        /\ "RUN" \notin macctl
        /\ \A n \in DOMAIN taken[d] : taken[d][n] = psm.changes

NothingReadYet == \A d \in Dumpers : pc[d] = "open" => taken[d] = <<>>

\* What is shown was taken from the text for the program counter of the dump,
\* and neither of them changes any more.
ShownIsShortDump ==
    \A d \in Dumpers : shown[d] # None =>
        /\ pc[d] = "done" /\ binary[d] # None
        /\ shown[d] = ShortDump(binary[d], dbg[d])

DumpInv ==
    /\ DumpTypeOK /\ StandsStill /\ NothingReadYet /\ SnapshotConsistent
    /\ DeviceIsHandedBack /\ ShownIsShortDump
-----------------------------------------------------------------------------
\* The first line with an address is a line of the text, and lines are numbered
\* from zero.
LEMMA LineOfType ==
    ASSUME NEW text \in Seq(Nat \cup {None}), NEW address,
           \E n \in DOMAIN text : text[n] = address
    PROVE  LineOf(text, address) \in 0 .. Len(text) - 1
<1> DEFINE S == {n \in DOMAIN text : text[n] = address}
<1>1. S \subseteq 1 .. Len(text) /\ S # {} /\ Len(text) \in Nat
  OBVIOUS
<1>2. S \subseteq Nat
  BY <1>1
<1>3. Min(S) \in S
  BY <1>1, <1>2, MinFacts
<1> HIDE DEF S
<1>4. Min(S) \in 1 .. Len(text)
  BY <1>1, <1>3
<1> QED BY <1>1, <1>4 DEF LineOf, S

LEMMA ShortDumpType ==
    ASSUME NEW text \in Seq(Nat \cup {None}), NEW address
    PROVE  ShortDump(text, address) \in SUBSET Int
<1>1. CASE \A n \in DOMAIN text : text[n] # address
  BY <1>1 DEF ShortDump
<1>2. CASE ~(\A n \in DOMAIN text : text[n] # address)
  BY <1>2 DEF ShortDump
<1> QED BY <1>1, <1>2

LEMMA InitImpliesDumpInv == Init => DumpInv
<1> SUFFICES ASSUME Init PROVE DumpInv
  OBVIOUS
<1>1. Min(Pcs) \in Pcs
  BY FwDumpAssumption, MinFacts
<1>2. DumpTypeOK
  BY <1>1 DEF Init, DumpTypeOK
<1>3. StandsStill /\ NothingReadYet /\ SnapshotConsistent
  BY DEF Init, StandsStill, NothingReadYet, SnapshotConsistent
<1>4. DeviceIsHandedBack /\ ShownIsShortDump
  BY DEF Init, DeviceIsHandedBack, ShownIsShortDump
<1> QED BY <1>2, <1>3, <1>4 DEF DumpInv

LEMMA PsmRunsKeeps ==
    ASSUME DumpInv, PsmRuns PROVE DumpInv'
<1> USE DEF DumpInv
<1>1. DumpTypeOK'
  BY DEF PsmRuns, DumpTypeOK
<1>2. StandsStill'
  BY DEF PsmRuns, StandsStill
<1>3. NothingReadYet' /\ SnapshotConsistent'
  BY DEF PsmRuns, NothingReadYet, SnapshotConsistent
<1>4. DeviceIsHandedBack' /\ ShownIsShortDump'
  BY DEF PsmRuns, DeviceIsHandedBack, ShownIsShortDump
<1> QED BY <1>1, <1>2, <1>3, <1>4

LEMMA DriverWritesKeeps ==
    ASSUME DumpInv, DriverWrites PROVE DumpInv'
<1> USE DEF DumpInv
<1> PICK bit \in Bits :
      \/ /\ MaskSet(Bits, {bit})
         /\ driver' = [bits |-> driver.bits \cup {bit}, changes |-> driver.changes + 1]
      \/ /\ MaskSet(Bits \ {bit}, {})
         /\ driver' = [bits |-> driver.bits \ {bit}, changes |-> driver.changes + 1]
  BY DEF DriverWrites
<1>1. Disturb({}) /\ UNCHANGED <<psm, pc, taken, dbg, binary, shown>>
  BY DEF DriverWrites
<1>2. macctl' \in SUBSET Bits /\ driver' \in [bits : SUBSET Bits, changes : Nat]
  BY DEF DumpTypeOK, MaskSet
<1>3. disturbed' \in [Dumpers -> BOOLEAN] /\ \A d \in Dumpers : disturbed[d] => disturbed'[d]
  BY <1>1 DEF DumpTypeOK, Disturb
<1>4. DumpTypeOK'
  BY <1>1, <1>2, <1>3 DEF DumpTypeOK
<1>5. StandsStill'
  <2> SUFFICES ASSUME NEW d \in Dumpers, pc'[d] = "read", ~disturbed'[d]
               PROVE  "RUN" \notin macctl' /\ \A n \in DOMAIN taken'[d] : taken'[d][n] = psm'.changes
    BY DEF StandsStill
  <2>1. pc[d] = "read" /\ ~disturbed[d]
    BY <1>1, <1>3
  <2>2. "RUN" \notin macctl /\ \A n \in DOMAIN taken[d] : taken[d][n] = psm.changes
    BY <2>1 DEF StandsStill
  <2>3. ~(d \in Dumping \ {} /\ "RUN" \notin macctl /\ "RUN" \in macctl')
    BY <1>1 DEF Disturb
  <2> QED BY <1>1, <2>1, <2>2, <2>3 DEF Dumping
<1>6. NothingReadYet' /\ SnapshotConsistent'
  BY <1>1, <1>3 DEF NothingReadYet, SnapshotConsistent
<1>7. DeviceIsHandedBack'
  BY <1>1 DEF DeviceIsHandedBack, MaskSet, DumpTypeOK, Bits
<1>8. ShownIsShortDump'
  BY <1>1 DEF ShownIsShortDump
<1> QED BY <1>4, <1>5, <1>6, <1>7, <1>8

LEMMA UcodeStopKeeps ==
    ASSUME DumpInv, NEW d \in Dumpers, UcodeStop(d) PROVE DumpInv'
<1> USE DEF DumpInv
<1>1. pc' = [pc EXCEPT ![d] = "read"] /\ macctl' = macctl \ {"RUN"} /\ pc[d] = "open"
  BY DEF UcodeStop, MaskSet, DumpTypeOK
<1>2. UNCHANGED <<driver, psm, taken, dbg, binary, shown, disturbed>>
  BY DEF UcodeStop, device
<1>3. DumpTypeOK'
  BY <1>1, <1>2 DEF DumpTypeOK
<1>4. StandsStill'
  <2> SUFFICES ASSUME NEW e \in Dumpers, pc'[e] = "read", ~disturbed'[e]
               PROVE  "RUN" \notin macctl' /\ \A n \in DOMAIN taken'[e] : taken'[e][n] = psm'.changes
    BY DEF StandsStill
  <2>1. CASE e = d
    BY <1>1, <1>2, <2>1, EmptyFacts DEF NothingReadYet
  <2>2. CASE e # d
    <3>1. pc[e] = "read" /\ ~disturbed[e]
      BY <1>1, <1>2, <2>2 DEF DumpTypeOK
    <3> QED BY <1>1, <1>2, <3>1 DEF StandsStill
  <2> QED BY <2>1, <2>2
<1>5. NothingReadYet' /\ SnapshotConsistent'
  BY <1>1, <1>2 DEF NothingReadYet, SnapshotConsistent, DumpTypeOK
<1>6. DeviceIsHandedBack'
  <2>1. pc'[d] = "read"
    BY <1>1 DEF DumpTypeOK
  <2> QED BY <1>1, <1>2, <2>1 DEF DeviceIsHandedBack
<1>7. ShownIsShortDump'
  BY <1>1, <1>2 DEF ShownIsShortDump, DumpTypeOK
<1> QED BY <1>3, <1>4, <1>5, <1>6, <1>7

LEMMA ReadRegisterKeeps ==
    ASSUME DumpInv, NEW d \in Dumpers, ReadRegister(d) PROVE DumpInv'
<1> USE DEF DumpInv
<1>1. /\ pc[d] = "read"
      /\ taken' = [taken EXCEPT ![d] = Append(@, psm.changes)]
      /\ dbg' = dbg \/ dbg' = [dbg EXCEPT ![d] = psm.pc]
  BY DEF ReadRegister
<1>2. UNCHANGED <<macctl, driver, psm, pc, binary, shown, disturbed>>
  BY DEF ReadRegister, device
<1>3. DumpTypeOK'
  BY <1>1, <1>2 DEF DumpTypeOK
<1>4. /\ taken[d] \in Seq(Nat) /\ taken'[d] = Append(taken[d], psm.changes)
      /\ \A e \in Dumpers \ {d} : taken'[e] = taken[e]
  BY <1>1 DEF DumpTypeOK
<1>5. DOMAIN taken'[d] = 1 .. Len(taken[d]) + 1 /\ Len(taken[d]) \in Nat
  BY <1>4
<1>6. \A n \in DOMAIN taken'[d] :
        (n \in DOMAIN taken[d] /\ taken'[d][n] = taken[d][n]) \/ taken'[d][n] = psm.changes
  BY <1>4
<1>7. StandsStill'
  <2> SUFFICES ASSUME NEW e \in Dumpers, pc'[e] = "read", ~disturbed'[e]
               PROVE  "RUN" \notin macctl' /\ \A n \in DOMAIN taken'[e] : taken'[e][n] = psm'.changes
    BY DEF StandsStill
  <2>1. pc[e] = "read" /\ ~disturbed[e]
    BY <1>2
  <2>2. "RUN" \notin macctl /\ \A n \in DOMAIN taken[e] : taken[e][n] = psm.changes
    BY <2>1 DEF StandsStill
  <2>3. CASE e = d
    BY <1>2, <1>6, <2>2, <2>3
  <2>4. CASE e # d
    BY <1>2, <1>4, <2>2, <2>4
  <2> QED BY <2>3, <2>4
<1>8. SnapshotConsistent'
  <2> SUFFICES ASSUME NEW e \in Dumpers, ~disturbed'[e],
                      NEW m \in DOMAIN taken'[e], NEW n \in DOMAIN taken'[e]
               PROVE  taken'[e][m] = taken'[e][n]
    BY DEF SnapshotConsistent
  <2>1. CASE e = d
    <3>1. \A k \in DOMAIN taken'[e] : taken'[e][k] = psm'.changes
      BY <1>1, <1>2, <1>7, <2>1 DEF StandsStill
    <3> QED BY <3>1
  <2>2. CASE e # d
    BY <1>2, <1>4, <2>2 DEF SnapshotConsistent
  <2> QED BY <2>1, <2>2
<1>9. NothingReadYet'
  BY <1>1, <1>2, <1>4 DEF NothingReadYet
<1>10. DeviceIsHandedBack'
  BY <1>2 DEF DeviceIsHandedBack
<1>11. ShownIsShortDump'
  <2> SUFFICES ASSUME NEW e \in Dumpers, shown'[e] # None
               PROVE  /\ pc'[e] = "done" /\ binary'[e] # None
                      /\ shown'[e] = ShortDump(binary'[e], dbg'[e])
    BY DEF ShownIsShortDump
  <2>1. pc[e] = "done" /\ binary[e] # None /\ shown[e] = ShortDump(binary[e], dbg[e])
    BY <1>2 DEF ShownIsShortDump
  <2>2. dbg'[e] = dbg[e]
    BY <1>1, <2>1 DEF DumpTypeOK
  <2> QED BY <1>2, <2>1, <2>2
<1> QED BY <1>3, <1>7, <1>8, <1>9, <1>10, <1>11

LEMMA BrokenKeeps ==
    ASSUME DumpInv, NEW d \in Dumpers, Broken(d) PROVE DumpInv'
<1> USE DEF DumpInv
<1>1. pc' = [pc EXCEPT ![d] = "failed"] /\ pc[d] \in {"open", "read"}
  BY DEF Broken
<1>2. UNCHANGED <<macctl, driver, psm, taken, dbg, binary, shown, disturbed>>
  BY DEF Broken, device
<1>3. \A e \in Dumpers : pc'[e] = IF e = d THEN "failed" ELSE pc[e]
  BY <1>1 DEF DumpTypeOK
<1>4. DumpTypeOK'
  BY <1>1, <1>2 DEF DumpTypeOK
<1>5. StandsStill' /\ NothingReadYet' /\ SnapshotConsistent'
  BY <1>2, <1>3 DEF StandsStill, NothingReadYet, SnapshotConsistent
<1>6. DeviceIsHandedBack'
  BY <1>2, <1>3 DEF DeviceIsHandedBack
<1>7. ShownIsShortDump'
  BY <1>1, <1>2, <1>3 DEF ShownIsShortDump
<1> QED BY <1>4, <1>5, <1>6, <1>7

LEMMA UcodeStartKeeps ==
    ASSUME DumpInv, NEW d \in Dumpers, UcodeStart(d) PROVE DumpInv'
<1> USE DEF DumpInv
<1>1. pc' = [pc EXCEPT ![d] = "print"] /\ pc[d] = "read" /\ macctl' = macctl \cup {"RUN"}
  BY DEF UcodeStart, MaskSet, DumpTypeOK
<1>2. Disturb({d}) /\ UNCHANGED <<driver, psm, taken, dbg, binary, shown>>
  BY DEF UcodeStart, device
<1>3. \A e \in Dumpers : pc'[e] = IF e = d THEN "print" ELSE pc[e]
  BY <1>1 DEF DumpTypeOK
<1>4. disturbed' \in [Dumpers -> BOOLEAN] /\ \A e \in Dumpers : disturbed[e] => disturbed'[e]
  BY <1>2 DEF DumpTypeOK, Disturb
<1>5. DumpTypeOK'
  BY <1>1, <1>2, <1>4 DEF DumpTypeOK, Bits
<1>6. StandsStill'
  <2> SUFFICES ASSUME NEW e \in Dumpers, pc'[e] = "read", ~disturbed'[e]
               PROVE  "RUN" \notin macctl' /\ \A n \in DOMAIN taken'[e] : taken'[e][n] = psm'.changes
    BY DEF StandsStill
  <2>1. e # d /\ pc[e] = "read" /\ ~disturbed[e]
    BY <1>3, <1>4
  <2>2. "RUN" \notin macctl
    BY <2>1 DEF StandsStill
  <2>3. ~(e \in Dumping \ {d} /\ "RUN" \notin macctl /\ "RUN" \in macctl')
    BY <1>2 DEF Disturb
  <2> QED BY <1>1, <2>1, <2>2, <2>3 DEF Dumping
<1>7. NothingReadYet' /\ SnapshotConsistent'
  BY <1>2, <1>3, <1>4 DEF NothingReadYet, SnapshotConsistent
<1>8. DeviceIsHandedBack'
  <2>1. ASSUME \A e \in Dumpers : pc'[e] \in {"open", "print", "done"}
        PROVE  driver'.bits \subseteq macctl'
    BY <1>1, <1>2 DEF DeviceIsHandedBack
  <2> QED BY <1>1, <1>2, <2>1 DEF DeviceIsHandedBack
<1>9. ShownIsShortDump'
  BY <1>1, <1>2, <1>3 DEF ShownIsShortDump
<1> QED BY <1>5, <1>6, <1>7, <1>8, <1>9

LEMMA PrintKeeps ==
    ASSUME DumpInv, NEW d \in Dumpers, PrintDump(d) \/ PrintFails(d) PROVE DumpInv'
<1> USE DEF DumpInv
<1>1. pc' = [pc EXCEPT ![d] = "done"] /\ pc[d] = "print"
  BY DEF PrintDump, PrintFails
<1>2. UNCHANGED <<macctl, driver, psm, taken, dbg, binary, disturbed>>
  BY DEF PrintDump, PrintFails, device
<1>3. \A e \in Dumpers : pc'[e] = IF e = d THEN "done" ELSE pc[e]
  BY <1>1 DEF DumpTypeOK
<1>4. \/ shown' = shown
      \/ shown' = [shown EXCEPT ![d] = None]
      \/ binary[d] # None /\ shown' = [shown EXCEPT ![d] = ShortDump(binary[d], dbg[d])]
  BY DEF PrintDump, PrintFails
<1>5. binary[d] # None => ShortDump(binary[d], dbg[d]) \in SUBSET Int
  <2> HAVE binary[d] # None
  <2>1. binary[d] \in Seq(Nat \cup {None})
    BY FwDumpAssumption DEF DumpTypeOK
  <2> QED BY <2>1, ShortDumpType
<1>6. shown' \in [Dumpers -> (SUBSET Int) \cup {None}]
  BY <1>4, <1>5, Zenon DEF DumpTypeOK
<1>7. DumpTypeOK'
  BY <1>1, <1>2, <1>6 DEF DumpTypeOK
<1>8. StandsStill' /\ NothingReadYet' /\ SnapshotConsistent'
  BY <1>2, <1>3 DEF StandsStill, NothingReadYet, SnapshotConsistent
<1>9. DeviceIsHandedBack'
  BY <1>1, <1>2, <1>3 DEF DeviceIsHandedBack
<1>10. ShownIsShortDump'
  <2> SUFFICES ASSUME NEW e \in Dumpers, shown'[e] # None
               PROVE  /\ pc'[e] = "done" /\ binary'[e] # None
                      /\ shown'[e] = ShortDump(binary'[e], dbg'[e])
    BY DEF ShownIsShortDump
  <2>1. shown'[e] = shown[e] \/ (e = d /\ binary[d] # None /\ shown'[e] = ShortDump(binary[d], dbg[d]))
    BY <1>4 DEF DumpTypeOK
  <2> QED BY <1>2, <1>3, <2>1 DEF ShownIsShortDump
<1> QED BY <1>7, <1>8, <1>9, <1>10

LEMMA NextKeepsDumpInv == DumpInv /\ [Next]_vars => DumpInv'
<1> SUFFICES ASSUME DumpInv, [Next]_vars PROVE DumpInv'
  OBVIOUS
<1>1. CASE PsmRuns
  BY <1>1, PsmRunsKeeps
<1>2. CASE DriverWrites
  BY <1>2, DriverWritesKeeps
<1>3. ASSUME NEW d \in Dumpers, Dumper(d) PROVE DumpInv'
  BY <1>3, UcodeStopKeeps, ReadRegisterKeeps, BrokenKeeps, UcodeStartKeeps, PrintKeeps DEF Dumper
<1>4. CASE UNCHANGED vars
  BY <1>4 DEF vars, DumpInv, DumpTypeOK, StandsStill, NothingReadYet, SnapshotConsistent,
              DeviceIsHandedBack, ShownIsShortDump
<1> QED BY <1>1, <1>2, <1>3, <1>4 DEF Next

\* Every variable of the dumpers, the device and the driver keeps its type.
THEOREM DumpTypes == Spec => []DumpTypeOK
<1>1. DumpInv => DumpTypeOK
  BY DEF DumpInv
<1> QED BY <1>1, InitImpliesDumpInv, NextKeepsDumpInv, PTL DEF Spec

\* All registers of a dump that nobody has disturbed belong to one state of the
\* processor, however many registers and dumpers there are.
THEOREM SnapshotsAreConsistent == Spec => []SnapshotConsistent
<1>1. DumpInv => SnapshotConsistent
  BY DEF DumpInv
<1> QED BY <1>1, InitImpliesDumpInv, NextKeepsDumpInv, PTL DEF Spec

\* The dumpers leave the device to the driver as they found it.
THEOREM DevicesAreHandedBack == Spec => []DeviceIsHandedBack
<1>1. DumpInv => DeviceIsHandedBack
  BY DEF DumpInv
<1> QED BY <1>1, InitImpliesDumpInv, NextKeepsDumpInv, PTL DEF Spec

LEMMA ShortDumpIsWindow ==
    ASSUME NEW text \in Seq(Nat \cup {None}), NEW address,
           \E n \in DOMAIN text : text[n] = address,
           NEW n \in 0 .. Len(text) - 2
    PROVE  LET i == LineOf(text, address)
           IN  n \in ShortDump(text, address) <=> n \in i - 8 .. i + 7
<1> DEFINE i == LineOf(text, address)
<1>1. i \in 0 .. Len(text) - 1 /\ Len(text) \in Nat
  BY LineOfType
<1>2. ShortDump(text, address) = Pos(i) .. EndOf(text, i) - 1
  BY DEF ShortDump
<1> HIDE DEF i
<1>3. n \in Pos(i) .. EndOf(text, i) - 1 <=> n \in i - 8 .. i + 7
  BY <1>1 DEF Pos, EndOf
<1> QED BY <1>2, <1>3 DEF i

\* The short dump of a text with the program counter in it shows the lines
\* around that, for every text and wherever in it the program counter is.
THEOREM ShortDumpsShowPc == Spec => []ShortDumpShowsPc
<1>1. ASSUME DumpInv PROVE ShortDumpShowsPc
  <2> SUFFICES ASSUME NEW d \in Dumpers,
                      NEW n \in 0 .. (IF shown[d] = None THEN 0 ELSE Len(binary[d])) - 2,
                      \E l \in DOMAIN binary[d] : binary[d][l] = dbg[d]
               PROVE  LET i == LineOf(binary[d], dbg[d])
                      IN  n \in shown[d] <=> n \in i - 8 .. i + 7
    BY DEF ShortDumpShowsPc
  <2>1. shown[d] # None
    OBVIOUS
  <2>2. binary[d] # None /\ shown[d] = ShortDump(binary[d], dbg[d])
    BY <1>1, <2>1 DEF DumpInv, ShownIsShortDump
  <2>3. binary[d] \in Seq(Nat \cup {None})
    BY <1>1, <2>2, FwDumpAssumption DEF DumpInv, DumpTypeOK
  <2>4. n \in 0 .. Len(binary[d]) - 2
    BY <2>1
  <2> QED BY <2>2, <2>3, <2>4, ShortDumpIsWindow
<1> QED BY <1>1, InitImpliesDumpInv, NextKeepsDumpInv, PTL DEF Spec
=============================================================================
