---------------------------- MODULE Sprom_proofs ----------------------------
(***************************************************************************)
(* Proofs about Sprom, for every set of command lines and inputs and every *)
(* checksum. IInv: what is refused leaves the output alone, only an intact *)
(* image or a forced one is written, and what is written is acceptable     *)
(* input. ValuesInv: the parameters are those of the options, in their     *)
(* order, and the image is the input with the values put in that came so   *)
(* far; it rests on what all rows of sprom_table have in common.           *)
(***************************************************************************)
EXTENDS Sprom, SequenceLemmas

Forced == \E n \in DOMAIN args : args[n].o = "force"
Intact == input.crc = Sum(size, input.rev, input.bits)

\* The image was read in full.
IsComplete == size # 0 /\ input.size >= size

\* The phases behind parse_input, validate_input and modify_sprom.
HasImage   == pc \in {"validate", "pass2", "display", "modify", "open", "truncate", "write"}
IsAccepted == pc \in {"pass2", "display", "modify", "open", "truncate", "write"}
IsSealed   == pc \in {"open", "truncate", "write"}

InputIsACase ==
    /\ \E c \in Cases : args = c.args /\ input = c.input
    /\ i \in Nat \ {0}

\* The output is touched by the last phases only.
Untouched == pc \notin {"write", "done", "ioerror"} => outfile = Nothing

\* The image is that of the input, of a size and a revision the tool knows.
IsInputsImage ==
    /\ pc \in {"pass1", "read"} => size = 0
    /\ size \in {0, SPROM_SIZE, SPROM4_SIZE}
    /\ (HasImage /\ size # 0) => IsLegalRev(rev)
    /\ (HasImage /\ IsComplete) => rev = input.rev
    /\ (pc = "validate" /\ IsComplete) =>
          crc = input.crc /\ Sum(size, rev, bits) = Sum(size, input.rev, input.bits)

\* An image that was accepted is intact or forced.
IsChecked ==
    /\ cmd.force => Forced
    /\ (IsAccepted /\ IsComplete) => Forced \/ Intact

\* The checksum fits when the image is about to be written.
IsSummed == IsSealed => crc = Sum(size, rev, bits)

IInv ==
    /\ InputIsACase /\ Untouched /\ IsInputsImage /\ IsChecked /\ IsSummed
    /\ OutputIsAcceptable /\ ForcedOrValid

\* A size that parse_input chooses is one it would choose again.
LEMMA SizesAreStable ==
    ASSUME NEW n \in {SPROM_SIZE, SPROM4_SIZE}
    PROVE  ParsedSize(n) = n
BY DEF ParsedSize, SPROM_SIZE, SPROM4_SIZE

\* What is left in the buffer behind an image is not summed up (parse_input,
\* sprom_crc).
LEMMA LeftoversAreNotSummed ==
    ASSUME NEW n \in Nat, NEW m \in Nat, m >= n,
           NEW b, NEW left \in SUBSET Nat
    PROVE  Within(n, b \cup {k \in left : k >= 8 * m}) = Within(n, b)
<1> DEFINE rest == {k \in left : k >= 8 * m}
<1>1. ASSUME NEW k \in rest PROVE ~(k < 8 * (n - 2))
  <2>1. k \in Nat /\ k >= 8 * m
    OBVIOUS
  <2> HIDE DEF rest
  <2> QED
    BY <2>1
<1> HIDE DEF rest
<1>2. {k \in b \cup rest : k < 8 * (n - 2)} = {k \in b : k < 8 * (n - 2)}
  BY <1>1
<1> QED
  BY <1>2 DEF Within, rest

LEMMA InitImplies == Init => IInv
<1> SUFFICES ASSUME Init PROVE IInv
  OBVIOUS
<1>1. InputIsACase /\ Untouched
  BY DEF Init, InputIsACase, Untouched
<1>2. IsInputsImage
  BY DEF Init, IsInputsImage, HasImage
<1>3. IsChecked /\ IsSummed
  BY DEF Init, IsChecked, IsSummed, IsAccepted, IsSealed
<1>4. OutputIsAcceptable /\ ForcedOrValid
  BY DEF Init, OutputIsAcceptable, ForcedOrValid, Nothing
<1> QED
  BY <1>1, <1>2, <1>3, <1>4 DEF IInv

\* Pass1 sets cmdargs.force for an option --force only.
LEMMA Pass1Step == IInv /\ Pass1 => IInv'
<1> SUFFICES ASSUME IInv, Pass1 PROVE IInv'
  OBVIOUS
<1> USE DEF image
<1>1. i \in DOMAIN args /\ i + 1 \in Nat \ {0}
  BY CasesAssumption DEF IInv, InputIsACase, Pass1, AtOption
<1>2. InputIsACase' /\ Untouched'
  BY <1>1 DEF IInv, InputIsACase, Untouched, Pass1, AtOption
<1>3. IsInputsImage'
  BY DEF IInv, IsInputsImage, HasImage, IsComplete, Pass1, AtOption
<1>4. IsChecked'
  BY <1>1 DEF IInv, IsChecked, IsAccepted, Forced, Pass1, AtOption
<1>5. IsSummed' /\ OutputIsAcceptable' /\ ForcedOrValid'
  BY DEF IInv, IsSummed, IsSealed, OutputIsAcceptable, ForcedOrValid, Untouched, Nothing,
         Pass1, AtOption
<1> QED
  BY <1>2, <1>3, <1>4, <1>5 DEF IInv

\* A step to another phase that changes nothing else.
LEMMA EndStep ==
    ASSUME IInv, NEW how, End(how),
           how \notin {"write", "done", "ioerror"} => outfile = Nothing,
           how \in {"pass1", "read"} => size = 0,
           how # "validate",
           how \in {"display", "modify", "pass2"} => IsAccepted,
           how \in {"open", "truncate", "write"} => IsSealed
    PROVE  IInv'
<1> USE DEF image, End
<1>1. InputIsACase' /\ Untouched'
  BY DEF IInv, InputIsACase, Untouched
<1>2. HasImage' => HasImage
  BY DEF HasImage, IsAccepted, IsSealed
<1>3. IsInputsImage'
  BY <1>2 DEF IInv, IsInputsImage, IsComplete
<1>4. IsAccepted' => IsAccepted
  BY DEF IsAccepted, IsSealed
<1>5. IsChecked'
  BY <1>4 DEF IInv, IsChecked, IsComplete, Forced, Intact, Sum
<1>6. IsSummed'
  BY DEF IInv, IsSummed, IsSealed
<1>7. OutputIsAcceptable' /\ ForcedOrValid'
  BY DEF IInv, OutputIsAcceptable, ForcedOrValid
<1> QED
  BY <1>1, <1>3, <1>5, <1>6, <1>7 DEF IInv

\* parse_input: a complete image is the input's, its checksum included.
LEMMA ParseHexStep == IInv /\ ParseHex => IInv'
<1> SUFFICES ASSUME IInv, ParseHex PROVE IInv'
  OBVIOUS
<1> USE DEF image
<1>1. PICK c \in Cases : args = c.args /\ input = c.input
  BY DEF IInv, InputIsACase
<1>2. input.size \in Nat /\ input.bits \subseteq Nat
  <2>1. c.input.size \in 0 .. SPROM4_SIZE /\ c.input.bits \subseteq Nat
    BY CasesAssumption, BitsAssumption, Zenon
  <2> QED
    BY <1>1, <2>1 DEF SPROM4_SIZE
<1>3. size' \in {SPROM_SIZE, SPROM4_SIZE} /\ size' \in Nat /\ size' # 0
  BY DEF ParseHex, ParsedSize, SPROM_SIZE, SPROM4_SIZE
<1>4. input.size >= size' =>
         rev' = input.rev /\ crc' = input.crc
         /\ Sum(size', rev', bits') = Sum(size', input.rev, input.bits)
  <2> SUFFICES ASSUME input.size >= size' PROVE
         rev' = input.rev /\ crc' = input.crc
         /\ Sum(size', rev', bits') = Sum(size', input.rev, input.bits)
    OBVIOUS
  <2>1. rev' = input.rev /\ crc' = input.crc
    BY <1>2, <1>3 DEF ParseHex
  <2>2. PICK left \in Leftovers : bits' = input.bits \cup {b \in left : b >= 8 * input.size}
    BY DEF ParseHex
  <2>3. left \in SUBSET Nat
    BY <2>2, BitsAssumption
  <2>4. Within(size', bits') = Within(size', input.bits)
    <3> DEFINE rest == {b \in left : b >= 8 * input.size}
    <3>1. \A n, m \in Nat : m >= n =>
             Within(n, input.bits \cup {k \in left : k >= 8 * m}) = Within(n, input.bits)
      <4> SUFFICES ASSUME NEW n \in Nat, NEW m \in Nat, m >= n
                   PROVE  Within(n, input.bits \cup {k \in left : k >= 8 * m}) = Within(n, input.bits)
        OBVIOUS
      <4> QED BY <2>3, LeftoversAreNotSummed, SMTT(60)
    <3>2. Within(size', input.bits \cup rest) = Within(size', input.bits)
      BY <1>2, <1>3, <3>1, Zenon
    <3> QED
      BY <2>2, <3>2
  <2> QED
    BY <2>1, <2>4 DEF Sum
<1>5. pc' \in {"validate", "rejected"} /\ (pc' = "validate" => IsLegalRev(rev'))
  BY DEF ParseHex
<1>6. outfile' = Nothing
  BY DEF IInv, Untouched, ParseHex
<1>7. InputIsACase' /\ Untouched'
  BY <1>6 DEF IInv, InputIsACase, Untouched, ParseHex
<1>8. IsInputsImage'
  BY <1>3, <1>4, <1>5 DEF IsInputsImage, HasImage, IsComplete, ParseHex, Sum
<1>9. IsChecked' /\ IsSummed'
  BY <1>5 DEF IInv, IsChecked, IsSummed, IsSealed, IsAccepted, Forced, ParseHex
<1>10. OutputIsAcceptable' /\ ForcedOrValid'
  BY <1>6 DEF OutputIsAcceptable, ForcedOrValid, Nothing
<1> QED
  BY <1>7, <1>8, <1>9, <1>10 DEF IInv

LEMMA KeepBinaryStep == IInv /\ KeepBinary => IInv'
<1> SUFFICES ASSUME IInv, KeepBinary PROVE IInv'
  OBVIOUS
<1>1. size' = 0 /\ outfile' = Nothing
  BY DEF IInv, IsInputsImage, Untouched, KeepBinary
<1>2. InputIsACase' /\ Untouched'
  BY <1>1 DEF IInv, InputIsACase, Untouched, KeepBinary
<1>3. IsInputsImage'
  BY <1>1 DEF IsInputsImage, IsComplete, KeepBinary
<1>4. IsChecked' /\ IsSummed'
  BY <1>1 DEF IInv, IsChecked, IsSummed, IsSealed, IsAccepted, Forced, KeepBinary
<1>5. OutputIsAcceptable' /\ ForcedOrValid'
  BY <1>1 DEF OutputIsAcceptable, ForcedOrValid, Nothing
<1> QED
  BY <1>2, <1>3, <1>4, <1>5 DEF IInv

\* validate_input: an image whose checksum is wrong needs --force.
LEMMA ValidateStep == IInv /\ Validate => IInv'
<1> SUFFICES ASSUME IInv, Validate PROVE IInv'
  OBVIOUS
<1> USE DEF image
<1>1. outfile' = Nothing
  BY DEF IInv, Untouched, Validate
<1>2. InputIsACase' /\ Untouched'
  BY <1>1 DEF IInv, InputIsACase, Untouched, Validate
<1>3. IsInputsImage'
  BY DEF IInv, IsInputsImage, IsComplete, HasImage, Validate
<1>4. IsComplete => Forced \/ Intact
  BY DEF IInv, IsInputsImage, IsChecked, IsComplete, IsValid, Intact, Validate
<1>5. IsChecked'
  BY <1>4 DEF IInv, IsChecked, IsComplete, Forced, Intact, Validate, Sum
<1>6. IsSummed'
  BY DEF IsSummed, IsSealed, Validate
<1>7. OutputIsAcceptable' /\ ForcedOrValid'
  BY <1>1 DEF OutputIsAcceptable, ForcedOrValid, Nothing
<1> QED
  BY <1>2, <1>3, <1>5, <1>6, <1>7 DEF IInv

\* Steps between validate_input and write_output: parameters are collected,
\* values are displayed and modified, the checksum is renewed.
LEMMA ValueSteps ==
    ASSUME IInv, Pass2 \/ Display \/ ModifyValue \/ NewChecksum
    PROVE  IInv'
<1> USE DEF Pass2, Display, ModifyValue, NewChecksum, image
<1>1. UNCHANGED <<args, input, cmd, rev, size, outfile>>
  OBVIOUS
<1>2. IsAccepted /\ HasImage /\ pc' \in {"pass2", "modify", "open"}
  BY DEF IsAccepted, HasImage
<1>3. outfile' = Nothing
  BY DEF IInv, Untouched
<1>4. InputIsACase'
  BY DEF IInv, InputIsACase
<1>5. Untouched'
  BY <1>3 DEF Untouched
<1>6. IsInputsImage'
  BY <1>1, <1>2 DEF IInv, IsInputsImage, HasImage, IsComplete
<1>7. IsChecked'
  BY <1>1, <1>2 DEF IInv, IsChecked, IsComplete, Forced, Intact, Sum
<1>8. IsSummed'
  BY DEF IsSummed, IsSealed, Sum
<1>9. OutputIsAcceptable' /\ ForcedOrValid'
  BY <1>3 DEF OutputIsAcceptable, ForcedOrValid, Nothing
<1> QED
  BY <1>4, <1>5, <1>6, <1>7, <1>8, <1>9 DEF IInv

\* write_output: the checksum that was renewed is written.
LEMMA OutputSteps ==
    ASSUME IInv, Truncate \/ WriteOutput \/ ShortWrite
    PROVE  IInv'
<1> USE DEF Truncate, WriteOutput, ShortWrite, image
<1>1. UNCHANGED <<args, input, i, cmd, rev, size, bits, crc>>
  OBVIOUS
<1>2. IsSealed /\ IsAccepted /\ HasImage /\ pc' \in {"write", "done"}
  BY DEF IsSealed, IsAccepted, HasImage
<1>3. InputIsACase' /\ Untouched'
  BY <1>2 DEF IInv, InputIsACase, Untouched
<1>4. IsInputsImage'
  BY <1>1, <1>2 DEF IInv, IsInputsImage, HasImage, IsComplete
<1>5. IsChecked'
  BY <1>1, <1>2 DEF IInv, IsChecked, IsComplete, Forced, Intact, Sum
<1>6. IsSummed'
  BY <1>1, <1>2 DEF IInv, IsSummed
<1>7. OutputIsAcceptable'
  <2> SUFFICES ASSUME outfile'.state = "new", size # 0
               PROVE  /\ outfile'.crc = Checksum(outfile'.size, outfile'.rev, outfile'.bits)
                      /\ ParsedSize(outfile'.size) = outfile'.size /\ IsLegalRev(outfile'.rev)
                      /\ input.size >= size => outfile'.rev = input.rev
    BY <1>1 DEF OutputIsAcceptable
  <2>1. outfile' = Written("new")
    BY DEF Nothing, Written
  <2>2. /\ outfile'.crc = crc /\ outfile'.size = size /\ outfile'.rev = rev
        /\ outfile'.bits = Within(size, bits)
    BY <2>1 DEF Written
  <2>3. crc = Checksum(size, rev, Within(size, bits))
    BY <1>2 DEF IInv, IsSummed, Sum
  <2>4. ParsedSize(size) = size
    BY SizesAreStable DEF IInv, IsInputsImage
  <2>5. IsLegalRev(rev) /\ (input.size >= size => rev = input.rev)
    BY <1>2 DEF IInv, IsInputsImage, IsComplete
  <2> QED
    BY <2>2, <2>3, <2>4, <2>5
<1>8. ForcedOrValid'
  <2>1. IsComplete => Forced \/ Intact
    BY <1>2 DEF IInv, IsChecked
  <2> QED
    BY <1>1, <2>1 DEF ForcedOrValid, IsComplete, Forced, Intact, Sum
<1> QED
  BY <1>3, <1>4, <1>5, <1>6, <1>7, <1>8 DEF IInv

LEMMA StepPreserves == IInv /\ [Next]_vars => IInv'
<1> SUFFICES ASSUME IInv, [Next]_vars PROVE IInv'
  OBVIOUS
<1>1. CASE Pass1
  BY <1>1, Pass1Step
<1>2. CASE Version \/ Help \/ EndOfPass1
  BY <1>2, EndStep DEF Version, Help, EndOfPass1, AtOption, IInv, Untouched, IsInputsImage
<1>3. CASE InputTrouble \/ NotAnImage \/ Corrupt
  BY <1>3, EndStep DEF InputTrouble, NotAnImage, Corrupt, IInv, Untouched
<1>4. CASE KeepBinary
  BY <1>4, KeepBinaryStep
<1>5. CASE ParseHex
  BY <1>5, ParseHexStep
<1>6. CASE Validate
  BY <1>6, ValidateStep
<1>7. CASE ArgumentError \/ MissingText \/ NoValues \/ EndOfPass2
  BY <1>7, EndStep DEF ArgumentError, MissingText, NoValues, EndOfPass2, IInv, Untouched, IsAccepted
<1>8. CASE Pass2 \/ Display \/ ModifyValue \/ NewChecksum
  BY <1>8, ValueSteps
<1>9. CASE NothingModified \/ OutputTrouble
  BY <1>9, EndStep DEF NothingModified, OutputTrouble
<1>10. CASE OpenOutput
  BY <1>10, EndStep DEF OpenOutput, IInv, Untouched, IsSealed
<1>11. CASE Truncate \/ WriteOutput \/ ShortWrite
  BY <1>11, OutputSteps
<1>12. CASE UNCHANGED vars
  BY <1>12 DEF vars, image, IInv, InputIsACase, Untouched, IsInputsImage, IsChecked, IsSummed,
               HasImage, IsAccepted, IsSealed, IsComplete, Forced, Intact, Sum,
               OutputIsAcceptable, ForcedOrValid
<1> QED
  BY <1>1, <1>2, <1>3, <1>4, <1>5, <1>6, <1>7, <1>8, <1>9, <1>10, <1>11, <1>12 DEF Next

LEMMA Invariance == Spec => []IInv
BY InitImplies, StepPreserves, PTL DEF Spec

\* A refused command line, image or value leaves the output alone (main's gotos
\* to out), for every set of command lines.
THEOREM RefusalKeepsOutput == Spec => []RejectedKeepsOutput
<1>1. IInv => RejectedKeepsOutput
  BY DEF IInv, Untouched, RejectedKeepsOutput
<1> QED
  BY <1>1, Invariance, PTL

\* What is written is read again without --force, with the size and the
\* revision it had (modify_sprom), for every checksum and whatever the buffer held.
THEOREM OutputsAreAcceptable == Spec => []OutputIsAcceptable
<1>1. IInv => OutputIsAcceptable
  BY DEF IInv
<1> QED
  BY <1>1, Invariance, PTL

\* No corrupted image gets to the output without --force (validate_input and the
\* two passes over the command line), for every checksum.
THEOREM WrittenIfForcedOrValid == Spec => []ForcedOrValid
<1>1. IInv => ForcedOrValid
  BY DEF IInv
<1> QED
  BY <1>1, Invariance, PTL
-----------------------------------------------------------------------------
\* The table. What its rows have in common, and the width that the values of a
\* type have in a revision: two names of a type are as wide as each other.
WidthOf(type, r) ==
    CASE type \in {"ET0MDC", "ET1MDC"} -> 1
      [] type \in {"ANTBG0", "ANTBG1", "ANTA0", "ANTA1"} -> IF r <= 3 THEN 1 ELSE 8
      [] type \in {"ET0PHY", "ET1PHY"} -> 5
      [] type = "LOC" -> IF r <= 3 THEN 2 ELSE 16
      [] type = "PA1B0" -> IF r \in {4, 5} THEN 8 ELSE 16
      [] type \in {"BREV", "ANTGBG", "ANTGA", "ANTG0", "ANTG1", "ANTG2", "ANTG3",
                   "LED0", "LED1", "LED2", "LED3",
                   "MAXPBG", "MAXPA", "ITSSIBG", "ITSSIA"} -> 8
      [] type \in {"BGMAC", "ETMAC", "AMAC"} -> 48
      [] type \in {"2OFDMPO", "5MPO", "5LPO", "5HPO"} -> 32
      [] OTHER -> 16

RowIsRight(row) ==
    /\ row.offset \in Nat /\ row.offset >= 4
    /\ row.length \in {1, 4, 5, 8, 16, 32, 33, 34}
    /\ row.length < 16 => \E a, b \in 0 .. 15 : a <= b /\ row.mask = a .. b
    /\ row.type # "RAW"
    /\ \A r \in row.revs : Width(row) = WidthOf(row.type, r)

RowsAreRight(rows) == IsSequence(rows) /\ \A n \in DOMAIN rows : RowIsRight(rows[n])

\* All names have types whose values are w bits wide in these revisions.
OfWidth(revs, names, w) ==
    /\ Len(names) \in Nat /\ DOMAIN names = 1 .. Len(names)
    /\ \A n \in 1 .. Len(names) :
          names[n][1] # "RAW" /\ \A r \in revs : WidthOf(names[n][1], r) = w

LEMMA Joined ==
    ASSUME NEW s, RowsAreRight(s), NEW t, RowsAreRight(t)
    PROVE  RowsAreRight(s \o t)
<1>1. PICK S : s \in Seq(S)
  BY DEF RowsAreRight, IsSequence
<1>2. PICK T : t \in Seq(T)
  BY DEF RowsAreRight, IsSequence
<1>3. s \in Seq(S \cup T) /\ t \in Seq(S \cup T)
  BY <1>1, <1>2
<1>4. IsSequence(s \o t)
  BY <1>3 DEF IsSequence
<1>5. ASSUME NEW n \in DOMAIN (s \o t) PROVE RowIsRight((s \o t)[n])
  <2>1. /\ Len(s) \in Nat /\ Len(t) \in Nat /\ n \in 1 .. Len(s) + Len(t)
        /\ DOMAIN s = 1 .. Len(s) /\ DOMAIN t = 1 .. Len(t)
    BY <1>3
  <2>2. CASE n <= Len(s)
    <3>1. n \in DOMAIN s /\ (s \o t)[n] = s[n]
      BY <1>3, <2>1, <2>2
    <3> QED BY <3>1 DEF RowsAreRight
  <2>3. CASE n > Len(s)
    <3>1. n - Len(s) \in DOMAIN t /\ (s \o t)[n] = t[n - Len(s)]
      BY <1>3, <2>1, <2>3
    <3> QED BY <3>1 DEF RowsAreRight
  <2> QED BY <2>1, <2>2, <2>3
<1> QED BY <1>4, <1>5 DEF RowsAreRight

LEMMA WidthOfMask ==
    ASSUME NEW a \in 0 .. 15, NEW b \in 0 .. 15, a <= b
    PROVE  IsFiniteSet(a .. b) /\ Cardinality(a .. b) = b - a + 1
<1>1. a \in Int /\ b \in Int
  OBVIOUS
<1>2. IsFiniteSet(a .. b) /\ Cardinality(a .. b) = IF a > b THEN 0 ELSE b - a + 1
  BY <1>1, FS_Interval
<1> QED BY <1>1, <1>2

LEMMA WholeIsRight ==
    ASSUME NEW revs, NEW length \in {16, 32, 33, 34}, NEW offset \in Nat, offset >= 4,
           NEW step \in Nat, NEW names,
           OfWidth(revs, names, IF length = 34 THEN 48 ELSE IF length = 33 THEN 16 ELSE length)
    PROVE  RowsAreRight(Whole(revs, length, offset, step, names))
<1> DEFINE rows == Whole(revs, length, offset, step, names)
<1>1. Len(names) \in Nat /\ DOMAIN names = 1 .. Len(names)
  BY DEF OfWidth
<1>2. rows = [n \in 1 .. Len(names) |->
                Row(revs, names[n][1], names[n][2], length, offset + (n - 1) * step, 0 .. 15)]
  BY DEF Whole
<1> HIDE DEF rows
<1>3. IsSequence(rows)
  <2> DEFINE S == {rows[n] : n \in 1 .. Len(names)}
  <2>1. rows = [n \in 1 .. Len(names) |-> rows[n]]
    BY <1>2
  <2>2. rows \in Seq(S)
    BY <1>1, <2>1
  <2> QED BY <2>2 DEF IsSequence
<1>4. ASSUME NEW n \in 1 .. Len(names) PROVE RowIsRight(rows[n])
  <2>1. rows[n] = [revs |-> revs, type |-> names[n][1], desc |-> names[n][2], length |-> length,
                   offset |-> offset + (n - 1) * step, mask |-> 0 .. 15]
    BY <1>2 DEF Row
  <2>2. (n - 1) * step \in Nat
    BY <1>1
  <2>3. /\ rows[n].offset \in Nat /\ rows[n].offset >= 4 /\ rows[n].length = length
        /\ rows[n].revs = revs /\ rows[n].type = names[n][1]
    BY <2>1, <2>2
  <2>4. Width(rows[n]) = IF length = 34 THEN 48 ELSE IF length = 33 THEN 16 ELSE length
    BY <2>3 DEF Width
  <2>5. names[n][1] # "RAW" /\ \A r \in revs : WidthOf(names[n][1], r) = Width(rows[n])
    BY <1>1, <2>4 DEF OfWidth
  <2>6. ~(length < 16)
    OBVIOUS
  <2> QED BY <2>3, <2>5, <2>6 DEF RowIsRight
<1> QED BY <1>2, <1>3, <1>4 DEF RowsAreRight, rows

LEMMA ShortsAreRight ==
    ASSUME NEW revs, NEW offset \in Nat, offset >= 4, NEW names, OfWidth(revs, names, 16)
    PROVE  RowsAreRight(Shorts(revs, offset, names))
BY WholeIsRight DEF Shorts

LEMMA LongsAreRight ==
    ASSUME NEW revs, NEW offset \in Nat, offset >= 4, NEW names, OfWidth(revs, names, 32)
    PROVE  RowsAreRight(Longs(revs, offset, names))
BY WholeIsRight DEF Longs

IsOfWidth(revs, type, w) == type # "RAW" /\ \A r \in revs : WidthOf(type, r) = w

\* A value of a few bits in one word.
LEMMA NarrowIsRight ==
    ASSUME NEW revs, NEW type, NEW desc, NEW length \in {1, 4, 5, 8},
           NEW offset \in Nat, offset >= 4, NEW a \in 0 .. 15, NEW b \in 0 .. 15, a <= b,
           NEW w, w = b - a + 1, IsOfWidth(revs, type, w)
    PROVE  RowIsRight(Row(revs, type, desc, length, offset, a .. b))
<1> DEFINE row == Row(revs, type, desc, length, offset, a .. b)
<1>1. /\ row.revs = revs /\ row.type = type /\ row.length = length
      /\ row.offset = offset /\ row.mask = a .. b
  BY DEF Row
<1> HIDE DEF row
<1>2. Width(row) = Cardinality(row.mask)
  BY <1>1 DEF Width
<1>3. Cardinality(a .. b) = b - a + 1
  BY WidthOfMask
<1>4. row.type # "RAW" /\ \A r \in row.revs : Width(row) = WidthOf(row.type, r)
  BY <1>1, <1>2, <1>3 DEF IsOfWidth
<1>5. row.length < 16 => \E c, d \in 0 .. 15 : c <= d /\ row.mask = c .. d
  BY <1>1
<1>6. row.length \in {1, 4, 5, 8, 16, 32, 33, 34}
  BY <1>1
<1>7. RowIsRight(row)
  BY <1>1, <1>4, <1>5, <1>6 DEF RowIsRight
<1> QED BY <1>7 DEF row

LEMMA BytesAreRight ==
    ASSUME NEW revs, NEW offset \in Nat, offset >= 4, NEW names, OfWidth(revs, names, 8)
    PROVE  RowsAreRight(Bytes(revs, offset, names))
<1> DEFINE rows == Bytes(revs, offset, names)
<1>1. Len(names) \in Nat /\ DOMAIN names = 1 .. Len(names)
  BY DEF OfWidth
<1>2. rows = [n \in 1 .. Len(names) |->
                Row(revs, names[n][1], names[n][2], 8, offset + 2 * ((n - 1) \div 2),
                    IF n % 2 = 1 THEN 0 .. 7 ELSE 8 .. 15)]
  BY DEF Bytes
<1> HIDE DEF rows
<1>3. IsSequence(rows)
  <2> DEFINE S == {rows[n] : n \in 1 .. Len(names)}
  <2>1. rows = [n \in 1 .. Len(names) |-> rows[n]]
    BY <1>2
  <2>2. rows \in Seq(S)
    BY <1>1, <2>1
  <2> QED BY <2>2 DEF IsSequence
<1>4. ASSUME NEW n \in 1 .. Len(names) PROVE RowIsRight(rows[n])
  <2> DEFINE at == offset + 2 * ((n - 1) \div 2)
  <2>1. at \in Nat /\ at >= 4
    BY <1>1
  <2>2. names[n][1] # "RAW" /\ \A r \in revs : WidthOf(names[n][1], r) = 8
    BY <1>1 DEF OfWidth
  <2>3. \/ rows[n] = Row(revs, names[n][1], names[n][2], 8, at, 0 .. 7)
        \/ rows[n] = Row(revs, names[n][1], names[n][2], 8, at, 8 .. 15)
    BY <1>2
  <2> HIDE DEF at
  <2> DEFINE type == names[n][1]
             desc == names[n][2]
  <2>4. IsOfWidth(revs, type, 8)
    BY <2>2 DEF IsOfWidth
  <2> HIDE DEF type, desc
  <2>6. RowIsRight(Row(revs, type, desc, 8, at, 0 .. 7))
    <3>1. 8 \in {1, 4, 5, 8} /\ 0 \in 0 .. 15 /\ 7 \in 0 .. 15 /\ 0 <= 7 /\ 8 = 7 - 0 + 1
      OBVIOUS
    <3> QED BY <2>1, <2>4, <3>1, NarrowIsRight
  <2>7. RowIsRight(Row(revs, type, desc, 8, at, 8 .. 15))
    <3>1. 8 \in {1, 4, 5, 8} /\ 8 \in 0 .. 15 /\ 15 \in 0 .. 15 /\ 8 <= 15 /\ 8 = 15 - 8 + 1
      OBVIOUS
    <3> QED BY <2>1, <2>4, <3>1, NarrowIsRight
  <2> QED BY <2>3, <2>6, <2>7 DEF type, desc
<1> QED BY <1>2, <1>3, <1>4 DEF RowsAreRight, rows

LEMMA OneIsRight ==
    ASSUME NEW row, RowIsRight(row)
    PROVE  RowsAreRight(<<row>>)
<1>1. <<row>> \in Seq({row}) /\ DOMAIN <<row>> = {1} /\ <<row>>[1] = row
  OBVIOUS
<1> QED BY <1>1 DEF RowsAreRight, IsSequence

LEMMA IndicesAreRight ==
    ASSUME NEW revs \in {{4, 5}, {8}}, NEW offset \in Nat, offset >= 4
    PROVE  RowsAreRight(Indices(revs, offset))
<1> DEFINE names ==
        <<<<"TPI2G0", "tpi2g0">>, <<"TPI2G1", "tpi2g1">>, <<"TPI5GM0", "tpi5gm0">>,
          <<"TPI5GM1", "tpi5gm1">>, <<"TPI5GL0", "tpi5gl0">>, <<"TPI5GL1", "tpi5gl1">>,
          <<"TPI5GH0", "tpi5gh0">>, <<"TPI5GH1", "tpi5gh1">>>>
<1>1. OfWidth(revs, names, 16)
  BY DEF OfWidth, WidthOf
<1> QED BY <1>1, ShortsAreRight DEF Indices

\* The other rows, one at a time.
LEMMA OneName ==
    ASSUME NEW revs, NEW type, NEW desc, NEW w, IsOfWidth(revs, type, w)
    PROVE  OfWidth(revs, <<<<type, desc>>>>, w)
BY DEF OfWidth, IsOfWidth

LEMMA MacIsRight ==
    ASSUME NEW revs, NEW offset \in Nat, offset >= 4, NEW type, NEW desc, IsOfWidth(revs, type, 48)
    PROVE  RowsAreRight(Mac(revs, offset, type, desc))
<1> DEFINE names == <<<<type, desc>>>>
<1>1. OfWidth(revs, names, IF 34 = 34 THEN 48 ELSE IF 34 = 33 THEN 16 ELSE 34)
  BY OneName
<1> HIDE DEF names
<1>2. RowsAreRight(Whole(revs, 34, offset, 6, names))
  BY <1>1, WholeIsRight
<1> QED BY <1>2 DEF Mac, names

LEMMA CountryIsRight ==
    ASSUME NEW revs, NEW offset \in Nat, offset >= 4, IsOfWidth(revs, "LOC", 16)
    PROVE  RowsAreRight(Country(revs, offset))
<1> DEFINE names == <<<<"LOC", "ccode">>>>
<1>1. OfWidth(revs, names, IF 33 = 34 THEN 48 ELSE IF 33 = 33 THEN 16 ELSE 33)
  BY OneName
<1> HIDE DEF names
<1>2. RowsAreRight(Whole(revs, 33, offset, 2, names))
  BY <1>1, WholeIsRight
<1> QED BY <1>2 DEF Country, names

LEMMA PartIsRight ==
    ASSUME NEW type, NEW desc, NEW length \in {1, 4, 5, 8}, NEW offset \in Nat, offset >= 4,
           NEW a \in 0 .. 15, NEW b \in 0 .. 15, a <= b,
           NEW w, w = b - a + 1, IsOfWidth(1 .. 3, type, w)
    PROVE  RowsAreRight(Part(type, desc, length, offset, a .. b))
<1>1. RowIsRight(Row(1 .. 3, type, desc, length, offset, a .. b))
  BY NarrowIsRight
<1> QED BY <1>1, OneIsRight DEF Part

LEMMA BitIsRight ==
    ASSUME NEW type, NEW desc, NEW offset \in Nat, offset >= 4,
           NEW a \in 0 .. 15, IsOfWidth(1 .. 3, type, 1)
    PROVE  RowsAreRight(Part(type, desc, 1, offset, {a}))
<1>1. {a} = a .. a /\ 1 = a - a + 1 /\ a <= a
  OBVIOUS
<1>2. RowsAreRight(Part(type, desc, 1, offset, a .. a))
  BY <1>1, PartIsRight
<1> QED BY <1>1, <1>2

LEMMA LowAndHighAreRight ==
    ASSUME NEW revs, NEW offset \in Nat, offset >= 4, NEW type, NEW desc, IsOfWidth(revs, type, 8)
    PROVE  RowsAreRight(Low(revs, offset, type, desc)) /\ RowsAreRight(High(revs, offset, type, desc))
<1>1. 8 = 7 - 0 + 1 /\ 8 = 15 - 8 + 1 /\ 0 <= 7 /\ 8 <= 15
  OBVIOUS
<1>2. 0 \in 0 .. 15 /\ 7 \in 0 .. 15 /\ 8 \in 0 .. 15 /\ 15 \in 0 .. 15 /\ 8 \in {1, 4, 5, 8}
  OBVIOUS
<1>3. RowIsRight(Row(revs, type, desc, 8, offset, 0 .. 7))
  BY <1>1, <1>2, NarrowIsRight
<1>4. RowIsRight(Row(revs, type, desc, 8, offset, 8 .. 15))
  BY <1>1, <1>2, NarrowIsRight
<1> QED BY <1>3, <1>4, OneIsRight DEF Low, High

LEMMA BoardIsRight == RowsAreRight(Board)
<1>1. /\ RowsAreRight(Shorts({1, 2, 3, 4, 5, 8}, \h04, <<<<"SUBP", "subp">>, <<"SUBV", "subv">>, <<"PPID", "ppid">>>>))
      /\ RowsAreRight(Shorts({2, 3}, \h38, <<<<"BFLHI", "bflhi">>>>))
      /\ RowsAreRight(Shorts({4}, \h44, <<<<"BFL", "bfl">>, <<"BFLHI", "bflhi">>>>))
      /\ RowsAreRight(Shorts({5}, \h4A, <<<<"BFL", "bfl">>, <<"BFLHI", "bflhi">>>>))
      /\ RowsAreRight(Shorts({8}, \h84, <<<<"BFL", "bfl">>, <<"BFLHI", "bflhi">>>>))
      /\ RowsAreRight(Shorts(1 .. 3, \h72, <<<<"BFL", "bfl">>>>))
      /\ RowsAreRight(Shorts({4, 5}, \h54, <<<<"REGREV", "regrev">>>>))
      /\ RowsAreRight(Shorts({8}, \h94, <<<<"REGREV", "regrev">>>>))
  <2>1. \A revs : OfWidth(revs, <<<<"SUBP", "subp">>, <<"SUBV", "subv">>, <<"PPID", "ppid">>>>, 16)
    BY DEF OfWidth, WidthOf
  <2>2. \A revs : OfWidth(revs, <<<<"BFL", "bfl">>, <<"BFLHI", "bflhi">>>>, 16)
    BY DEF OfWidth, WidthOf
  <2>3. \A revs : /\ OfWidth(revs, <<<<"BFLHI", "bflhi">>>>, 16)
                  /\ OfWidth(revs, <<<<"BFL", "bfl">>>>, 16)
                  /\ OfWidth(revs, <<<<"REGREV", "regrev">>>>, 16)
    BY OneName DEF IsOfWidth, WidthOf
  <2> QED BY <2>1, <2>2, <2>3, ShortsAreRight
<1>2. /\ RowsAreRight(Mac({1, 2}, \h48, "BGMAC", "bgmac")) /\ RowsAreRight(Mac({3}, \h4A, "BGMAC", "bgmac"))
      /\ RowsAreRight(Mac({4}, \h4C, "BGMAC", "macadr")) /\ RowsAreRight(Mac({5}, \h52, "BGMAC", "macadr"))
      /\ RowsAreRight(Mac({8}, \h8C, "BGMAC", "macadr"))
      /\ RowsAreRight(Mac({1, 2}, \h4E, "ETMAC", "etmac")) /\ RowsAreRight(Mac({1, 2}, \h54, "AMAC", "amac"))
  <2>1. \A revs : IsOfWidth(revs, "BGMAC", 48) /\ IsOfWidth(revs, "ETMAC", 48) /\ IsOfWidth(revs, "AMAC", 48)
    BY DEF IsOfWidth, WidthOf
  <2> QED BY <2>1, MacIsRight
<1>3. /\ RowsAreRight(Part("ET0PHY", "et0phy", 5, \h5A, 0 .. 4))
      /\ RowsAreRight(Part("ET1PHY", "et1phy", 5, \h5A, 5 .. 9))
      /\ RowsAreRight(Part("LOC", "loc", 4, \h5C, 8 .. 9))
  <2>1. /\ IsOfWidth(1 .. 3, "ET0PHY", 5) /\ IsOfWidth(1 .. 3, "ET1PHY", 5)
        /\ IsOfWidth(1 .. 3, "LOC", 2)
    BY DEF IsOfWidth, WidthOf
  <2>2. 5 = 4 - 0 + 1 /\ 5 = 9 - 5 + 1 /\ 2 = 9 - 8 + 1
    OBVIOUS
  <2>3. RowsAreRight(Part("ET0PHY", "et0phy", 5, \h5A, 0 .. 4))
    <3>1. 5 \in {1, 4, 5, 8} /\ \h5A \in Nat /\ \h5A >= 4 /\ 0 \in 0 .. 15 /\ 4 \in 0 .. 15 /\ 0 <= 4
      OBVIOUS
    <3> QED BY <2>1, <2>2, <3>1, PartIsRight, ZenonT(30)
  <2>4. RowsAreRight(Part("ET1PHY", "et1phy", 5, \h5A, 5 .. 9))
    <3>1. 5 \in {1, 4, 5, 8} /\ \h5A \in Nat /\ \h5A >= 4 /\ 5 \in 0 .. 15 /\ 9 \in 0 .. 15 /\ 5 <= 9
      OBVIOUS
    <3> QED BY <2>1, <2>2, <3>1, PartIsRight, ZenonT(30)
  <2>5. RowsAreRight(Part("LOC", "loc", 4, \h5C, 8 .. 9))
    <3>1. 4 \in {1, 4, 5, 8} /\ \h5C \in Nat /\ \h5C >= 4 /\ 8 \in 0 .. 15 /\ 9 \in 0 .. 15 /\ 8 <= 9
      OBVIOUS
    <3> QED BY <2>1, <2>2, <3>1, PartIsRight, ZenonT(30)
  <2> QED BY <2>3, <2>4, <2>5
<1>4. /\ RowsAreRight(Part("ET0MDC", "et0mdc", 1, \h5A, {14}))
      /\ RowsAreRight(Part("ET1MDC", "et1mdc", 1, \h5A, {15}))
  <2>1. IsOfWidth(1 .. 3, "ET0MDC", 1) /\ IsOfWidth(1 .. 3, "ET1MDC", 1)
    BY DEF IsOfWidth, WidthOf
  <2> QED BY <2>1, BitIsRight
<1>5. /\ RowsAreRight(Low(1 .. 3, \h5C, "BREV", "brev")) /\ RowsAreRight(Low({4, 5}, \h42, "BREV", "brev"))
      /\ RowsAreRight(Low({8}, \h82, "BREV", "brev"))
  <2>1. \A revs : IsOfWidth(revs, "BREV", 8)
    BY DEF IsOfWidth, WidthOf
  <2> QED BY <2>1, LowAndHighAreRight
<1>6. /\ RowsAreRight(Country({4}, \h52)) /\ RowsAreRight(Country({5}, \h44)) /\ RowsAreRight(Country({8}, \h92))
  <2>1. /\ IsOfWidth({4}, "LOC", 16) /\ IsOfWidth({5}, "LOC", 16) /\ IsOfWidth({8}, "LOC", 16)
    BY DEF IsOfWidth, WidthOf
  <2> QED BY <2>1, CountryIsRight
<1> QED BY <1>1, <1>2, <1>3, <1>4, <1>5, <1>6, Joined DEF Board

LEMMA AntennasAreRight == RowsAreRight(Antennas)
<1> DEFINE gains == <<<<"ANTG0", "antg0">>, <<"ANTG1", "antg1">>,
                      <<"ANTG2", "antg2">>, <<"ANTG3", "antg3">>>>
<1>1. /\ RowsAreRight(Part("ANTBG0", "antbg0", 1, \h5C, {12}))
      /\ RowsAreRight(Part("ANTBG1", "antbg1", 1, \h5C, {13}))
      /\ RowsAreRight(Part("ANTA0", "anta0", 1, \h5C, {14}))
      /\ RowsAreRight(Part("ANTA1", "anta1", 1, \h5C, {15}))
  <2>1. /\ IsOfWidth(1 .. 3, "ANTBG0", 1) /\ IsOfWidth(1 .. 3, "ANTBG1", 1)
        /\ IsOfWidth(1 .. 3, "ANTA0", 1) /\ IsOfWidth(1 .. 3, "ANTA1", 1)
    BY DEF IsOfWidth, WidthOf
  <2> QED BY <2>1, BitIsRight
<1>2. /\ RowsAreRight(Bytes({4, 5}, \h5C, <<<<"ANTBG0", "antbg0">>, <<"ANTA0", "anta0">>>>))
      /\ RowsAreRight(Bytes({8}, \h9C, <<<<"ANTBG0", "antbg0">>, <<"ANTA0", "anta0">>>>))
  <2>1. OfWidth({4, 5}, <<<<"ANTBG0", "antbg0">>, <<"ANTA0", "anta0">>>>, 8)
    BY DEF OfWidth, WidthOf
  <2>2. OfWidth({8}, <<<<"ANTBG0", "antbg0">>, <<"ANTA0", "anta0">>>>, 8)
    BY DEF OfWidth, WidthOf
  <2> QED BY <2>1, <2>2, BytesAreRight
<1>3. RowsAreRight(Bytes(1 .. 3, \h74, <<<<"ANTGBG", "antgbg">>, <<"ANTGA", "antga">>>>))
  <2>1. OfWidth(1 .. 3, <<<<"ANTGBG", "antgbg">>, <<"ANTGA", "antga">>>>, 8)
    BY DEF OfWidth, WidthOf
  <2> QED BY <2>1, BytesAreRight
<1>4. RowsAreRight(Bytes({4, 5}, \h5E, gains)) /\ RowsAreRight(Bytes({8}, \h9E, gains))
  <2>1. \A revs : OfWidth(revs, gains, 8)
    BY DEF OfWidth, WidthOf
  <2> HIDE DEF gains
  <2> QED BY <2>1, BytesAreRight
<1> QED BY <1>1, <1>2, <1>3, <1>4, Joined DEF Antennas

LEMMA LedsAreRight == RowsAreRight(Leds)
<1> DEFINE names == <<<<"LED0", "led0">>, <<"LED1", "led1">>, <<"LED2", "led2">>, <<"LED3", "led3">>>>
<1>1. \A revs : OfWidth(revs, names, 8)
  BY DEF OfWidth, WidthOf
<1>2. Leds = Bytes(1 .. 3, \h64, names) \o Bytes({4}, \h56, names) \o Bytes({5}, \h76, names)
  BY DEF Leds
<1> HIDE DEF names
<1>3. /\ RowsAreRight(Bytes(1 .. 3, \h64, names)) /\ RowsAreRight(Bytes({4}, \h56, names))
      /\ RowsAreRight(Bytes({5}, \h76, names))
  BY <1>1, BytesAreRight
<1> QED BY <1>2, <1>3, Joined

LEMMA PowerIsRight == RowsAreRight(Power)
<1> DEFINE bg == <<<<"MAXPBG", "maxpbg">>, <<"ITSSIBG", "itssibg">>>>
<1>1. RowsAreRight(Bytes({4, 5}, \h80, bg)) /\ RowsAreRight(Bytes({8}, \hC0, bg))
  <2>1. \A revs : OfWidth(revs, bg, 8)
    BY DEF OfWidth, WidthOf
  <2> HIDE DEF bg
  <2> QED BY <2>1, BytesAreRight
<1>2. RowsAreRight(Bytes(1 .. 3, \h68, <<<<"MAXPBG", "maxpbg">>, <<"MAXPA", "maxpa">>>>))
  <2>1. OfWidth(1 .. 3, <<<<"MAXPBG", "maxpbg">>, <<"MAXPA", "maxpa">>>>, 8)
    BY DEF OfWidth, WidthOf
  <2> QED BY <2>1, BytesAreRight
<1>3. RowsAreRight(Bytes(1 .. 3, \h70, <<<<"ITSSIBG", "itssibg">>, <<"ITSSIA", "itssia">>>>))
  <2>1. OfWidth(1 .. 3, <<<<"ITSSIBG", "itssibg">>, <<"ITSSIA", "itssia">>>>, 8)
    BY DEF OfWidth, WidthOf
  <2> QED BY <2>1, BytesAreRight
<1>4. RowsAreRight(Bytes({4, 5}, \h8A, <<<<"MAXPA", "maxpa">>, <<"ITSSIA", "itssia">>>>))
  <2>1. OfWidth({4, 5}, <<<<"MAXPA", "maxpa">>, <<"ITSSIA", "itssia">>>>, 8)
    BY DEF OfWidth, WidthOf
  <2> QED BY <2>1, BytesAreRight
<1>5. /\ RowsAreRight(High({8}, \hCA, "MAXPA", "maxpa")) /\ RowsAreRight(High({8}, \hCA, "ITSSIA", "itssia"))
  <2>1. IsOfWidth({8}, "MAXPA", 8) /\ IsOfWidth({8}, "ITSSIA", 8)
    BY DEF IsOfWidth, WidthOf
  <2> QED BY <2>1, LowAndHighAreRight
<1> QED BY <1>1, <1>2, <1>3, <1>4, <1>5, Joined DEF Power

LEMMA OffsetsAreRight ==
    ASSUME NEW revs, NEW offset \in Nat, offset >= 4
    PROVE  RowsAreRight(Offsets(revs, offset))
<1>1. RowsAreRight(Shorts(revs, offset, <<<<"2CCKPO", "cckpo2g">>>>))
  <2>1. OfWidth(revs, <<<<"2CCKPO", "cckpo2g">>>>, 16)
    BY DEF OfWidth, WidthOf
  <2> QED BY <2>1, ShortsAreRight
<1>2. RowsAreRight(Longs(revs, offset + 2, <<<<"2OFDMPO", "ofdm2g">>, <<"5MPO", "ofdm5gm">>,
                                             <<"5LPO", "ofdm5gl">>, <<"5HPO", "ofdm5gh">>>>))
  <2> DEFINE names == <<<<"2OFDMPO", "ofdm2g">>, <<"5MPO", "ofdm5gm">>,
                        <<"5LPO", "ofdm5gl">>, <<"5HPO", "ofdm5gh">>>>
  <2>1. OfWidth(revs, names, 32)
    BY DEF OfWidth, WidthOf
  <2> HIDE DEF names
  <2>2. offset + 2 \in Nat /\ offset + 2 >= 4
    OBVIOUS
  <2>3. RowsAreRight(Longs(revs, offset + 2, names))
    BY <2>1, <2>2, LongsAreRight
  <2> QED BY <2>3 DEF names
<1>3. RowsAreRight(Whole(revs, 16, offset + 18, 16,
             <<<<"2MCSPO", "mcspo2">>, <<"5MMCSPO", "mcspo5m">>,
               <<"5LMCSPO", "mcspo5l">>, <<"5HMCSPO", "mcspo5h">>, <<"CCDPO", "ccdpo">>>>))
  <2> DEFINE names == <<<<"2MCSPO", "mcspo2">>, <<"5MMCSPO", "mcspo5m">>,
                        <<"5LMCSPO", "mcspo5l">>, <<"5HMCSPO", "mcspo5h">>, <<"CCDPO", "ccdpo">>>>
  <2>1. OfWidth(revs, names, 16)
    BY DEF OfWidth, WidthOf
  <2> HIDE DEF names
  <2>2. /\ offset + 18 \in Nat /\ offset + 18 >= 4 /\ 16 \in Nat
        /\ (IF 16 = 34 THEN 48 ELSE IF 16 = 33 THEN 16 ELSE 16) = 16
    OBVIOUS
  <2>3. RowsAreRight(Whole(revs, 16, offset + 18, 16, names))
    BY <2>1, <2>2, WholeIsRight
  <2> QED BY <2>3 DEF names
<1>4. RowsAreRight(Shorts(revs, offset + 84, <<<<"STBCPO", "stbcpo">>, <<"BW40PO", "bw40po">>,
                                               <<"BWDUPPO", "bwduppo">>>>))
  <2> DEFINE names == <<<<"STBCPO", "stbcpo">>, <<"BW40PO", "bw40po">>, <<"BWDUPPO", "bwduppo">>>>
  <2>1. OfWidth(revs, names, 16)
    BY DEF OfWidth, WidthOf
  <2> HIDE DEF names
  <2>2. offset + 84 \in Nat /\ offset + 84 >= 4
    OBVIOUS
  <2>3. RowsAreRight(Shorts(revs, offset + 84, names))
    BY <2>1, <2>2, ShortsAreRight
  <2> QED BY <2>3 DEF names
<1> QED BY <1>1, <1>2, <1>3, <1>4, Joined DEF Offsets

LEMMA NamesExtended ==
    ASSUME NEW revs, NEW names, NEW w, IsSequence(names), OfWidth(revs, names, w),
           NEW type, NEW desc, IsOfWidth(revs, type, w)
    PROVE  OfWidth(revs, names \o <<<<type, desc>>>>, w)
<1> DEFINE last == <<type, desc>>
           more == Append(names, last)
<1>1. /\ Len(more) = Len(names) + 1 /\ DOMAIN more = 1 .. Len(names) + 1
      /\ \A n \in 1 .. Len(names) : more[n] = names[n]
      /\ more[Len(names) + 1] = last
  BY AppendFacts
<1>2. names \o <<last>> = more
  BY DEF IsSequence
<1>3. Len(names) \in Nat /\ last[1] = type
  BY SequenceFacts
<1> HIDE DEF last, more
<1>4. \A n \in 1 .. Len(names) + 1 : n \in 1 .. Len(names) \/ n = Len(names) + 1
  BY <1>3
<1>5. OfWidth(revs, more, w)
  BY <1>1, <1>3, <1>4 DEF OfWidth, IsOfWidth
<1> QED BY <1>2, <1>5 DEF last

LEMMA AmplifiersAreRight == RowsAreRight(Amplifiers)
<1> DEFINE first == <<<<"PA0B0", "pa0b0">>, <<"PA0B1", "pa0b1">>, <<"PA0B2", "pa0b2">>>>
           second == <<<<"PA1B0", "pa1b0">>, <<"PA1B1", "pa1b1">>, <<"PA1B2", "pa1b2">>>>
           fives == <<<<"5MPA0", "pa5m0">>, <<"5MPA1", "pa5m1">>, <<"5MPA2", "pa5m2">>, <<"5MPA3", "pa5m3">>,
                      <<"5LPA0", "pa5l0">>, <<"5LPA1", "pa5l1">>, <<"5LPA2", "pa5l2">>, <<"5LPA3", "pa5l3">>,
                      <<"5HPA0", "pa5h0">>, <<"5HPA1", "pa5h1">>, <<"5HPA2", "pa5h2">>, <<"5HPA3", "pa5h3">>>>
           eights == <<<<"PA1B0", "pa5m0">>, <<"PA1B1", "pa5m1">>, <<"PA1B2", "pa5m2">>,
                       <<"5MPA0", "pa5l0">>, <<"5MPA1", "pa5l1">>, <<"5MPA2", "pa5l2">>,
                       <<"5LPA0", "pa5h0">>, <<"5LPA1", "pa5h1">>, <<"5LPA2", "pa5h2">>>>
           fourth == first \o <<<<"PA0B3", "pa0b3">>>>
<1>1. RowsAreRight(Shorts(1 .. 3, \h5E, first)) /\ RowsAreRight(Shorts({8}, \hC2, first))
  <2>1. \A revs : OfWidth(revs, first, 16)
    BY DEF OfWidth, WidthOf
  <2> HIDE DEF first
  <2> QED BY <2>1, ShortsAreRight
<1>2. RowsAreRight(Shorts(1 .. 3, \h6A, second))
  <2> DEFINE types == {"PA1B0", "PA1B1", "PA1B2"}
  <2>1. \A n \in DOMAIN second : second[n][1] \in types
    BY SMTT(60)
  <2>2. \A type \in types : IsOfWidth(1 .. 3, type, 16)
    BY SMTT(60) DEF IsOfWidth, WidthOf
  <2> HIDE DEF second, types
  <2>3. OfWidth(1 .. 3, second, 16)
    BY <2>1, <2>2, SMTT(60) DEF OfWidth, IsOfWidth
  <2> QED BY <2>3, ShortsAreRight
<1>3. RowsAreRight(Shorts({4, 5}, \hC2, fourth))
  <2>1. OfWidth({4, 5}, first, 16) /\ IsSequence(first)
    <3>1. first \in Seq({first[1], first[2], first[3]})
      OBVIOUS
    <3>2. IsSequence(first)
      BY <3>1 DEF IsSequence
    <3>3. OfWidth({4, 5}, first, 16)
      BY DEF OfWidth, WidthOf
    <3> QED BY <3>2, <3>3
  <2>2. IsOfWidth({4, 5}, "PA0B3", 16)
    BY DEF IsOfWidth, WidthOf
  <2> HIDE DEF first
  <2>3. OfWidth({4, 5}, fourth, 16)
    BY <2>1, <2>2, NamesExtended
  <2> HIDE DEF fourth
  <2> QED BY <2>3, ShortsAreRight
<1>4. RowsAreRight(Low({4, 5}, \hCC, "PA1B0", "pam5h")) /\ RowsAreRight(High({4, 5}, \hCC, "PA1B0", "pam5l"))
  <2>1. IsOfWidth({4, 5}, "PA1B0", 8)
    BY DEF IsOfWidth, WidthOf
  <2> QED BY <2>1, LowAndHighAreRight
<1>5. RowsAreRight(Shorts({4, 5}, \hCE, fives))
  <2> DEFINE types == {"5MPA0", "5MPA1", "5MPA2", "5MPA3", "5LPA0", "5LPA1", "5LPA2", "5LPA3",
                       "5HPA0", "5HPA1", "5HPA2", "5HPA3"}
  <2>1. \A n \in DOMAIN fives : fives[n][1] \in types
    BY SMTT(60)
  <2>2. \A type \in types : IsOfWidth({4, 5}, type, 16)
    BY SMTT(60) DEF IsOfWidth, WidthOf
  <2> HIDE DEF fives, types
  <2>3. OfWidth({4, 5}, fives, 16)
    BY <2>1, <2>2, SMTT(60) DEF OfWidth, IsOfWidth
  <2> QED BY <2>3, ShortsAreRight
<1>6. RowsAreRight(Shorts({8}, \hCC, eights))
  <2>1. OfWidth({8}, eights, 16)
    BY DEF OfWidth, WidthOf
  <2> HIDE DEF eights
  <2> QED BY <2>1, ShortsAreRight
<1>7. Amplifiers =
        Shorts(1 .. 3, \h5E, first) \o Shorts(1 .. 3, \h6A, second) \o Shorts({4, 5}, \hC2, fourth)
        \o Low({4, 5}, \hCC, "PA1B0", "pam5h") \o High({4, 5}, \hCC, "PA1B0", "pam5l")
        \o Shorts({4, 5}, \hCE, fives) \o Shorts({8}, \hC2, first) \o Shorts({8}, \hCC, eights)
  BY DEF Amplifiers
<1> HIDE DEF first, second, fourth, fives, eights
<1>8. RowsAreRight(Shorts(1 .. 3, \h5E, first) \o Shorts(1 .. 3, \h6A, second)
                     \o Shorts({4, 5}, \hC2, fourth))
  BY <1>1, <1>2, <1>3, Joined
<1> QED BY <1>1, <1>4, <1>5, <1>6, <1>7, <1>8, Joined

LEMMA TableIsRight == RowsAreRight(sprom_table)
<1>1. /\ RowsAreRight(Indices({8}, \h62)) /\ RowsAreRight(Indices({4, 5}, \h62))
      /\ RowsAreRight(Offsets({8}, \h140)) /\ RowsAreRight(Offsets({4, 5}, \h138))
  BY IndicesAreRight, OffsetsAreRight
<1> QED BY <1>1, BoardIsRight, AntennasAreRight, LedsAreRight, PowerIsRight, AmplifiersAreRight,
           Joined DEF sprom_table
-----------------------------------------------------------------------------
\* Fields.
LEMMA Shape ==
    ASSUME NEW row, RowIsRight(row)
    PROVE  /\ Width(row) \in Nat \ {0}
           /\ 0 .. Width(row) - 1 \subseteq Reach(row)
           /\ \A k \in Reach(row) : Place(row, k) \in Nat /\ Place(row, k) >= 32
           /\ \A k, l \in Reach(row) : Place(row, k) = Place(row, l) => k = l
<1>1. /\ row.offset \in Nat /\ row.offset >= 4
      /\ row.length \in {1, 4, 5, 8, 16, 32, 33, 34}
      /\ row.length < 16 => \E a, b \in 0 .. 15 : a <= b /\ row.mask = a .. b
  BY DEF RowIsRight
<1>2. CASE row.length < 16
  <2>1. PICK a \in 0 .. 15, b \in 0 .. 15 : a <= b /\ row.mask = a .. b
    BY <1>1, <1>2
  <2>2. Lowest(row.mask) = a
    <3>1. a \in a .. b /\ \A m \in a .. b : a <= m
      BY <2>1
    <3>2. \A n \in a .. b : (\A m \in a .. b : n <= m) => n = a
      BY <3>1
    <3> QED BY <2>1, <3>1, <3>2 DEF Lowest, First
  <2>3. Width(row) = b - a + 1
    <3>1. row.length \notin {16, 32, 33, 34}
      BY <1>2
    <3>2. Width(row) = Cardinality(row.mask)
      BY <3>1 DEF Width
    <3> QED BY <2>1, <3>2, WidthOfMask
  <2>4. Reach(row) = 0 .. 15 - a /\ \A k : Place(row, k) = 8 * row.offset + (a + k)
    BY <1>2, <2>2 DEF Reach, Place
  <2>5. Width(row) \in Nat \ {0} /\ 0 .. Width(row) - 1 \subseteq Reach(row)
    <3>1. b - a + 1 \in Nat \ {0} /\ 0 .. (b - a + 1) - 1 \subseteq 0 .. 15 - a
      BY <2>1
    <3> QED BY <3>1, <2>3, <2>4
  <2>6. \A k \in 0 .. 15 - a : 8 * row.offset + (a + k) \in Nat /\ 8 * row.offset + (a + k) >= 32
    BY <1>1, <2>1
  <2>7. \A k, l \in 0 .. 15 - a : 8 * row.offset + (a + k) = 8 * row.offset + (a + l) => k = l
    BY <1>1, <2>1
  <2>8. \A k \in Reach(row) : k \in 0 .. 15 - a
    BY <2>4
  <2>9. \A k \in Reach(row) : Place(row, k) \in Nat /\ Place(row, k) >= 32
    BY <2>4, <2>6, <2>8
  <2>10. \A k, l \in Reach(row) : Place(row, k) = Place(row, l) => k = l
    BY <2>4, <2>7, <2>8
  <2> QED BY <2>5, <2>9, <2>10
<1>3. CASE row.length >= 16
  <2>1. Reach(row) = 0 .. Width(row) - 1 /\ Width(row) \in {16, 32, 48}
    BY <1>1, <1>3 DEF Reach, Width
  <2>2. CASE row.length \in {16, 32}
    <3>1. \A k : Place(row, k) = 8 * row.offset + k
      BY <1>3, <2>2 DEF Place
    <3> QED BY <1>1, <2>1, <3>1
  <2>3. CASE row.length \in {33, 34}
    <3> DEFINE other(k) == IF k % 16 < 8 THEN k + 8 ELSE k - 8
    <3>1. \A k : Place(row, k) = 8 * row.offset + other(k)
      BY <1>3, <2>3 DEF Place
    <3>2. \A k \in Nat : other(k) \in Nat
      OBVIOUS
    <3>3. \A k \in Nat : k % 16 = (other(k) % 16) - 8 \/ k % 16 = (other(k) % 16) + 8
      OBVIOUS
    <3>4. \A k, l \in Nat : other(k) = other(l) => k = l
      OBVIOUS
    <3>5. \A k \in Reach(row) : k \in Nat
      BY <2>1
    <3>6. Width(row) \in Nat \ {0} /\ 0 .. Width(row) - 1 \subseteq Reach(row)
      BY <2>1
    <3> HIDE DEF other
    <3>7. \A k \in Reach(row) : Place(row, k) \in Nat /\ Place(row, k) >= 32
      BY <1>1, <3>1, <3>2, <3>5
    <3>8. \A k, l \in Reach(row) : Place(row, k) = Place(row, l) => k = l
      <4> SUFFICES ASSUME NEW k \in Reach(row), NEW l \in Reach(row), Place(row, k) = Place(row, l)
                   PROVE  k = l
        OBVIOUS
      <4>1. other(k) \in Nat /\ other(l) \in Nat /\ 8 * row.offset \in Nat
        BY <1>1, <3>2, <3>5
      <4>2. 8 * row.offset + other(k) = 8 * row.offset + other(l)
        BY <3>1
      <4>3. other(k) = other(l)
        BY <4>1, <4>2
      <4> QED BY <4>3, <3>4, <3>5
    <3> QED BY <3>6, <3>7, <3>8
  <2> QED BY <1>1, <1>3, <2>2, <2>3
<1> QED BY <1>1, <1>2, <1>3
-----------------------------------------------------------------------------
\* A value that fits is found where it was put, and the other positions of the
\* image stay as they were (modify_value, display_value).
LEMMA PlacesOfValue ==
    ASSUME NEW row, RowIsRight(row), NEW v, Fits(row, v)
    PROVE  /\ {Place(row, k) : k \in v \cap Reach(row)} \subseteq Own(row)
           /\ \A k \in 0 .. Width(row) - 1 :
                 Place(row, k) \in {Place(row, l) : l \in v \cap Reach(row)} <=> k \in v
<1> DEFINE W == 0 .. Width(row) - 1
           R == Reach(row)
           place(k) == Place(row, k)
<1>1. W \subseteq R /\ \A k, l \in R : place(k) = place(l) => k = l
  BY Shape
<1>2. v \subseteq W
  BY DEF Fits
<1>3. Own(row) = {place(k) : k \in W}
  BY DEF Own
<1> HIDE DEF W, R, place
<1>4. {place(k) : k \in v \cap R} \subseteq {place(k) : k \in W}
  BY <1>2
<1>5. \A k \in W : place(k) \in {place(l) : l \in v \cap R} <=> k \in v
  BY <1>1, <1>2
<1> QED BY <1>3, <1>4, <1>5 DEF W, R, place

LEMMA PutGet ==
    ASSUME NEW row, RowIsRight(row), NEW v, Fits(row, v), NEW b
    PROVE  Get(Put(b, row, v), row) = v
<1> DEFINE W == 0 .. Width(row) - 1
           ones == {Place(row, k) : k \in v \cap Reach(row)}
<1>1. v \subseteq W /\ \A k \in W : Place(row, k) \in ones <=> k \in v
  BY PlacesOfValue DEF Fits
<1>2. \A k \in W : Place(row, k) \in Own(row)
  BY DEF Own
<1>3. Put(b, row, v) = (b \ Own(row)) \cup ones
  BY DEF Put
<1> HIDE DEF ones
<1>4. Get(Put(b, row, v), row) = {k \in W : Place(row, k) \in (b \ Own(row)) \cup ones}
  BY <1>3 DEF Get
<1> HIDE DEF W
<1> QED BY <1>1, <1>2, <1>4

LEMMA PutKeeps ==
    ASSUME NEW row, RowIsRight(row), NEW v, Fits(row, v), NEW b, NEW p, p \notin Own(row)
    PROVE  p \in Put(b, row, v) <=> p \in b
BY PlacesOfValue DEF Put

\* A value depends on its own positions, which lie behind the first two words.
LEMMA OwnPlaces ==
    ASSUME NEW row, RowIsRight(row), NEW p \in Own(row)
    PROVE  p \in Nat /\ p >= 32
<1>1. PICK k \in 0 .. Width(row) - 1 : p = Place(row, k)
  BY DEF Own
<1>2. k \in Reach(row)
  BY Shape
<1> QED BY <1>1, <1>2, Shape

LEMMA SameValue ==
    ASSUME NEW row, NEW b, NEW other, \A p \in Own(row) : p \in b <=> p \in other
    PROVE  Get(b, row) = Get(other, row)
<1>1. \A k \in 0 .. Width(row) - 1 : Place(row, k) \in Own(row)
  BY DEF Own
<1> QED BY <1>1 DEF Get
-----------------------------------------------------------------------------
\* The rows a name or a type stands for in a revision.
LEMMA FirstFacts ==
    ASSUME NEW S, S \subseteq Nat, S # {}
    PROVE  First(S) \in S
BY LeastNatural DEF First

LEMMA RowsFacts ==
    ASSUME NEW r, NEW t \in RowsOf(r)
    PROVE  /\ t \in Nat /\ t \in DOMAIN sprom_table
           /\ r \in sprom_table[t].revs
           /\ RowIsRight(sprom_table[t])
           /\ sprom_table[t].type # "RAW"
           /\ t \in Typed(r, sprom_table[t].type)
<1>1. t \in DOMAIN sprom_table /\ r \in sprom_table[t].revs
  BY DEF RowsOf
<1>2. RowIsRight(sprom_table[t])
  BY <1>1, TableIsRight DEF RowsAreRight
<1>3. t \in Nat
  BY <1>1, TableIsRight, SequenceFacts DEF RowsAreRight
<1>4. sprom_table[t].type # "RAW"
  BY <1>2 DEF RowIsRight
<1>5. t \in Typed(r, sprom_table[t].type)
  BY DEF Typed
<1> QED BY <1>1, <1>2, <1>3, <1>4, <1>5

LEMMA NamedFacts ==
    ASSUME NEW r, NEW desc, Named(r, desc) # {}
    PROVE  \E t \in RowsOf(r) : RowNamed(r, desc) = sprom_table[t]
<1>1. Named(r, desc) \subseteq RowsOf(r)
  BY DEF Named
<1>2. RowsOf(r) \subseteq Nat
  BY RowsFacts
<1>3. First(Named(r, desc)) \in Named(r, desc)
  BY <1>1, <1>2, FirstFacts
<1> QED BY <1>1, <1>3 DEF RowNamed

\* Rows of one type are as wide as each other in a revision.
LEMMA TypedFacts ==
    ASSUME NEW r, NEW t \in RowsOf(r)
    PROVE  \E u \in Typed(r, sprom_table[t].type) :
              /\ RowTyped(r, sprom_table[t].type) = sprom_table[u]
              /\ u \in RowsOf(r)
              /\ RowIsRight(sprom_table[u])
              /\ Width(sprom_table[u]) = Width(sprom_table[t])
<1> DEFINE type == sprom_table[t].type
           u == First(Typed(r, type))
<1>1. Typed(r, type) \subseteq RowsOf(r) /\ Typed(r, type) # {}
  BY RowsFacts DEF Typed
<1>2. RowsOf(r) \subseteq Nat
  BY RowsFacts
<1>3. u \in Typed(r, type)
  BY <1>1, <1>2, FirstFacts
<1>4. u \in RowsOf(r) /\ sprom_table[u].type = type
  BY <1>3 DEF Typed
<1>5. \A w \in RowsOf(r) : Width(sprom_table[w]) = WidthOf(sprom_table[w].type, r)
  BY RowsFacts DEF RowIsRight
<1>6. RowTyped(r, type) = sprom_table[u]
  BY DEF RowTyped
<1> HIDE DEF u
<1>7. Width(sprom_table[u]) = Width(sprom_table[t])
  BY <1>4, <1>5
<1>8. RowIsRight(sprom_table[u])
  BY <1>4, RowsFacts
<1> QED BY <1>3, <1>4, <1>6, <1>7, <1>8
-----------------------------------------------------------------------------
\* How parameters come from the command line: as are the options, r is the
\* revision, and vs the parameters that the options before hi have added.
SetsValue(option) == option.o = "value" /\ option.text.k # "get"
AsksValue(option) == option.o = "value" /\ option.text.k = "get"

OfItsType(p, r, option) == p.type = RowNamed(r, option.desc).type

ComesFrom(p, r, option) ==
    SetsValue(option) /\ OfItsType(p, r, option) /\ p.v = option.text.v

SetBetween(as, r, p, lo, hi) ==
    \E m \in DOMAIN as : lo < m /\ m < hi /\ ComesFrom(p, r, as[m])

\* What is set behind k comes from options behind lo, or is raw.
SetLater(as, r, vs, k, lo, hi) ==
    \A l \in DOMAIN vs :
        (l > k /\ vs[l].set) => vs[l].type = "RAW" \/ SetBetween(as, r, vs[l], lo, hi)

\* The parameter at k is the one of the option at n.
IsParameterOf(as, r, vs, k, n, hi) ==
    vs[k].set /\ ComesFrom(vs[k], r, as[n]) /\ SetLater(as, r, vs, k, n, hi)

ParametersSet(as, r, vs, hi) ==
    /\ \A n \in DOMAIN as : (n < hi /\ as[n].o = "value") => Named(r, as[n].desc) # {}
    /\ SetLater(as, r, vs, 0, 0, hi)
    /\ \A n \in DOMAIN as :
          (n < hi /\ SetsValue(as[n])) => \E k \in DOMAIN vs : IsParameterOf(as, r, vs, k, n, hi)

Asks(p) == ~p.set /\ p.type # "RAW"

AskedFor(vs, type) == \E k \in DOMAIN vs : Asks(vs[k]) /\ vs[k].type = type

AllAskedFor(r, vs) == \A t \in RowsOf(r) : AskedFor(vs, sprom_table[t].type)

AskedBy(p, r, option) == AsksValue(option) /\ OfItsType(p, r, option)

ParametersAsked(as, r, vs, hi) ==
    /\ \A n \in DOMAIN as :
          (n < hi /\ AsksValue(as[n])) => AskedFor(vs, RowNamed(r, as[n].desc).type)
    /\ \A n \in DOMAIN as : (n < hi /\ as[n].o = "print-all") => AllAskedFor(r, vs)
    /\ \A k \in DOMAIN vs : Asks(vs[k]) =>
          \E n \in DOMAIN as : n < hi /\ (as[n].o = "print-all" \/ AskedBy(vs[k], r, as[n]))

\* What the option at n adds.
AddsSet(option, r, new) ==
    /\ option.o = "value" => Named(r, option.desc) # {}
    /\ \A k \in DOMAIN new : new[k].set => new[k].type = "RAW" \/ ComesFrom(new[k], r, option)
    /\ SetsValue(option) => Len(new) = 1 /\ new[1].set /\ ComesFrom(new[1], r, option)

AddsAsked(option, r, new) ==
    /\ AsksValue(option) => AskedFor(new, RowNamed(r, option.desc).type)
    /\ option.o = "print-all" => AllAskedFor(r, new)
    /\ \A k \in DOMAIN new : Asks(new[k]) => option.o = "print-all" \/ AskedBy(new[k], r, option)

\* The entries of s \o t are those of s and behind them those of t.
EntriesOf(u, s, t) ==
    /\ DOMAIN s \subseteq DOMAIN u /\ \A k \in DOMAIN s : u[k] = s[k]
    /\ \A k \in DOMAIN t : Len(s) + k \in DOMAIN u /\ u[Len(s) + k] = t[k]
    /\ \A k \in DOMAIN u : k \in DOMAIN s \/ \E l \in DOMAIN t : k = Len(s) + l

LEMMA ConcatEntries ==
    ASSUME NEW s, IsSequence(s), NEW t, IsSequence(t)
    PROVE  EntriesOf(s \o t, s, t) /\ IsSequence(s \o t)
<1>1. PICK S : s \in Seq(S)
  BY DEF IsSequence
<1>2. PICK T : t \in Seq(T)
  BY DEF IsSequence
<1>3. s \in Seq(S \cup T) /\ t \in Seq(S \cup T)
  BY <1>1, <1>2
<1>4. /\ Len(s) \in Nat /\ Len(t) \in Nat
      /\ DOMAIN s = 1 .. Len(s) /\ DOMAIN t = 1 .. Len(t)
      /\ DOMAIN (s \o t) = 1 .. Len(s) + Len(t)
  BY <1>3
<1>5. \A k \in DOMAIN s : k \in DOMAIN (s \o t) /\ (s \o t)[k] = s[k]
  BY <1>3, <1>4
<1>6. \A k \in DOMAIN t : Len(s) + k \in DOMAIN (s \o t) /\ (s \o t)[Len(s) + k] = t[k]
  BY <1>3, <1>4
<1>7. ASSUME NEW k \in DOMAIN (s \o t), k \notin DOMAIN s
      PROVE  \E l \in DOMAIN t : k = Len(s) + l
  <2>1. k - Len(s) \in DOMAIN t /\ k = Len(s) + (k - Len(s))
    BY <1>4, <1>7
  <2> QED BY <2>1
<1>8. IsSequence(s \o t)
  BY ConcatFacts
<1> QED BY <1>5, <1>6, <1>7, <1>8 DEF EntriesOf

LEMMA UpToNext ==
    ASSUME NEW as, DOMAIN as \subseteq Nat \ {0}, NEW hi \in DOMAIN as, NEW n \in DOMAIN as
    PROVE  n \in Nat /\ hi \in Nat /\ 0 < hi /\ hi < hi + 1 /\ (n < hi + 1 <=> n < hi \/ n = hi)
<1>1. n \in Nat /\ hi \in Nat /\ hi # 0
  OBVIOUS
<1> QED BY ONLY <1>1

LEMMA SetBetweenGrows ==
    ASSUME NEW as, DOMAIN as \subseteq Nat \ {0}, NEW r, NEW p, NEW lo \in Nat, NEW hi \in Nat,
           SetBetween(as, r, p, lo, hi)
    PROVE  SetBetween(as, r, p, lo, hi + 1)
<1>1. PICK m \in DOMAIN as : lo < m /\ m < hi /\ ComesFrom(p, r, as[m])
  BY DEF SetBetween
<1>2. m \in Nat
  OBVIOUS
<1>3. m < hi + 1
  BY <1>1, <1>2
<1> QED BY <1>1, <1>3 DEF SetBetween

LEMMA SetGrows ==
    ASSUME NEW as, DOMAIN as \subseteq Nat \ {0}, NEW r, NEW vs, IsSequence(vs), NEW hi \in DOMAIN as,
           NEW new, IsSequence(new), ParametersSet(as, r, vs, hi), AddsSet(as[hi], r, new)
    PROVE  ParametersSet(as, r, vs \o new, hi + 1)
<1> DEFINE all == vs \o new
<1>1. EntriesOf(all, vs, new)
  BY ConcatEntries
<1>2. /\ Len(vs) \in Nat /\ Len(new) \in Nat
      /\ DOMAIN vs = 1 .. Len(vs) /\ DOMAIN new = 1 .. Len(new)
  BY SequenceFacts
<1>0. /\ hi \in Nat /\ 0 < hi /\ hi < hi + 1
      /\ \A n \in DOMAIN as : n \in Nat /\ (n < hi + 1 <=> n < hi \/ n = hi)
  BY UpToNext
<1> HIDE DEF all
<1>3. ASSUME NEW n \in DOMAIN as, n < hi + 1, as[n].o = "value" PROVE Named(r, as[n].desc) # {}
  <2>1. n < hi \/ n = hi
    BY <1>0, <1>3, Zenon
  <2> QED BY <1>3, <2>1 DEF ParametersSet, AddsSet
<1>4. ASSUME NEW k \in Nat, NEW lo \in Nat, lo < hi, SetLater(as, r, vs, k, lo, hi)
      PROVE  SetLater(as, r, all, k, lo, hi + 1)
  <2> SUFFICES ASSUME NEW l \in DOMAIN all, l > k, all[l].set, all[l].type # "RAW"
               PROVE  SetBetween(as, r, all[l], lo, hi + 1)
    BY DEF SetLater
  <2>1. CASE l \in DOMAIN vs
    <3>1. all[l] = vs[l]
      BY <1>1, <2>1 DEF EntriesOf
    <3>2. SetBetween(as, r, vs[l], lo, hi)
      BY <1>4, <2>1, <3>1 DEF SetLater
    <3> QED BY <1>0, <3>1, <3>2, SetBetweenGrows
  <2>2. CASE l \notin DOMAIN vs
    <3>1. PICK m \in DOMAIN new : all[l] = new[m]
      BY <1>1, <2>2 DEF EntriesOf
    <3>2. ComesFrom(all[l], r, as[hi])
      BY <3>1 DEF AddsSet
    <3> QED BY <1>0, <1>4, <3>2, Zenon DEF SetBetween
  <2> QED BY <2>1, <2>2
<1>5. SetLater(as, r, all, 0, 0, hi + 1)
  BY <1>0, <1>4, Zenon DEF ParametersSet
<1>6. ASSUME NEW n \in DOMAIN as, n < hi + 1, SetsValue(as[n])
      PROVE  \E k \in DOMAIN all : IsParameterOf(as, r, all, k, n, hi + 1)
  <2>1. CASE n < hi
    <3>1. PICK k \in DOMAIN vs : IsParameterOf(as, r, vs, k, n, hi)
      BY <1>6, <2>1 DEF ParametersSet
    <3>2. k \in DOMAIN all /\ all[k] = vs[k]
      BY <1>1 DEF EntriesOf
    <3>21. k \in Nat
      BY <1>2
    <3>22. n \in Nat
      BY <1>0
    <3>3. SetLater(as, r, all, k, n, hi + 1)
      BY <1>4, <2>1, <3>1, <3>21, <3>22 DEF IsParameterOf
    <3> QED BY <3>1, <3>2, <3>3 DEF IsParameterOf
  <2>2. CASE n = hi
    <3> DEFINE k == Len(vs) + 1
    <3>1. 1 \in DOMAIN new /\ Len(new) = 1 /\ new[1].set /\ ComesFrom(new[1], r, as[n])
      <4>1. Len(new) = 1 /\ new[1].set /\ ComesFrom(new[1], r, as[hi])
        BY <1>6, <2>2 DEF AddsSet
      <4> QED BY <1>2, <2>2, <4>1
    <3>2. k \in DOMAIN all /\ all[k] = new[1]
      BY <1>1, <3>1 DEF EntriesOf
    <3>3. \A l \in DOMAIN all : ~(l > k)
      BY <1>1, <1>2, <3>1 DEF EntriesOf
    <3> HIDE DEF k
    <3> QED BY <3>1, <3>2, <3>3 DEF IsParameterOf, SetLater
  <2> QED BY <1>0, <1>6, <2>1, <2>2, Zenon
<1> QED BY <1>3, <1>5, <1>6 DEF ParametersSet, all

LEMMA AskedGrows ==
    ASSUME NEW as, DOMAIN as \subseteq Nat \ {0}, NEW r, NEW vs, IsSequence(vs), NEW hi \in DOMAIN as,
           NEW new, IsSequence(new), ParametersAsked(as, r, vs, hi), AddsAsked(as[hi], r, new)
    PROVE  ParametersAsked(as, r, vs \o new, hi + 1)
<1> DEFINE all == vs \o new
<1>1. EntriesOf(all, vs, new)
  BY ConcatEntries
<1>0. \A n \in DOMAIN as : n < hi + 1 <=> n < hi \/ n = hi
  BY UpToNext
<1>2. hi \in DOMAIN as /\ hi < hi + 1
  BY UpToNext
<1> HIDE DEF all
<1>3. ASSUME NEW type, AskedFor(vs, type) \/ AskedFor(new, type) PROVE AskedFor(all, type)
  BY <1>1, <1>3 DEF EntriesOf, AskedFor
<1>4. ASSUME AllAskedFor(r, vs) \/ AllAskedFor(r, new) PROVE AllAskedFor(r, all)
  BY <1>3, <1>4 DEF AllAskedFor
<1>5. ASSUME NEW n \in DOMAIN as, n < hi + 1, AsksValue(as[n])
      PROVE  AskedFor(all, RowNamed(r, as[n].desc).type)
  BY <1>0, <1>3, <1>5 DEF ParametersAsked, AddsAsked
<1>6. ASSUME NEW n \in DOMAIN as, n < hi + 1, as[n].o = "print-all" PROVE AllAskedFor(r, all)
  BY <1>0, <1>4, <1>6 DEF ParametersAsked, AddsAsked
<1>7. ASSUME NEW k \in DOMAIN all, Asks(all[k])
      PROVE  \E n \in DOMAIN as : n < hi + 1 /\ (as[n].o = "print-all" \/ AskedBy(all[k], r, as[n]))
  <2>1. CASE k \in DOMAIN vs
    <3>1. all[k] = vs[k]
      BY <1>1, <2>1 DEF EntriesOf
    <3>2. PICK n \in DOMAIN as : n < hi /\ (as[n].o = "print-all" \/ AskedBy(all[k], r, as[n]))
      BY <1>7, <2>1, <3>1 DEF ParametersAsked
    <3> QED BY <1>0, <3>2
  <2>2. CASE k \notin DOMAIN vs
    <3>1. PICK m \in DOMAIN new : all[k] = new[m]
      BY <1>1, <2>2 DEF EntriesOf
    <3>2. as[hi].o = "print-all" \/ AskedBy(all[k], r, as[hi])
      BY <1>7, <3>1 DEF AddsAsked
    <3> QED BY <1>2, <3>2
  <2> QED BY <2>1, <2>2
<1> QED BY <1>5, <1>6, <1>7 DEF ParametersAsked, all

\* generate_printall asks for every value of the revision.
LEMMA AllRowsFacts ==
    /\ IsSequence(AllRows)
    /\ \A k \in DOMAIN AllRows : AllRows[k].set = FALSE
    /\ AllAskedFor(rev, AllRows)
<1> DEFINE N == Len(sprom_table)
           S == {Vparm(sprom_table[n].type, FALSE, {}) : n \in DOMAIN sprom_table}
           seqs == [n \in DOMAIN sprom_table |-> Questions(sprom_table[n])]
           G == [n \in Nat |-> [x \in Nat |-> IF n \in 2 .. N THEN x + Len(seqs[n - 1]) ELSE x]]
<1>1. N \in Nat /\ DOMAIN sprom_table = 1 .. N
  BY TableIsRight, SequenceFacts DEF RowsAreRight
<1>2. \A n \in DOMAIN sprom_table : Questions(sprom_table[n]) \in Seq(S)
  <2> SUFFICES ASSUME NEW n \in DOMAIN sprom_table PROVE Questions(sprom_table[n]) \in Seq(S)
    OBVIOUS
  <2> DEFINE p == Vparm(sprom_table[n].type, FALSE, {})
  <2>1. p \in S
    OBVIOUS
  <2> HIDE DEF S, p
  <2>2. <<p>> \in Seq(S) /\ <<>> \in Seq(S)
    BY <2>1
  <2> QED BY <2>2 DEF Questions, p
<1>3. seqs \in Seq(Seq(S)) /\ Len(seqs) = N
  <2> HIDE DEF S
  <2>1. seqs \in [1 .. N -> Seq(S)]
    BY <1>1, <1>2
  <2> HIDE DEF seqs
  <2> QED BY <1>1, <2>1
<1>4. AllRows = FlattenSeq(seqs)
  BY DEF AllRows
<1>5. AllRows \in Seq(S)
  <2> HIDE DEF S, seqs
  <2> QED BY <1>3, <1>4, FlattenType
<1>6. \A p \in S : p.set = FALSE /\ p.type # "RAW"
  <2> SUFFICES ASSUME NEW n \in DOMAIN sprom_table
               PROVE  LET p == Vparm(sprom_table[n].type, FALSE, {}) IN p.set = FALSE /\ p.type # "RAW"
    OBVIOUS
  <2>1. sprom_table[n].type # "RAW"
    BY TableIsRight DEF RowsAreRight, RowIsRight
  <2> QED BY <2>1 DEF Vparm
<1>7. \A k \in DOMAIN AllRows : AllRows[k].set = FALSE /\ AllRows[k].type # "RAW"
  <2> HIDE DEF S
  <2>1. \A k \in DOMAIN AllRows : AllRows[k] \in S
    BY <1>5
  <2> QED BY <1>6, <2>1
<1>8. PICK at \in [1 .. N -> Nat] :
         \A n \in 1 .. N : at[n] = IF n = 1 THEN 0 ELSE at[n - 1] + Len(seqs[n - 1])
  <2>1. \A n \in 1 .. N : Len(seqs[n]) \in Nat
    <3> HIDE DEF S, seqs
    <3> QED BY <1>3
  <2>2. G \in [Nat -> [Nat -> Nat]]
    <3> HIDE DEF seqs
    <3>1. \A n \in 2 .. N : n - 1 \in 1 .. N
      BY <1>1
    <3>2. \A n \in 2 .. N : Len(seqs[n - 1]) \in Nat
      BY <2>1, <3>1
    <3> QED BY <3>2
  <2>3. Recursion(Nat, 0, G, N) # {}
    <3> HIDE DEF G
    <3> QED BY <1>1, <2>2, RecursionExists
  <2>4. PICK at \in [1 .. N -> Nat] :
           \A n \in 1 .. N : at[n] = IF n = 1 THEN 0 ELSE G[n][at[n - 1]]
    <3> HIDE DEF G
    <3> QED BY <2>3 DEF Recursion
  <2>5. ASSUME NEW n \in 1 .. N, n # 1 PROVE G[n][at[n - 1]] = at[n - 1] + Len(seqs[n - 1])
    <3> HIDE DEF seqs
    <3>1. n \in 2 .. N /\ n - 1 \in 1 .. N /\ n \in Nat
      BY <1>1, <2>5
    <3>2. at[n - 1] \in Nat
      BY <2>4, <3>1
    <3> QED BY <3>1, <3>2
  <2> HIDE DEF G, seqs
  <2> QED BY <2>4, <2>5
<1>9. ASSUME NEW t \in RowsOf(rev) PROVE AskedFor(AllRows, sprom_table[t].type)
  <2>1. t \in 1 .. N /\ rev \in sprom_table[t].revs
    BY <1>1, RowsFacts
  <2>2. seqs[t] = <<Vparm(sprom_table[t].type, FALSE, {})>>
    BY <1>1, <2>1 DEF Questions
  <2>3. Len(seqs[t]) = 1 /\ seqs[t][1] = Vparm(sprom_table[t].type, FALSE, {})
    <3> HIDE DEF seqs
    <3> QED BY <2>2
  <2>4. /\ at[t] + Len(seqs[t]) <= Len(FlattenSeq(seqs))
        /\ \A j \in 1 .. Len(seqs[t]) : FlattenSeq(seqs)[at[t] + j] = seqs[t][j]
    <3> HIDE DEF S, seqs
    <3>1. /\ at \in [1 .. Len(seqs) -> Nat] /\ t \in 1 .. Len(seqs)
          /\ \A n \in 1 .. Len(seqs) : at[n] = IF n = 1 THEN 0 ELSE at[n - 1] + Len(seqs[n - 1])
      BY <1>3, <1>8, <2>1
    <3> HIDE DEF N
    <3> QED BY <1>3, <3>1, FlattenFacts
  <2>5. at[t] \in Nat /\ Len(AllRows) \in Nat /\ DOMAIN AllRows = 1 .. Len(AllRows)
    <3> HIDE DEF S
    <3> QED BY <1>5, <1>8, <2>1
  <2>6. at[t] + 1 \in DOMAIN AllRows /\ AllRows[at[t] + 1] = Vparm(sprom_table[t].type, FALSE, {})
    <3> HIDE DEF S, seqs
    <3>1. 1 \in 1 .. Len(seqs[t]) /\ at[t] + 1 <= Len(AllRows)
      BY <1>4, <2>3, <2>4
    <3>2. FlattenSeq(seqs)[at[t] + 1] = seqs[t][1]
      BY <2>4, <3>1
    <3>3. at[t] + 1 \in DOMAIN AllRows
      BY <2>5, <3>1
    <3> QED BY <1>4, <2>3, <3>2, <3>3
  <2>7. AllRows[at[t] + 1].type = sprom_table[t].type
    BY <2>6 DEF Vparm
  <2> QED BY <1>7, <2>6, <2>7 DEF AskedFor, Asks
<1>10. IsSequence(AllRows)
  <2> HIDE DEF S
  <2> QED BY <1>5 DEF IsSequence
<1> QED BY <1>7, <1>9, <1>10 DEF AllAskedFor

\* The parameters of an option are of its kind, and as many as it needs.
LEMMA OptionAdds ==
    ASSUME NEW option, Accepted(option)
    PROVE  /\ IsSequence(VparmsOf(option))
           /\ AddsSet(option, rev, VparmsOf(option))
           /\ AddsAsked(option, rev, VparmsOf(option))
<1> DEFINE new == VparmsOf(option)
<1>1. ASSUME NEW p
      PROVE  IsSequence(<<p>>) /\ Len(<<p>>) = 1 /\ <<p>>[1] = p /\ DOMAIN <<p>> = {1}
  <2>1. <<p>> \in Seq({p})
    OBVIOUS
  <2>2. Len(<<p>>) = 1 /\ <<p>>[1] = p
    OBVIOUS
  <2>3. IsSequence(<<p>>)
    BY <2>1 DEF IsSequence
  <2>4. DOMAIN <<p>> = 1 .. Len(<<p>>)
    BY <2>3, SequenceFacts
  <2> QED BY <2>2, <2>3, <2>4
<1>2. CASE option.o = "value"
  <2> DEFINE row == RowNamed(rev, option.desc)
             p == Vparm(row.type, option.text.k # "get",
                        IF option.text.k = "get" THEN {} ELSE option.text.v)
  <2>1. Named(rev, option.desc) # {}
    BY <1>2 DEF Accepted
  <2>2. row.type # "RAW"
    BY <2>1, NamedFacts, RowsFacts
  <2>3. new = <<p>>
    BY <1>2 DEF VparmsOf
  <2>4. /\ p.type = row.type
        /\ p.set <=> option.text.k # "get"
        /\ option.text.k # "get" => p.v = option.text.v
    BY DEF Vparm
  <2> HIDE DEF p, row, new
  <2>5. IsSequence(new) /\ Len(new) = 1 /\ new[1] = p /\ DOMAIN new = {1}
    BY <1>1, <2>3
  <2>6. OfItsType(p, rev, option)
    BY <2>4 DEF OfItsType, row
  <2>7. AddsSet(option, rev, new)
    BY <1>2, <2>1, <2>4, <2>5, <2>6 DEF AddsSet, ComesFrom, SetsValue
  <2>8. AddsAsked(option, rev, new)
    <3>1. option.o # "print-all"
      BY <1>2
    <3>2. Asks(p) => AskedBy(p, rev, option)
      BY <1>2, <2>4, <2>6 DEF Asks, AskedBy, AsksValue
    <3>3. AsksValue(option) => Asks(p) /\ p.type = RowNamed(rev, option.desc).type
      BY <2>2, <2>4 DEF Asks, AsksValue, row
    <3> QED BY <2>5, <3>1, <3>2, <3>3 DEF AddsAsked, AskedFor
  <2> QED BY <2>5, <2>7, <2>8 DEF new
<1>3. CASE option.o \in {"rawset", "rawget"}
  <2> DEFINE p == Vparm("RAW", option.o = "rawset", {})
  <2>1. new = <<p>>
    BY <1>3 DEF VparmsOf
  <2>2. p.type = "RAW"
    BY DEF Vparm
  <2> HIDE DEF p, new
  <2>3. IsSequence(new) /\ new[1] = p /\ DOMAIN new = {1}
    BY <1>1, <2>1
  <2>4. AddsSet(option, rev, new)
    BY <1>3, <2>2, <2>3 DEF AddsSet, SetsValue
  <2>5. AddsAsked(option, rev, new)
    BY <1>3, <2>2, <2>3 DEF AddsAsked, AsksValue, Asks
  <2> QED BY <2>3, <2>4, <2>5 DEF new
<1>4. CASE option.o = "print-all"
  <2>1. new = AllRows
    BY <1>4 DEF VparmsOf
  <2> HIDE DEF new
  <2>2. AddsSet(option, rev, new)
    BY <1>4, <2>1, AllRowsFacts DEF AddsSet, SetsValue
  <2>3. AddsAsked(option, rev, new)
    BY <1>4, <2>1, AllRowsFacts DEF AddsAsked, AsksValue
  <2> QED BY <2>1, <2>2, <2>3, AllRowsFacts DEF new
<1>5. CASE option.o \notin {"value", "rawset", "rawget", "print-all"}
  <2>1. new = <<>>
    BY <1>5 DEF VparmsOf
  <2> HIDE DEF new
  <2>2. IsSequence(new) /\ DOMAIN new = {}
    BY <2>1, EmptyFacts
  <2>3. AddsSet(option, rev, new)
    BY <1>5, <2>2 DEF AddsSet, SetsValue
  <2>4. AddsAsked(option, rev, new)
    BY <1>5, <2>2 DEF AddsAsked, AsksValue
  <2> QED BY <2>2, <2>3, <2>4 DEF new
<1> QED BY <1>2, <1>3, <1>4, <1>5
-----------------------------------------------------------------------------
\* What the first parameters of vs, which come from the options as, make of the
\* image in: b.
RowOfOption(r, option) == RowNamed(r, option.desc)
RowsTyped(r, type)     == {sprom_table[t] : t \in Typed(r, type)}
IsAlone(r, row)        == RowsTyped(r, row.type) = {row}

EveryValueFits(as, r) ==
    \A n \in DOMAIN as : SetsValue(as[n]) => Fits(RowOfOption(r, as[n]), as[n].text.v)

Touched(as, r) ==
    UNION {UNION {Own(row) : row \in RowsTyped(r, RowOfOption(r, as[n]).type)} :
              n \in {m \in DOMAIN as : SetsValue(as[m])}}

\* A later option sets a value on the same bits.
IsOverlaid(as, r, n) ==
    \E m \in DOMAIN as :
        /\ SetsValue(as[m]) /\ m > n
        /\ \E row \in RowsTyped(r, RowOfOption(r, as[m]).type) :
              Own(row) \cap Own(RowOfOption(r, as[n])) # {}

HasTakenEffect(as, r, b, n) ==
    (IsAlone(r, RowOfOption(r, as[n])) /\ ~IsOverlaid(as, r, n)) =>
        Get(b, RowOfOption(r, as[n])) = as[n].text.v

\* The bits that no option touches, behind the first word, are the input's.
IsKept(p, in) == p \in Nat /\ p >= 8 /\ p < 8 * in.size

KeepsOthers(as, r, b, in) ==
    \A p : (IsKept(p, in) /\ p \notin Touched(as, r)) => (p \in b <=> p \in in.bits)

Edited(as, r, vs, b, in, m) ==
    /\ \A n \in DOMAIN as, k \in DOMAIN vs :
          (k < m /\ IsParameterOf(as, r, vs, k, n, Len(as) + 1)) => HasTakenEffect(as, r, b, n)
    /\ KeepsOthers(as, r, b, in)

\* What modify_value does with a parameter of the command line.
PutsOwn(as, r, b, new, lo) ==
    \E m \in DOMAIN as :
        /\ m > lo /\ SetsValue(as[m])
        /\ \E row \in RowsTyped(r, RowOfOption(r, as[m]).type) :
              RowIsRight(row) /\ Fits(row, as[m].text.v) /\ new = Put(b, row, as[m].text.v)

Modifies(as, r, b, new, lo) ==
    \/ new = b
    \/ new = b \ (0 .. 7)
    \/ PutsOwn(as, r, b, new, lo)

\* The parameter of an option puts the option's value into a row of its type.
LEMMA ParameterPuts ==
    ASSUME NEW as, NEW r, EveryValueFits(as, r), NEW p, NEW m \in DOMAIN as,
           ComesFrom(p, r, as[m]), Named(r, as[m].desc) # {}, NEW b
    PROVE  /\ p.type # "RAW"
           /\ RowTyped(r, p.type) \in RowsTyped(r, RowOfOption(r, as[m]).type)
           /\ RowIsRight(RowTyped(r, p.type))
           /\ Fits(RowTyped(r, p.type), as[m].text.v)
<1>1. PICK t \in RowsOf(r) : RowNamed(r, as[m].desc) = sprom_table[t]
  BY NamedFacts
<1>2. p.type = sprom_table[t].type
  BY <1>1 DEF ComesFrom, OfItsType
<1>3. PICK u \in Typed(r, sprom_table[t].type) :
         /\ RowTyped(r, sprom_table[t].type) = sprom_table[u]
         /\ RowIsRight(sprom_table[u])
         /\ Width(sprom_table[u]) = Width(sprom_table[t])
  BY TypedFacts
<1>4. sprom_table[u] \in RowsTyped(r, sprom_table[t].type)
  BY DEF RowsTyped
<1>5. Fits(sprom_table[t], as[m].text.v)
  BY <1>1 DEF EveryValueFits, RowOfOption, ComesFrom
<1>6. Fits(sprom_table[u], as[m].text.v)
  BY <1>3, <1>5 DEF Fits
<1>7. p.type # "RAW"
  BY <1>2, RowsFacts
<1> QED BY <1>1, <1>2, <1>3, <1>4, <1>6, <1>7 DEF RowOfOption

\* A value keeps what it was given if what follows does not overlay it.
LEMMA EffectStays ==
    ASSUME NEW as, DOMAIN as \subseteq Nat \ {0}, NEW r, NEW n \in DOMAIN as,
           SetsValue(as[n]), Named(r, as[n].desc) # {}, NEW b, HasTakenEffect(as, r, b, n),
           NEW new, Modifies(as, r, b, new, n)
    PROVE  HasTakenEffect(as, r, new, n)
<1> DEFINE row == RowOfOption(r, as[n])
<1> SUFFICES ASSUME IsAlone(r, row), ~IsOverlaid(as, r, n)
             PROVE  Get(new, row) = as[n].text.v
  BY DEF HasTakenEffect
<1>1. Get(b, row) = as[n].text.v
  BY DEF HasTakenEffect
<1>2. RowIsRight(row)
  BY NamedFacts, RowsFacts DEF RowOfOption
<1> HIDE DEF row
<1>3. CASE new = b
  BY <1>1, <1>3
<1>4. CASE new = b \ (0 .. 7)
  <2>1. \A p \in Own(row) : p \notin 0 .. 7
    BY <1>2, OwnPlaces
  <2>2. \A p \in Own(row) : p \in new <=> p \in b
    BY <1>4, <2>1
  <2> QED BY <1>1, <2>2, SameValue
<1>5. CASE PutsOwn(as, r, b, new, n)
  <2>0. PICK m \in DOMAIN as :
           /\ m > n /\ SetsValue(as[m])
           /\ \E other \in RowsTyped(r, RowOfOption(r, as[m]).type) :
                 RowIsRight(other) /\ Fits(other, as[m].text.v) /\ new = Put(b, other, as[m].text.v)
    BY <1>5 DEF PutsOwn
  <2>1. PICK other \in RowsTyped(r, RowOfOption(r, as[m]).type) :
           RowIsRight(other) /\ Fits(other, as[m].text.v) /\ new = Put(b, other, as[m].text.v)
    BY <2>0
  <2>2. Own(other) \cap Own(row) = {}
    BY <2>0, <2>1 DEF IsOverlaid, row
  <2>3. \A p \in Own(row) : p \in new <=> p \in b
    BY <2>1, <2>2, PutKeeps
  <2> QED BY <1>1, <2>3, SameValue
<1> QED BY <1>3, <1>4, <1>5 DEF Modifies

\* What was put in is there.
LEMMA EffectTaken ==
    ASSUME NEW as, NEW r, EveryValueFits(as, r), NEW n \in DOMAIN as, NEW p,
           ComesFrom(p, r, as[n]), Named(r, as[n].desc) # {}, NEW b
    PROVE  HasTakenEffect(as, r, Put(b, RowTyped(r, p.type), p.v), n)
<1> DEFINE row == RowTyped(r, p.type)
<1> SUFFICES ASSUME IsAlone(r, RowOfOption(r, as[n]))
             PROVE  Get(Put(b, row, p.v), RowOfOption(r, as[n])) = as[n].text.v
  BY DEF HasTakenEffect
<1>1. /\ row \in RowsTyped(r, RowOfOption(r, as[n]).type)
      /\ RowIsRight(row) /\ Fits(row, as[n].text.v)
  BY ParameterPuts
<1>2. row = RowOfOption(r, as[n])
  BY <1>1 DEF IsAlone
<1>3. p.v = as[n].text.v
  BY DEF ComesFrom
<1> QED BY <1>1, <1>2, <1>3, PutGet

LEMMA OthersStay ==
    ASSUME NEW as, NEW r, NEW b, NEW in, KeepsOthers(as, r, b, in),
           NEW new, NEW lo, Modifies(as, r, b, new, lo)
    PROVE  KeepsOthers(as, r, new, in)
<1> SUFFICES ASSUME NEW p, IsKept(p, in), p \notin Touched(as, r)
             PROVE  p \in new <=> p \in in.bits
  BY DEF KeepsOthers
<1>1. p \in b <=> p \in in.bits
  BY DEF KeepsOthers
<1>2. CASE new = b
  BY <1>1, <1>2
<1>3. CASE new = b \ (0 .. 7)
  <2>1. p \notin 0 .. 7
    BY DEF IsKept
  <2> QED BY <1>1, <1>3, <2>1
<1>4. CASE PutsOwn(as, r, b, new, lo)
  <2>0. PICK m \in DOMAIN as :
           /\ SetsValue(as[m])
           /\ \E row \in RowsTyped(r, RowOfOption(r, as[m]).type) :
                 RowIsRight(row) /\ Fits(row, as[m].text.v) /\ new = Put(b, row, as[m].text.v)
    BY <1>4 DEF PutsOwn
  <2>1. PICK row \in RowsTyped(r, RowOfOption(r, as[m]).type) :
           RowIsRight(row) /\ Fits(row, as[m].text.v) /\ new = Put(b, row, as[m].text.v)
    BY <2>0
  <2>2. p \notin Own(row)
    <3> DEFINE rows == RowsTyped(r, RowOfOption(r, as[m]).type)
    <3>1. row \in rows
      BY <2>1
    <3>2. m \in {n \in DOMAIN as : SetsValue(as[n])}
      BY <2>0
    <3>3. UNION {Own(other) : other \in rows} \subseteq Touched(as, r)
      BY <3>2 DEF Touched
    <3> HIDE DEF rows
    <3> QED BY <3>1, <3>3
  <2> QED BY <1>1, <2>1, <2>2, PutKeeps
<1> QED BY <1>2, <1>3, <1>4 DEF Modifies

\* One parameter after the other.
LEMMA EditedStep ==
    ASSUME NEW as, NEW N \in Nat, DOMAIN as = 1 .. N, Len(as) = N, NEW r, EveryValueFits(as, r),
           NEW vs, IsSequence(vs), ParametersSet(as, r, vs, N + 1), NEW m \in DOMAIN vs,
           NEW b, NEW in, Edited(as, r, vs, b, in, m), NEW new,
           \/ ~vs[m].set /\ new = b
           \/ vs[m].set /\ vs[m].type = "RAW" /\ new = b \ (0 .. 7)
           \/ vs[m].set /\ vs[m].type # "RAW" /\ new = Put(b, RowTyped(r, vs[m].type), vs[m].v)
    PROVE  Edited(as, r, vs, new, in, m + 1)
<1>1. DOMAIN vs \subseteq Nat \ {0} /\ DOMAIN as \subseteq Nat \ {0} /\ m \in Nat /\ m > 0
  BY SequenceFacts
<1>2. \A n \in DOMAIN as : as[n].o = "value" => Named(r, as[n].desc) # {}
  <2>1. \A n \in DOMAIN as : n < N + 1
    OBVIOUS
  <2> QED BY <2>1 DEF ParametersSet
<1>3. ASSUME NEW lo \in Nat, NEW k \in Nat, k < m, SetLater(as, r, vs, k, lo, N + 1)
      PROVE  Modifies(as, r, b, new, lo)
  <2>1. CASE vs[m].set /\ vs[m].type # "RAW" /\ new = Put(b, RowTyped(r, vs[m].type), vs[m].v)
    <3>1. PICK n \in DOMAIN as : lo < n /\ ComesFrom(vs[m], r, as[n])
      BY <1>1, <1>3, <2>1 DEF SetLater, SetBetween
    <3>2. SetsValue(as[n]) /\ Named(r, as[n].desc) # {} /\ vs[m].v = as[n].text.v
      BY <1>2, <3>1 DEF ComesFrom, SetsValue
    <3>3. /\ RowTyped(r, vs[m].type) \in RowsTyped(r, RowOfOption(r, as[n]).type)
          /\ RowIsRight(RowTyped(r, vs[m].type))
          /\ Fits(RowTyped(r, vs[m].type), as[n].text.v)
      BY <3>1, <3>2, ParameterPuts
    <3>4. n > lo
      BY <1>1, <3>1
    <3> QED BY <2>1, <3>2, <3>3, <3>4 DEF Modifies, PutsOwn
  <2> QED BY <2>1 DEF Modifies
<1>4. KeepsOthers(as, r, new, in)
  <2>1. SetLater(as, r, vs, 0, 0, N + 1) /\ 0 \in Nat /\ 0 < m
    BY <1>1 DEF ParametersSet
  <2>2. Modifies(as, r, b, new, 0)
    BY <1>3, <2>1
  <2> QED BY <2>2, OthersStay DEF Edited
<1>5. ASSUME NEW n \in DOMAIN as, NEW k \in DOMAIN vs, k < m + 1,
             IsParameterOf(as, r, vs, k, n, N + 1)
      PROVE  HasTakenEffect(as, r, new, n)
  <2>1. SetsValue(as[n]) /\ Named(r, as[n].desc) # {}
    BY <1>2, <1>5 DEF IsParameterOf, ComesFrom, SetsValue
  <2>2. CASE k < m
    <3>1. HasTakenEffect(as, r, b, n)
      BY <1>5, <2>2 DEF Edited
    <3>2. n \in Nat
      BY <1>1
    <3>3. k \in Nat
      BY <1>1
    <3>4. Modifies(as, r, b, new, n)
      BY <1>3, <1>5, <2>2, <3>2, <3>3 DEF IsParameterOf
    <3> QED BY <1>1, <2>1, <3>1, <3>4, EffectStays
  <2>3. CASE k = m
    <3>1. vs[m].set /\ ComesFrom(vs[m], r, as[n])
      BY <1>5, <2>3 DEF IsParameterOf
    <3>2. vs[m].type # "RAW"
      BY <2>1, <3>1, ParameterPuts
    <3>3. new = Put(b, RowTyped(r, vs[m].type), vs[m].v)
      BY <3>1, <3>2
    <3> QED BY <2>1, <3>1, <3>3, EffectTaken
  <2>4. k < m \/ k = m
    <3>1. k \in Nat
      BY <1>1
    <3> QED BY <1>1, <1>5, <3>1
  <2> QED BY <2>2, <2>3, <2>4
<1> QED BY <1>4, <1>5 DEF Edited
-----------------------------------------------------------------------------
\* The image is the input's as far as the input goes.
IsLikeInput(b, in) == \A p : (p \in Nat /\ p < 8 * in.size) => (p \in b <=> p \in in.bits)

AreParameters(as, r, vs, hi) ==
    ParametersSet(as, r, vs, hi) /\ ParametersAsked(as, r, vs, hi)

IsRead      == pc \in {"validate", "pass2", "display"}
IsCollected == pc \in {"display", "modify", "open", "truncate", "write", "done"}
IsEdited    == pc \in {"open", "truncate", "write", "done"}

\* The second pass: what the options so far have added, and at its end all.
Collection ==
    /\ IsSequence(vparms)
    /\ pc \in {"pass1", "read", "validate"} => vparms = <<>>
    /\ pc = "pass2" => i <= Len(args) + 1 /\ AreParameters(args, rev, vparms, i)
    /\ IsCollected => AreParameters(args, rev, vparms, Len(args) + 1)

\* The image before, in and after modify_sprom.
Edition ==
    /\ IsRead => IsLikeInput(bits, input)
    /\ pc = "modify" =>
          /\ i <= Len(vparms) + 1
          /\ EveryValueFits(args, rev) => Edited(args, rev, vparms, bits, input, i)
    /\ IsEdited =>
          (EveryValueFits(args, rev) => Edited(args, rev, vparms, bits, input, Len(vparms) + 1))

\* A new output is the image at the end.
Output == outfile.state = "new" => pc = "done" /\ outfile.bits = Within(size, bits)

ValuesInv == Collection /\ Edition /\ ShownIsInput /\ Output

LEMMA CaseFacts ==
    ASSUME InputIsACase
    PROVE  /\ Len(args) \in Nat /\ DOMAIN args = 1 .. Len(args)
           /\ input.size \in Nat /\ input.bits \subseteq Nat
           /\ i \in Nat /\ i > 0
<1>1. PICK c \in Cases : args = c.args /\ input = c.input
  BY DEF InputIsACase
<1>2. /\ c.args \in Seq({c.args[n] : n \in DOMAIN c.args})
      /\ c.input.size \in 0 .. SPROM4_SIZE /\ c.input.bits \subseteq Nat
  BY CasesAssumption, BitsAssumption, Zenon
<1>3. i \in Nat /\ i > 0
  BY DEF InputIsACase
<1>4. Len(args) \in Nat /\ DOMAIN args = 1 .. Len(args)
  BY <1>1, <1>2
<1>5. input.size \in Nat
  <2>1. c.input.size \in 0 .. SPROM4_SIZE
    BY <1>2
  <2>2. c.input.size \in Nat
    BY <2>1 DEF SPROM4_SIZE
  <2> QED BY <1>1, <2>2
<1> QED BY <1>1, <1>2, <1>3, <1>4, <1>5

\* Nothing is collected yet.
LEMMA NoParameters ==
    ASSUME NEW as, DOMAIN as \subseteq Nat \ {0}, NEW r
    PROVE  AreParameters(as, r, <<>>, 1)
<1>1. DOMAIN <<>> = {}
  BY EmptyFacts
<1>2. ASSUME NEW n \in DOMAIN as PROVE ~(n < 1)
  <2>1. n \in Nat /\ n # 0
    OBVIOUS
  <2> QED BY <2>1
<1>3. ParametersSet(as, r, <<>>, 1)
  BY <1>1, <1>2 DEF ParametersSet, SetLater
<1>4. ParametersAsked(as, r, <<>>, 1)
  BY <1>1, <1>2 DEF ParametersAsked
<1> QED BY <1>3, <1>4 DEF AreParameters

\* Pass2 adds what its option adds.
LEMMA ParametersStep ==
    ASSUME InputIsACase, Pass2, IsSequence(vparms), AreParameters(args, rev, vparms, i)
    PROVE  AreParameters(args', rev', vparms', i') /\ IsSequence(vparms')
<1>1. DOMAIN args \subseteq Nat \ {0} /\ i \in DOMAIN args
  BY CaseFacts DEF Pass2
<1>2. /\ args' = args /\ rev' = rev /\ i' = i + 1
      /\ vparms' = vparms \o VparmsOf(args[i]) /\ Accepted(args[i])
  BY DEF Pass2, image
<1>3. /\ IsSequence(VparmsOf(args[i]))
      /\ AddsSet(args[i], rev, VparmsOf(args[i])) /\ AddsAsked(args[i], rev, VparmsOf(args[i]))
  BY <1>2, OptionAdds
<1>4. ParametersSet(args, rev, vparms \o VparmsOf(args[i]), i + 1)
  BY <1>1, <1>3, SetGrows DEF AreParameters
<1>5. ParametersAsked(args, rev, vparms \o VparmsOf(args[i]), i + 1)
  BY <1>1, <1>3, AskedGrows DEF AreParameters
<1>6. IsSequence(vparms')
  BY <1>2, <1>3, ConcatFacts
<1> QED BY <1>2, <1>4, <1>5, <1>6 DEF AreParameters

\* What a parameter asks for is displayed as it is in the input.
LEMMA AskedIsShown ==
    ASSUME Display, InputIsACase, IsLikeInput(bits, input), NEW t \in RowsOf(rev),
           AskedFor(vparms, sprom_table[t].type), ~IsTwin(sprom_table[t]),
           \A k \in Own(sprom_table[t]) : ~(k >= 8 * input.size)
    PROVE  [desc |-> sprom_table[t].desc, v |-> Get(input.bits, sprom_table[t])] \in shown'
<1> DEFINE row == sprom_table[t]
<1>1. PICK k \in DOMAIN vparms : Asks(vparms[k]) /\ vparms[k].type = row.type
  BY DEF AskedFor
<1>2. k \in Asked
  BY <1>1 DEF Asked, Asks
<1>3. RowTyped(rev, row.type) = row
  <2>1. PICK u \in Typed(rev, row.type) : RowTyped(rev, row.type) = sprom_table[u]
    BY TypedFacts
  <2>2. sprom_table[u] \in OfType(row.type)
    BY DEF OfType
  <2>3. OfType(row.type) = {row}
    BY DEF IsTwin
  <2> QED BY <2>1, <2>2, <2>3
<1>4. Get(bits, row) = Get(input.bits, row)
  <2>1. ASSUME NEW p \in Own(row) PROVE p \in bits <=> p \in input.bits
    <3>1. p \in Nat
      BY RowsFacts, OwnPlaces
    <3>2. p < 8 * input.size
      BY <3>1, CaseFacts
    <3> QED BY <3>1, <3>2 DEF IsLikeInput
  <2> HIDE DEF row
  <2> QED BY <2>1, SameValue
<1>5. shown' = {[desc |-> other.desc, v |-> Get(bits, other)] :
                   other \in {RowTyped(rev, vparms[l].type) : l \in Asked}}
  BY DEF Display
<1> HIDE DEF row
<1>6. row \in {RowTyped(rev, vparms[l].type) : l \in Asked}
  BY <1>1, <1>2, <1>3
<1>7. [desc |-> row.desc, v |-> Get(bits, row)] \in shown'
  BY <1>5, <1>6
<1> QED BY <1>4, <1>7 DEF row

LEMMA DisplayShows ==
    ASSUME Display, InputIsACase, IsLikeInput(bits, input),
           AreParameters(args, rev, vparms, Len(args) + 1)
    PROVE  ShownIsInput'
<1> DEFINE Seen(row) == \/ IsTwin(row)
                        \/ \E k \in Own(row) : k >= 8 * input.size
                        \/ [desc |-> row.desc, v |-> Get(input.bits, row)] \in shown'
           all == \E n \in DOMAIN args : args[n].o = "print-all"
<1>1. UNCHANGED <<args, input, rev>>
  BY DEF Display, image
<1>2. \A n \in DOMAIN args : n < Len(args) + 1
  BY CaseFacts
<1>3. ASSUME NEW n \in DOMAIN args, args[n].o = "value"
      PROVE  \E t \in RowsOf(rev) : RowOf(n) = sprom_table[t]
  BY <1>2, <1>3, NamedFacts DEF AreParameters, ParametersSet, RowOf
<1>4. ASSUME NEW n \in DOMAIN args, IsAsked(n) PROVE Seen(RowOf(n))
  <2>1. AskedFor(vparms, RowOf(n).type)
    BY <1>2, <1>4 DEF AreParameters, ParametersAsked, AsksValue, IsAsked, RowOf
  <2>2. PICK t \in RowsOf(rev) : RowOf(n) = sprom_table[t]
    BY <1>3, <1>4 DEF IsAsked
  <2> QED BY <2>1, <2>2, AskedIsShown
<1>5. ASSUME NEW t \in RowsOf(rev), all PROVE Seen(sprom_table[t])
  <2>1. AllAskedFor(rev, vparms)
    BY <1>2, <1>5 DEF AreParameters, ParametersAsked
  <2>2. AskedFor(vparms, sprom_table[t].type)
    BY <2>1 DEF AllAskedFor
  <2> QED BY <2>2, AskedIsShown
<1>6. ASSUME NEW s \in shown', ~all
      PROVE  \E n \in DOMAIN args : IsAsked(n) /\ \E row \in Targets(n) : s.desc = row.desc
  <2>1. PICK k \in Asked : s.desc = RowTyped(rev, vparms[k].type).desc
    <3>1. shown' = {[desc |-> other.desc, v |-> Get(bits, other)] :
                       other \in {RowTyped(rev, vparms[l].type) : l \in Asked}}
      BY DEF Display
    <3>2. PICK other \in {RowTyped(rev, vparms[l].type) : l \in Asked} :
             s = [desc |-> other.desc, v |-> Get(bits, other)]
      BY <3>1
    <3> QED BY <3>2
  <2>2. Asks(vparms[k]) /\ k \in DOMAIN vparms
    BY <2>1 DEF Asked, Asks
  <2>3. PICK n \in DOMAIN args : AskedBy(vparms[k], rev, args[n])
    BY <1>6, <2>2 DEF AreParameters, ParametersAsked
  <2>4. IsAsked(n) /\ vparms[k].type = RowOf(n).type /\ args[n].o = "value"
    BY <2>3 DEF AskedBy, AsksValue, OfItsType, IsAsked, RowOf
  <2>5. PICK t \in RowsOf(rev) : RowOf(n) = sprom_table[t]
    BY <1>3, <2>4
  <2>6. PICK u \in Typed(rev, RowOf(n).type) : RowTyped(rev, RowOf(n).type) = sprom_table[u]
    BY <2>5, TypedFacts
  <2>7. sprom_table[u] \in Targets(n)
    BY <2>6 DEF Targets, OfType
  <2> QED BY <2>1, <2>4, <2>6, <2>7
<1> HIDE DEF Seen
<1>7. \A row : IsShown(row)' <=> Seen(row)
  BY <1>1 DEF IsShown, IsTwin, OfType, Seen
<1> QED BY <1>1, <1>4, <1>5, <1>6, <1>7 DEF ShownIsInput, IsAsked, RowOf, Targets, OfType

\* parse_input: what the input does not fill comes from the buffer.
LEMMA ImageIsRead ==
    ASSUME InputIsACase, ParseHex \/ KeepBinary
    PROVE  IsLikeInput(bits', input')
<1>1. input' = input
  BY DEF ParseHex, KeepBinary
<1>2. CASE KeepBinary
  BY <1>1, <1>2 DEF KeepBinary, IsLikeInput
<1>3. CASE ParseHex
  <2>1. PICK left \in Leftovers : bits' = input.bits \cup {b \in left : b >= 8 * input.size}
    BY <1>3 DEF ParseHex
  <2> SUFFICES ASSUME NEW p, p \in Nat, p < 8 * input.size PROVE p \in bits' <=> p \in input.bits
    BY <1>1 DEF IsLikeInput
  <2>2. ~(p >= 8 * input.size)
    BY CaseFacts
  <2> QED BY <2>1, <2>2
<1> QED BY <1>2, <1>3

\* The image that modify_sprom starts with.
LEMMA EditedAtFirst ==
    ASSUME NEW as, NEW r, NEW vs, IsSequence(vs), NEW b, NEW in, IsLikeInput(b, in)
    PROVE  Edited(as, r, vs, b, in, 1)
<1>1. ASSUME NEW k \in DOMAIN vs PROVE ~(k < 1)
  <2>1. k \in Nat /\ k # 0
    BY SequenceFacts
  <2> QED BY <2>1
<1> QED BY <1>1 DEF Edited, KeepsOthers, IsKept, IsLikeInput

LEMMA ModifyStep ==
    ASSUME InputIsACase, Collection, Edition, ModifyValue
    PROVE  /\ i' <= Len(vparms') + 1
           /\ EveryValueFits(args', rev') => Edited(args', rev', vparms', bits', input', i')
<1>1. /\ UNCHANGED <<args, input, rev, vparms>>
      /\ i' = i + 1 /\ i <= Len(vparms) /\ Modify(vparms[i])
  BY DEF ModifyValue, image
<1>2. i \in DOMAIN vparms /\ i + 1 <= Len(vparms) + 1
  BY <1>1, CaseFacts, SequenceFacts DEF Collection
<1> SUFFICES ASSUME EveryValueFits(args, rev) PROVE Edited(args, rev, vparms, bits', input, i + 1)
  BY <1>1, <1>2
<1>3. Len(args) \in Nat /\ DOMAIN args = 1 .. Len(args)
  BY CaseFacts
<1>4. ParametersSet(args, rev, vparms, Len(args) + 1) /\ IsSequence(vparms)
  BY DEF ModifyValue, Collection, IsCollected, AreParameters
<1>5. Edited(args, rev, vparms, bits, input, i)
  BY DEF ModifyValue, Edition
<1>6. \/ ~vparms[i].set /\ bits' = bits
      \/ vparms[i].set /\ vparms[i].type = "RAW" /\ bits' = bits \ (0 .. 7)
      \/ /\ vparms[i].set /\ vparms[i].type # "RAW"
         /\ bits' = Put(bits, RowTyped(rev, vparms[i].type), vparms[i].v)
  BY <1>1 DEF Modify
<1> QED BY <1>2, <1>3, <1>4, <1>5, <1>6, EditedStep

LEMMA ShownStays ==
    ASSUME ShownIsInput, UNCHANGED <<args, input, rev, shown>>,
           pc' \in {"modify", "open", "truncate", "write", "done"} =>
              pc \in {"modify", "open", "truncate", "write", "done"}
    PROVE  ShownIsInput'
BY DEF ShownIsInput, IsAsked, RowOf, IsShown, IsTwin, OfType, Targets

\* A phase at whose end nothing has been done to the values.
LEMMA RefusalSteps ==
    ASSUME IInv, ValuesInv, NEW how, End(how), how \in {"read", "version", "rejected", "crashed", "ioerror"},
           how = "read" => pc = "pass1", pc # "done"
    PROVE  ValuesInv'
<1>1. UNCHANGED <<args, input, i, cmd, rev, size, bits, crc, vparms, shown, outfile>> /\ pc' = how
  BY DEF End, image
<1>2. Collection'
  BY <1>1 DEF ValuesInv, Collection, IsCollected
<1>3. Edition'
  BY <1>1 DEF Edition, IsRead, IsEdited
<1>4. ShownIsInput'
  BY <1>1 DEF ShownIsInput
<1>5. Output'
  BY <1>1 DEF ValuesInv, Output
<1> QED BY <1>2, <1>3, <1>4, <1>5 DEF ValuesInv

LEMMA EndOfPass2Step ==
    ASSUME IInv, ValuesInv, EndOfPass2
    PROVE  ValuesInv'
<1>1. /\ UNCHANGED <<args, input, i, cmd, rev, size, bits, crc, vparms, shown, outfile>>
      /\ pc = "pass2" /\ pc' = "display" /\ i > Len(args)
  BY DEF EndOfPass2, End, image
<1>2. Collection'
  <2>1. i <= Len(args) + 1 /\ AreParameters(args, rev, vparms, i) /\ IsSequence(vparms)
    BY <1>1 DEF ValuesInv, Collection
  <2>2. i = Len(args) + 1
    BY <1>1, <2>1, CaseFacts DEF IInv
  <2> QED BY <1>1, <2>1, <2>2 DEF Collection, IsCollected
<1>3. Edition'
  BY <1>1 DEF ValuesInv, Edition, IsRead, IsEdited
<1>4. ShownIsInput'
  BY <1>1 DEF ShownIsInput
<1>5. Output'
  BY <1>1 DEF ValuesInv, Output
<1> QED BY <1>2, <1>3, <1>4, <1>5 DEF ValuesInv

\* The end of modify_sprom, with or without a new checksum.
LEMMA ModifiedStep ==
    ASSUME IInv, ValuesInv, NewChecksum \/ NothingModified
    PROVE  ValuesInv'
<1>1. /\ UNCHANGED <<args, input, i, cmd, rev, size, bits, vparms, shown, outfile>>
      /\ pc = "modify" /\ pc' \in {"open", "done"} /\ i > Len(vparms)
  BY DEF NewChecksum, NothingModified, End, image
<1>2. Collection'
  BY <1>1 DEF ValuesInv, Collection, IsCollected
<1>3. Edition'
  <2>1. i <= Len(vparms) + 1 /\ IsSequence(vparms)
    BY <1>1 DEF ValuesInv, Edition, Collection
  <2>2. i = Len(vparms) + 1
    BY <1>1, <2>1, CaseFacts, SequenceFacts DEF IInv
  <2>3. EveryValueFits(args, rev) => Edited(args, rev, vparms, bits, input, i)
    BY <1>1 DEF ValuesInv, Edition
  <2> QED BY <1>1, <2>2, <2>3 DEF Edition, IsRead, IsEdited
<1>4. ShownIsInput'
  BY <1>1, ShownStays DEF ValuesInv
<1>5. Output'
  BY <1>1 DEF ValuesInv, Output
<1> QED BY <1>2, <1>3, <1>4, <1>5 DEF ValuesInv

\* open_outfile and write_output do not change the image.
LEMMA WritingSteps ==
    ASSUME IInv, ValuesInv, OpenOutput \/ Truncate \/ WriteOutput \/ ShortWrite
    PROVE  ValuesInv'
<1>1. /\ UNCHANGED <<args, input, i, cmd, rev, size, bits, vparms, shown>>
      /\ pc \in {"open", "truncate", "write"} /\ pc' \in {"truncate", "write", "done"}
  BY DEF OpenOutput, Truncate, WriteOutput, ShortWrite, End, image
<1>2. Collection'
  BY <1>1 DEF ValuesInv, Collection, IsCollected
<1>3. Edition'
  BY <1>1 DEF ValuesInv, Edition, IsRead, IsEdited
<1>4. ShownIsInput'
  BY <1>1, ShownStays DEF ValuesInv
<1>5. Output'
  <2>1. CASE WriteOutput \/ ShortWrite
    BY <1>1, <2>1 DEF WriteOutput, ShortWrite, Written, Output
  <2>2. CASE Truncate
    <3>1. outfile'.state = "empty"
      BY <2>2 DEF Truncate, Nothing
    <3> QED BY <3>1 DEF Output
  <2>3. CASE OpenOutput
    BY <1>1, <2>3 DEF OpenOutput, End, image, ValuesInv, Output
  <2> QED BY <2>1, <2>2, <2>3
<1> QED BY <1>2, <1>3, <1>4, <1>5 DEF ValuesInv

\* Before the image is there.
LEMMA EarlySteps ==
    ASSUME IInv, ValuesInv, Pass1 \/ KeepBinary \/ ParseHex
    PROVE  ValuesInv'
<1>1. /\ UNCHANGED <<args, input, vparms, shown, outfile>>
      /\ pc \in {"pass1", "read"} /\ pc' \in {"pass1", "validate", "rejected"}
      /\ pc' = "validate" => KeepBinary \/ ParseHex
  BY DEF Pass1, AtOption, KeepBinary, ParseHex, image
<1>2. Collection'
  BY <1>1 DEF ValuesInv, Collection, IsCollected
<1>3. Edition'
  BY <1>1, ImageIsRead DEF IInv, Edition, IsRead, IsEdited
<1>4. ShownIsInput'
  BY <1>1 DEF ShownIsInput
<1>5. Output'
  BY <1>1 DEF ValuesInv, Output
<1> QED BY <1>2, <1>3, <1>4, <1>5 DEF ValuesInv

LEMMA AcceptedStep ==
    ASSUME IInv, ValuesInv, Validate
    PROVE  ValuesInv'
<1>1. /\ UNCHANGED <<args, input, rev, size, bits, vparms, shown, outfile>>
      /\ pc = "validate" /\ pc' = "pass2" /\ i' = 1
  BY DEF Validate, image
<1>2. Collection'
  <2>1. vparms = <<>> /\ IsSequence(vparms)
    BY <1>1 DEF ValuesInv, Collection
  <2>2. DOMAIN args \subseteq Nat \ {0} /\ 1 <= Len(args) + 1
    BY CaseFacts DEF IInv
  <2>3. AreParameters(args, rev, vparms, 1)
    BY <2>1, <2>2, NoParameters
  <2> QED BY <1>1, <2>1, <2>2, <2>3 DEF Collection, IsCollected
<1>3. Edition'
  BY <1>1 DEF ValuesInv, Edition, IsRead, IsEdited
<1>4. ShownIsInput'
  BY <1>1 DEF ShownIsInput
<1>5. Output'
  BY <1>1 DEF ValuesInv, Output
<1> QED BY <1>2, <1>3, <1>4, <1>5 DEF ValuesInv

LEMMA CollectStep ==
    ASSUME IInv, ValuesInv, Pass2
    PROVE  ValuesInv'
<1>1. /\ UNCHANGED <<args, input, rev, size, bits, shown, outfile>>
      /\ pc = "pass2" /\ pc' = "pass2" /\ i' = i + 1 /\ i <= Len(args)
  BY DEF Pass2, image
<1>2. Collection'
  <2>1. AreParameters(args', rev', vparms', i') /\ IsSequence(vparms')
    BY <1>1, ParametersStep DEF IInv, ValuesInv, Collection
  <2>2. i' <= Len(args') + 1
    BY <1>1, CaseFacts DEF IInv
  <2> QED BY <1>1, <2>1, <2>2 DEF Collection, IsCollected
<1>3. Edition'
  BY <1>1 DEF ValuesInv, Edition, IsRead, IsEdited
<1>4. ShownIsInput'
  BY <1>1 DEF ShownIsInput
<1>5. Output'
  BY <1>1 DEF ValuesInv, Output
<1> QED BY <1>2, <1>3, <1>4, <1>5 DEF ValuesInv

LEMMA DisplayStep ==
    ASSUME IInv, ValuesInv, Display
    PROVE  ValuesInv'
<1>1. /\ UNCHANGED <<args, input, rev, size, bits, vparms, outfile>>
      /\ pc = "display" /\ pc' = "modify" /\ i' = 1
  BY DEF Display, image
<1>2. Collection'
  BY <1>1 DEF ValuesInv, Collection, IsCollected
<1>3. Edition'
  <2>1. IsLikeInput(bits, input) /\ IsSequence(vparms)
    BY <1>1 DEF ValuesInv, Edition, Collection, IsRead
  <2>2. Edited(args, rev, vparms, bits, input, 1) /\ 1 <= Len(vparms) + 1
    BY <2>1, EditedAtFirst, SequenceFacts
  <2> QED BY <1>1, <2>2 DEF Edition, IsRead, IsEdited
<1>4. ShownIsInput'
  BY <1>1, DisplayShows DEF IInv, ValuesInv, Edition, Collection, IsRead, IsCollected
<1>5. Output'
  BY <1>1 DEF ValuesInv, Output
<1> QED BY <1>2, <1>3, <1>4, <1>5 DEF ValuesInv

LEMMA ModifyValueStep ==
    ASSUME IInv, ValuesInv, ModifyValue
    PROVE  ValuesInv'
<1>1. /\ UNCHANGED <<args, input, rev, size, vparms, shown, outfile>>
      /\ pc = "modify" /\ pc' = "modify"
  BY DEF ModifyValue, image
<1>2. Collection'
  BY <1>1 DEF ValuesInv, Collection, IsCollected
<1>3. Edition'
  <2>1. /\ i' <= Len(vparms') + 1
        /\ EveryValueFits(args', rev') => Edited(args', rev', vparms', bits', input', i')
    BY ModifyStep DEF IInv, ValuesInv
  <2> QED BY <1>1, <2>1 DEF Edition, IsRead, IsEdited
<1>4. ShownIsInput'
  BY <1>1, ShownStays DEF ValuesInv
<1>5. Output'
  BY <1>1 DEF ValuesInv, Output
<1> QED BY <1>2, <1>3, <1>4, <1>5 DEF ValuesInv

LEMMA ValuesInit == Init => ValuesInv
<1> SUFFICES ASSUME Init PROVE ValuesInv
  OBVIOUS
<1>1. Collection
  BY EmptyFacts DEF Init, Collection, IsCollected
<1>2. Edition /\ ShownIsInput /\ Output
  BY DEF Init, Edition, IsRead, IsEdited, ShownIsInput, Output, Nothing
<1> QED BY <1>1, <1>2 DEF ValuesInv

LEMMA ValuesStep == IInv /\ ValuesInv /\ [Next]_vars => ValuesInv'
<1> SUFFICES ASSUME IInv, ValuesInv, [Next]_vars PROVE ValuesInv'
  OBVIOUS
<1>1. CASE Pass1 \/ KeepBinary \/ ParseHex
  BY <1>1, EarlySteps
<1>2. CASE Version \/ Help \/ EndOfPass1
  BY <1>2, RefusalSteps DEF Version, Help, EndOfPass1, AtOption
<1>3. CASE InputTrouble \/ NotAnImage \/ Corrupt
  BY <1>3, RefusalSteps DEF InputTrouble, NotAnImage, Corrupt
<1>4. CASE Validate
  BY <1>4, AcceptedStep
<1>5. CASE Pass2
  BY <1>5, CollectStep
<1>6. CASE ArgumentError \/ MissingText \/ NoValues
  BY <1>6, RefusalSteps DEF ArgumentError, MissingText, NoValues
<1>7. CASE EndOfPass2
  BY <1>7, EndOfPass2Step
<1>8. CASE Display
  BY <1>8, DisplayStep
<1>9. CASE ModifyValue
  BY <1>9, ModifyValueStep
<1>10. CASE NewChecksum \/ NothingModified
  BY <1>10, ModifiedStep
<1>11. CASE OutputTrouble
  BY <1>11, RefusalSteps DEF OutputTrouble
<1>12. CASE OpenOutput \/ Truncate \/ WriteOutput \/ ShortWrite
  BY <1>12, WritingSteps
<1>13. CASE UNCHANGED vars
  <2>1. UNCHANGED <<args, input, pc, i, rev, size, bits, vparms, shown, outfile>>
    BY <1>13 DEF vars, image
  <2>2. Collection'
    BY <2>1 DEF ValuesInv, Collection, IsCollected
  <2>3. Edition'
    BY <2>1 DEF ValuesInv, Edition, IsRead, IsEdited
  <2>4. ShownIsInput'
    BY <2>1, ShownStays DEF ValuesInv
  <2>5. Output'
    BY <2>1 DEF ValuesInv, Output
  <2> QED BY <2>2, <2>3, <2>4, <2>5 DEF ValuesInv
<1> QED
  BY <1>1, <1>2, <1>3, <1>4, <1>5, <1>6, <1>7, <1>8, <1>9, <1>10, <1>11, <1>12, <1>13 DEF Next

LEMMA ValuesInvariance == Spec => []ValuesInv
BY Invariance, ValuesInit, ValuesStep, PTL DEF Spec

\* What is known of a new output.
LEMMA NewOutput ==
    ASSUME IInv, ValuesInv, outfile.state = "new", AllFit
    PROVE  /\ outfile.bits = Within(size, bits)
           /\ AreParameters(args, rev, vparms, Len(args) + 1)
           /\ Edited(args, rev, vparms, bits, input, Len(vparms) + 1)
           /\ IsSequence(vparms)
<1>1. pc = "done" /\ outfile.bits = Within(size, bits)
  BY DEF ValuesInv, Output
<1>2. EveryValueFits(args, rev)
  BY DEF AllFit, SetOnes, IsSet, RowOf, EveryValueFits, SetsValue, RowOfOption
<1> QED BY <1>1, <1>2 DEF ValuesInv, Collection, Edition, IsCollected, IsEdited

LEMMA WithinIsSame ==
    ASSUME NEW row, RowIsRight(row), Inside(row)
    PROVE  Get(Within(size, bits), row) = Get(bits, row)
<1>1. \A p \in Own(row) : p \in Within(size, bits) <=> p \in bits
  BY DEF Inside, Within
<1> QED BY <1>1, SameValue

\* A value that was set is in the output, unless a later one lies on its bits,
\* its type has two rows or it lies behind the image (modify_sprom), for every
\* command line.
THEOREM ModificationsTakeEffect == Spec => []EditsTakeEffect
<1>1. ASSUME IInv, ValuesInv PROVE EditsTakeEffect
  <2> SUFFICES ASSUME outfile.state = "new", AllFit, NEW n \in SetOnes,
                      ~IsTwin(RowOf(n)), Inside(RowOf(n)),
                      ~ \E m \in SetOnes : m > n /\ \E row \in Targets(m) : ~Apart(row, RowOf(n))
               PROVE  Get(outfile.bits, RowOf(n)) = args[n].text.v
    BY DEF EditsTakeEffect
  <2>1. /\ outfile.bits = Within(size, bits)
        /\ AreParameters(args, rev, vparms, Len(args) + 1)
        /\ Edited(args, rev, vparms, bits, input, Len(vparms) + 1)
        /\ IsSequence(vparms)
    BY <1>1, NewOutput
  <2>2. n \in DOMAIN args /\ SetsValue(args[n]) /\ RowOf(n) = RowOfOption(rev, args[n])
    BY DEF SetOnes, IsSet, SetsValue, RowOf, RowOfOption
  <2>3. n < Len(args) + 1
    BY <1>1, <2>2, CaseFacts DEF IInv
  <2>4. PICK k \in DOMAIN vparms : IsParameterOf(args, rev, vparms, k, n, Len(args) + 1)
    BY <2>1, <2>2, <2>3 DEF AreParameters, ParametersSet
  <2>5. k < Len(vparms) + 1
    BY <2>1, SequenceFacts
  <2>6. HasTakenEffect(args, rev, bits, n)
    BY <2>1, <2>2, <2>4, <2>5 DEF Edited
  <2>7. IsAlone(rev, RowOfOption(rev, args[n]))
    BY <2>2 DEF IsAlone, RowsTyped, IsTwin, OfType
  <2>8. ~IsOverlaid(args, rev, n)
    BY <2>2 DEF IsOverlaid, SetOnes, IsSet, SetsValue, RowsTyped, OfType, Targets, RowOf,
                RowOfOption, Apart
  <2>9. Get(bits, RowOf(n)) = args[n].text.v
    BY <2>2, <2>6, <2>7, <2>8 DEF HasTakenEffect
  <2>10. RowIsRight(RowOf(n))
    <3>1. Named(rev, args[n].desc) # {}
      BY <2>1, <2>2, <2>3 DEF AreParameters, ParametersSet, SetsValue
    <3> QED BY <3>1, NamedFacts, RowsFacts DEF RowOf
  <2> QED BY <2>1, <2>9, <2>10, WithinIsSame
<1> QED BY <1>1, Invariance, ValuesInvariance, PTL

\* A value whose bits no option sets is in the output what it is in the input
\* (modify_value keeps a word's other bits), for every command line.
THEOREM OtherValuesAreKept == Spec => []OthersKept
<1>1. ASSUME IInv, ValuesInv PROVE OthersKept
  <2> DEFINE touched == UNION {UNION {Own(row) : row \in Targets(n)} : n \in SetOnes}
  <2> SUFFICES ASSUME outfile.state = "new", AllFit, input.size >= size, NEW r \in RowsOf(rev),
                      Inside(sprom_table[r]), Own(sprom_table[r]) \cap touched = {}
               PROVE  Get(outfile.bits, sprom_table[r]) = Get(input.bits, sprom_table[r])
    BY DEF OthersKept
  <2>1. /\ outfile.bits = Within(size, bits)
        /\ KeepsOthers(args, rev, bits, input)
    BY <1>1, NewOutput DEF Edited
  <2>2. touched = Touched(args, rev)
    BY DEF Touched, SetOnes, IsSet, SetsValue, RowsTyped, OfType, Targets, RowOf, RowOfOption
  <2>3. RowIsRight(sprom_table[r])
    BY RowsFacts
  <2>4. size \in Nat /\ input.size \in Nat
    BY <1>1, CaseFacts DEF IInv, IsInputsImage, SPROM_SIZE, SPROM4_SIZE
  <2>5. ASSUME NEW p \in Own(sprom_table[r]) PROVE p \in bits <=> p \in input.bits
    <3>1. p \in Nat /\ p >= 32
      BY <2>3, OwnPlaces
    <3>2. p < 8 * (size - 2)
      BY DEF Inside
    <3>3. IsKept(p, input)
      BY <2>4, <3>1, <3>2 DEF IsKept
    <3>4. p \notin Touched(args, rev)
      BY <2>2
    <3> QED BY <2>1, <3>3, <3>4 DEF KeepsOthers
  <2>6. Get(bits, sprom_table[r]) = Get(input.bits, sprom_table[r])
    BY <2>5, SameValue
  <2> QED BY <2>1, <2>3, <2>6, WithinIsSame
<1> QED BY <1>1, Invariance, ValuesInvariance, PTL

\* GET and --print-all show what the input holds, whatever the same command line
\* sets (main displays before it modifies), for every command line.
THEOREM DisplayIsOfInput == Spec => []ShownIsInput
<1>1. ValuesInv => ShownIsInput
  BY DEF ValuesInv
<1> QED BY <1>1, ValuesInvariance, PTL
-----------------------------------------------------------------------------
\* What a refusal in the second pass says: the option at which it stopped is not
\* accepted for the revision of the image.
HasSize(in) == in.size \in {SPROM_SIZE, SPROM4_SIZE}

Refusal ==
    /\ pc \in {"read", "validate"} => i > Len(args)
    /\ (pc \in {"validate", "pass2"} /\ ~cmd.bin /\ HasSize(input)) => rev = input.rev
    /\ (pc = "rejected" /\ i <= Len(args)) =>
          \/ args[i].o = "help"
          \/ ~Accepted(args[i]) /\ ((~cmd.bin /\ HasSize(input)) => rev = input.rev)

LEMMA RefusalInit == Init => Refusal
BY DEF Init, Refusal

LEMMA RefusalStep == IInv /\ Refusal /\ [Next]_vars => Refusal'
<1> SUFFICES ASSUME IInv, Refusal, [Next]_vars PROVE Refusal'
  OBVIOUS
<1> USE DEF image
<1>1. CASE Pass1 \/ Version
  BY <1>1 DEF Pass1, Version, AtOption, End, Refusal
<1>2. CASE Help
  BY <1>2 DEF Help, AtOption, End, Refusal
<1>3. CASE EndOfPass1 \/ InputTrouble
  BY <1>3 DEF EndOfPass1, InputTrouble, End, Refusal
<1>4. CASE NotAnImage \/ Corrupt
  <2>1. i > Len(args) /\ i \in Nat /\ Len(args) \in Nat
    BY <1>4, CaseFacts DEF NotAnImage, Corrupt, Refusal, IInv
  <2>2. ~(i <= Len(args))
    BY <2>1
  <2> QED BY <1>4, <2>2 DEF NotAnImage, Corrupt, End, Refusal
<1>5. CASE KeepBinary
  BY <1>5 DEF KeepBinary, Refusal
<1>6. CASE ParseHex
  <2>1. i > Len(args) /\ i \in Nat /\ Len(args) \in Nat
    BY <1>6, CaseFacts DEF ParseHex, Refusal, IInv
  <2>2. ~(i <= Len(args))
    BY <2>1
  <2>3. UNCHANGED <<args, input, i, cmd>> /\ pc' \in {"validate", "rejected"}
    BY <1>6 DEF ParseHex
  <2>4. HasSize(input) => rev' = input.rev
    <3>1. HasSize(input) => size' = input.size
      BY <1>6, SizesAreStable DEF ParseHex, HasSize
    <3>2. HasSize(input) => ~(input.size < size')
      BY <3>1 DEF HasSize, SPROM_SIZE, SPROM4_SIZE
    <3> QED BY <1>6, <3>2 DEF ParseHex
  <2> QED BY <2>1, <2>2, <2>3, <2>4 DEF Refusal, HasSize
<1>7. CASE Validate \/ Pass2
  BY <1>7 DEF Validate, Pass2, Refusal, HasSize
<1>8. CASE ArgumentError
  <2>1. /\ UNCHANGED <<args, input, i, cmd, rev>> /\ pc = "pass2" /\ pc' = "rejected"
        /\ ~Accepted(args[i])
    BY <1>8 DEF ArgumentError, End
  <2>2. ~Accepted(args[i])'
    BY <2>1 DEF Accepted, RawAccepted
  <2> QED BY <2>1, <2>2 DEF Refusal, HasSize
<1>9. CASE NoValues
  <2>1. i > Len(args) /\ i \in Nat /\ Len(args) \in Nat
    BY <1>9, CaseFacts DEF NoValues, IInv
  <2>2. ~(i <= Len(args))
    BY <2>1
  <2> QED BY <1>9, <2>2 DEF NoValues, End, Refusal
<1>10. CASE MissingText \/ EndOfPass2 \/ Display \/ ModifyValue \/ NewChecksum \/ NothingModified
            \/ OpenOutput \/ OutputTrouble \/ Truncate \/ WriteOutput \/ ShortWrite
  <2>1. pc' \in {"crashed", "display", "modify", "open", "done", "truncate", "write", "ioerror"}
    BY <1>10 DEF MissingText, EndOfPass2, Display, ModifyValue, NewChecksum, NothingModified,
                 OpenOutput, OutputTrouble, Truncate, WriteOutput, ShortWrite, End
  <2> QED BY <2>1 DEF Refusal
<1>11. CASE UNCHANGED vars
  BY <1>11 DEF vars, Refusal, Accepted, RawAccepted
<1> QED
  BY <1>1, <1>2, <1>3, <1>4, <1>5, <1>6, <1>7, <1>8, <1>9, <1>10, <1>11 DEF Next

LEMMA RefusalInvariance == Spec => []Refusal
BY Invariance, RefusalInit, RefusalStep, PTL DEF Spec

\* A text in the format that print_usage gives for a value sets it.
LEMMA DocumentedTextSets ==
    ASSUME NEW row, RowIsRight(row), row.length # 5, NEW text,
           IsDocumentedText(row.length, text)
    PROVE  text.k = "get" \/ Sets(row.length, text)
<1>1. row.length \in {1, 4, 8, 16, 32, 33, 34}
  BY DEF RowIsRight
<1>2. row.length \in {4, 8, 16, 32} => UsageDigits(row.length) \in Digits(row.length)
  BY DEF UsageDigits, Digits
<1> QED BY <1>1, <1>2 DEF IsDocumentedText, Sets

\* Every value in the format print_usage gives for it is accepted (parse_value),
\* but raw access and values of five bits, for every command line.
THEOREM UsageFormatsAreAccepted == Spec => []DocumentedIsAccepted
<1>1. ASSUME IInv, Refusal PROVE DocumentedIsAccepted
  <2> SUFFICES ASSUME RefusedOption, IsDocumented(args[i]), ~cmd.bin, IsAsDocumented(args[i])
               PROVE  FALSE
    BY DEF DocumentedIsAccepted
  <2>1. ~Accepted(args[i]) /\ rev = input.rev
    <3>1. pc = "rejected" /\ i <= Len(args) /\ args[i].o # "help" /\ HasSize(input)
      BY DEF RefusedOption, HasSize
    <3> QED BY <1>1, <3>1 DEF Refusal
  <2>2. args[i].o \notin {"rawset", "rawget", "-f"}
    BY DEF IsAsDocumented
  <2>3. args[i].o = "value"
    BY <2>1, <2>2 DEF Accepted
  <2>4. /\ Named(rev, args[i].desc) # {}
        /\ IsDocumentedText(RowNamed(rev, args[i].desc).length, args[i].text)
        /\ RowNamed(rev, args[i].desc).length # 5
    BY <2>1, <2>3 DEF IsDocumented, IsAsDocumented
  <2>5. RowIsRight(RowNamed(rev, args[i].desc))
    BY <2>4, NamedFacts, RowsFacts
  <2>6. args[i].text.k = "get" \/ Sets(RowNamed(rev, args[i].desc).length, args[i].text)
    BY <2>4, <2>5, DocumentedTextSets
  <2> QED BY <2>1, <2>3, <2>4, <2>6 DEF Accepted
<1> QED BY <1>1, Invariance, RefusalInvariance, PTL
=============================================================================
