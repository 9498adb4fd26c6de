------------------------------- MODULE Sprom -------------------------------
(***************************************************************************)
(* ssb-sprom (ssb_sprom/ssb_sprom.c): the command line is read once before *)
(* the image and once after it, as the meaning of a value's name depends   *)
(* on the image's revision; the image is checked, values are displayed,    *)
(* then modified, and a modified image is written with a new checksum.     *)
(*                                                                         *)
(* An option is a record whose o is "version", "help", "output", "force",  *)
(* "-f", "binmode", "rawset" (off, val), "rawget" (off), "print-all" or    *)
(* "value" (desc, text). Texts have a kind k, and a value v, which is what *)
(* the parser of the named value reads of them:                            *)
(*   "get"   GET or get       "digit"  0 or 1                              *)
(*   "mac"   five colons, at most two characters behind the last           *)
(*   "hex"   0x and any number of characters, digits or not, of which v is *)
(*           what strtoul makes                                            *)
(*   "chars" two characters   "junk"   anything else                       *)
(*   "none"  the command line ends behind the name                         *)
(***************************************************************************)
EXTENDS SpromFields, SequencesExt

CONSTANTS
    Cases,              \* command lines with the input they are given
    Checksum(_, _, _),  \* sprom_crc of a size, revision byte and bits
    Leftovers,          \* what main()'s uninitialized buffer may hold
    RevBytes            \* the revision bytes in such a buffer

SPROM_SIZE  == 128
SPROM4_SIZE == 440

\* No input is longer than the largest image; a binary one given without
\* --binmode is a small one, which is too short to be hexadecimal digits.
ASSUME CasesAssumption ==
    \A c \in Cases :
        /\ c.args \in Seq({c.args[n] : n \in DOMAIN c.args})
        /\ c.input.format \in {"hex", "binary"}
        /\ c.input.size \in 0 .. SPROM4_SIZE
        /\ \/ c.input.format = "hex" \/ c.input.size <= SPROM_SIZE
           \/ \E n \in DOMAIN c.args : c.args[n].o = "binmode"

\* Images are sets of bit positions.
ASSUME BitsAssumption ==
    /\ \A c \in Cases : c.input.bits \subseteq Nat
    /\ \A left \in Leftovers : left \subseteq Nat

VARIABLES
    args,    \* the command line
    input,   \* the input file: format, size, revision byte, bits and checksum
    pc,      \* the phase of main()
    i,       \* the option or value it is at
    cmd,     \* cmdargs
    rev,     \* sprom_rev
    size,    \* sprom_size
    bits,    \* sprom without the revision and checksum bytes
    crc,     \* its checksum byte
    vparms,  \* cmdargs.vparm
    shown,   \* the values printed
    outfile  \* what has been written to the output

vars == <<args, input, pc, i, cmd, rev, size, bits, crc, vparms, shown, outfile>>
image == <<rev, size, bits, crc>>

Nothing == [state |-> "old", size |-> 0, rev |-> 0, bits |-> {}, crc |-> 0]

Init ==
    /\ \E c \in Cases : args = c.args /\ input = c.input
    /\ pc = "pass1" /\ i = 1
    /\ cmd = [outfile |-> FALSE, force |-> FALSE, bin |-> FALSE]
    /\ rev = 0 /\ size = 0 /\ bits = {} /\ crc = 0
    /\ vparms = <<>>
    /\ shown = {}
    /\ outfile = Nothing

\* The bits of an image of n bytes, without its last two bytes.
Within(n, b) == {k \in b : k < 8 * (n - 2)}

Sum(n, r, b) == Checksum(n, r, Within(n, b))

End(how) ==
    /\ pc' = how
    /\ UNCHANGED <<args, input, i, cmd, image, vparms, shown, outfile>>
-----------------------------------------------------------------------------
\* parse_args, first pass: options that do not depend on the revision.
AtOption(pass, kinds) == pc = pass /\ i <= Len(args) /\ args[i].o \in kinds

Pass1 ==
    /\ AtOption("pass1", {"output", "force", "-f", "binmode", "rawset", "rawget",
                          "print-all", "value"})
    /\ cmd' = [outfile |-> cmd.outfile \/ args[i].o = "output",
               force   |-> cmd.force \/ args[i].o = "force",
               bin     |-> cmd.bin \/ args[i].o = "binmode"]
    /\ i' = i + 1
    /\ UNCHANGED <<args, input, pc, image, vparms, shown, outfile>>

Version == AtOption("pass1", {"version"}) /\ End("version")
Help    == AtOption("pass1", {"help"}) /\ End("rejected")

\* Seeded fault: the output is opened and emptied before the input is read.
FaultyEndOfPass1 ==
    /\ pc = "pass1" /\ i > Len(args)
    /\ pc' = "read"
    /\ outfile' = IF cmd.outfile THEN [Nothing EXCEPT !.state = "empty"] ELSE outfile
    /\ UNCHANGED <<args, input, i, cmd, image, vparms, shown>>

EndOfPass1 == pc = "pass1" /\ i > Len(args) /\ End("read")
-----------------------------------------------------------------------------
\* open_infile, read_infile and parse_input.
InputTrouble == pc = "read" /\ End("ioerror")

IsImageSize(n) == n \in {SPROM_SIZE, SPROM4_SIZE}

\* Binary data is copied; neither the revision nor the size is set.
KeepBinary ==
    /\ pc = "read" /\ cmd.bin
    /\ input.format = "binary" /\ IsImageSize(input.size)
    /\ bits' = input.bits /\ crc' = input.crc
    /\ pc' = "validate"
    /\ UNCHANGED <<args, input, i, cmd, rev, size, vparms, shown, outfile>>

NotAnImage ==
    /\ pc = "read"
    /\ IF cmd.bin THEN input.format # "binary" \/ ~IsImageSize(input.size)
                  ELSE input.format = "binary" \/ input.size < SPROM_SIZE
    /\ End("rejected")

\* More than 300 hex digits are taken for a large image.
ParsedSize(n) == IF 2 * n + 1 > 300 THEN SPROM4_SIZE ELSE SPROM_SIZE

IsLegalRev(r) == r <= 8 /\ r \notin {6, 7}

\* What the input does not fill stays as it was in main()'s buffer; in an input
\* of a size in between these are the revision and the checksum, too.
ParseHex ==
    /\ pc = "read" /\ ~cmd.bin
    /\ input.format = "hex" /\ input.size >= SPROM_SIZE
    /\ size' = ParsedSize(input.size)
    /\ \E left \in Leftovers :
          bits' = input.bits \cup {b \in left : b >= 8 * input.size}
    /\ \/ /\ input.size >= size'
          /\ rev' = input.rev /\ crc' = input.crc
       \/ /\ input.size < size'
          /\ rev' \in RevBytes
          /\ crc' \in {Sum(size', rev', bits'), Sum(size', rev', bits') + 1}
    /\ pc' = IF IsLegalRev(rev') THEN "validate" ELSE "rejected"
    /\ UNCHANGED <<args, input, i, cmd, vparms, shown, outfile>>

\* validate_input. Of binary data nothing is summed up, and the byte before the
\* buffer is taken for the checksum.
IsValid == crc = Sum(size, rev, bits)

\* Seeded fault: the image is always taken.
FaultyValidate ==
    /\ pc = "validate"
    /\ pc' = "pass2" /\ i' = 1
    /\ UNCHANGED <<args, input, cmd, image, vparms, shown, outfile>>

Validate ==
    /\ pc = "validate"
    /\ IsValid \/ cmd.force \/ size = 0
    /\ pc' = "pass2" /\ i' = 1
    /\ UNCHANGED <<args, input, cmd, image, vparms, shown, outfile>>

Corrupt ==
    /\ pc = "validate" /\ ~cmd.force
    /\ ~IsValid \/ size = 0
    /\ End("rejected")
-----------------------------------------------------------------------------
\* parse_args, second pass.

\* Seeded fault: a value of two digits needs the third one.
FaultyDigits(length) == IF length \div 4 = 2 THEN {3} ELSE {length \div 4}

\* The numbers of characters behind 0x accepted for a value of this length.
Digits(length) ==
    {length \div 4} \cup (IF length \div 4 = 2 THEN {3} ELSE {})

\* parse_value, parse_mac and parse_ccode: a text that sets a value. A country
\* code is set by the first two bytes of any text.
Sets(length, text) ==
    CASE length = 34 -> text.k = "mac"
      [] length = 33 -> text.k # "none"
      [] length = 1  -> text.k = "digit"
      [] OTHER       -> text.k = "hex" /\ text.digits \in Digits(length)

\* --rawset and --rawget leave the number of bits at zero: only "0x" sets.
RawAccepted(option) ==
    /\ Sets(0, option.off)
    /\ option.o = "rawset" => Sets(0, option.val)

Accepted(option) ==
    CASE option.o = "value" ->
            /\ Named(rev, option.desc) # {}
            /\ \/ option.text.k = "get"
               \/ Sets(RowNamed(rev, option.desc).length, option.text)
      [] option.o \in {"rawset", "rawget"} -> RawAccepted(option)
      [] OTHER -> option.o # "-f"

Vparm(type, set, v) == [type |-> type, set |-> set, v |-> v]

\* generate_printall: a parameter for every row of the revision.
Questions(row) == IF rev \in row.revs THEN <<Vparm(row.type, FALSE, {})>> ELSE <<>>
AllRows == FlattenSeq([n \in DOMAIN sprom_table |-> Questions(sprom_table[n])])

\* The parameters an option adds.
VparmsOf(option) ==
    CASE option.o = "value" ->
            <<Vparm(RowNamed(rev, option.desc).type, option.text.k # "get",
                    IF option.text.k = "get" THEN {} ELSE option.text.v)>>
      [] option.o \in {"rawset", "rawget"} -> <<Vparm("RAW", option.o = "rawset", {})>>
      [] option.o = "print-all" -> AllRows
      [] OTHER -> <<>>

Dangling(option) ==
    /\ option.o = "value" /\ option.text.k = "none"
    /\ Named(rev, option.desc) # {}

Pass2 ==
    /\ pc = "pass2" /\ i <= Len(args)
    /\ Accepted(args[i])
    /\ vparms' = vparms \o VparmsOf(args[i])
    /\ i' = i + 1
    /\ UNCHANGED <<args, input, pc, cmd, image, shown, outfile>>

ArgumentError ==
    /\ pc = "pass2" /\ i <= Len(args)
    /\ ~Accepted(args[i]) /\ ~Dangling(args[i])
    /\ End("rejected")

\* parse_value compares the missing text: a null pointer.
MissingText ==
    /\ pc = "pass2" /\ i <= Len(args) /\ Dangling(args[i])
    /\ End("crashed")

NoValues == pc = "pass2" /\ i > Len(args) /\ vparms = <<>> /\ End("rejected")

EndOfPass2 == pc = "pass2" /\ i > Len(args) /\ vparms # <<>> /\ End("display")
-----------------------------------------------------------------------------
\* display_sprom and modify_sprom.
Asked == {k \in DOMAIN vparms : ~vparms[k].set /\ vparms[k].type # "RAW"}

Display ==
    /\ pc = "display"
    /\ shown' = {[desc |-> row.desc, v |-> Get(bits, row)] :
                    row \in {RowTyped(rev, vparms[k].type) : k \in Asked}}
    /\ pc' = "modify" /\ i' = 1
    /\ UNCHANGED <<args, input, cmd, image, vparms, outfile>>

\* modify_value; raw offset and value are zero.
Modify(vparm) ==
    \/ ~vparm.set /\ bits' = bits
    \/ vparm.set /\ vparm.type = "RAW" /\ bits' = bits \ (0 .. 7)
    \/ /\ vparm.set /\ vparm.type # "RAW"
       /\ \E row \in {RowTyped(rev, vparm.type)} : bits' = Put(bits, row, vparm.v)

ModifyValue ==
    /\ pc = "modify" /\ i <= Len(vparms)
    /\ Modify(vparms[i])
    /\ i' = i + 1
    /\ UNCHANGED <<args, input, pc, cmd, rev, size, crc, vparms, shown, outfile>>

IsModified == \E k \in DOMAIN vparms : vparms[k].set

\* Seeded fault: the old checksum is kept.
ForgottenChecksum ==
    /\ pc = "modify" /\ i > Len(vparms) /\ IsModified
    /\ End("open")

NewChecksum ==
    /\ pc = "modify" /\ i > Len(vparms) /\ IsModified
    /\ crc' = Sum(size, rev, bits)
    /\ pc' = "open"
    /\ UNCHANGED <<args, input, i, cmd, rev, size, bits, vparms, shown, outfile>>

NothingModified == pc = "modify" /\ i > Len(vparms) /\ ~IsModified /\ End("done")
-----------------------------------------------------------------------------
\* open_outfile, write_output, close_outfile.
OpenOutput == pc = "open" /\ End(IF cmd.outfile THEN "truncate" ELSE "write")

OutputTrouble == pc \in {"open", "truncate", "write"} /\ End("ioerror")

Truncate ==
    /\ pc = "truncate"
    /\ outfile' = [Nothing EXCEPT !.state = "empty"]
    /\ pc' = "write"
    /\ UNCHANGED <<args, input, i, cmd, image, vparms, shown>>

Written(state) == [state |-> state, size |-> size, rev |-> rev,
                   bits |-> Within(size, bits), crc |-> crc]

WriteOutput ==
    /\ pc = "write"
    /\ outfile' = Written("new")
    /\ pc' = "done"
    /\ UNCHANGED <<args, input, i, cmd, image, vparms, shown>>

\* write() may write less than it was given; only an error is noticed.
ShortWrite ==
    /\ pc = "write"
    /\ outfile' = Written("partial")
    /\ pc' = "done"
    /\ UNCHANGED <<args, input, i, cmd, image, vparms, shown>>

Ended == pc \in {"done", "version", "rejected", "crashed", "ioerror"}

Next ==
    \/ Pass1 \/ Version \/ Help \/ EndOfPass1
    \/ InputTrouble \/ KeepBinary \/ NotAnImage \/ ParseHex \/ Validate \/ Corrupt
    \/ Pass2 \/ ArgumentError \/ MissingText \/ NoValues \/ EndOfPass2
    \/ Display \/ ModifyValue \/ NewChecksum \/ NothingModified
    \/ OpenOutput \/ OutputTrouble \/ Truncate \/ WriteOutput \/ ShortWrite
    \/ Ended /\ UNCHANGED vars

Spec == Init /\ [][Next]_vars
-----------------------------------------------------------------------------
\* Command-line values, the row a name stands for and the rows of its type.
IsSet(n)   == args[n].o = "value" /\ args[n].text.k # "get"
IsAsked(n) == args[n].o = "value" /\ args[n].text.k = "get"
RowOf(n)     == RowNamed(rev, args[n].desc)
OfType(type) == {sprom_table[r] : r \in Typed(rev, type)}
IsTwin(row)  == OfType(row.type) # {row}
Targets(n)   == OfType(RowOf(n).type)

SetOnes == {n \in DOMAIN args : IsSet(n)}
AllFit  == \A n \in SetOnes : Fits(RowOf(n), args[n].text.v)
Inside(row) == \A k \in Own(row) : k < 8 * (size - 2)
Apart(row, other) == Own(row) \cap Own(other) = {}

\* A value that was set is found in the output under its own name, whatever
\* else was set before it or elsewhere (parse_args, modify_sprom): except
\* where a later value lies on the same bits, two names share a type, or the
\* revision's values do not fit into the image.
EditsTakeEffect ==
    (outfile.state = "new" /\ AllFit) =>
        \A n \in SetOnes :
            \/ Get(outfile.bits, RowOf(n)) = args[n].text.v
            \/ IsTwin(RowOf(n))
            \/ ~Inside(RowOf(n))
            \/ \E m \in SetOnes : m > n /\ \E row \in Targets(m) : ~Apart(row, RowOf(n))

\* A value that shares no bit with one that was set is the same in the output
\* as in the input (modify_value): the neighbours in a word are kept.
OthersKept ==
    (outfile.state = "new" /\ AllFit /\ input.size >= size) =>
        LET touched == UNION {UNION {Own(row) : row \in Targets(n)} : n \in SetOnes}
        IN  \A r \in RowsOf(rev) :
                (Inside(sprom_table[r]) /\ Own(sprom_table[r]) \cap touched = {}) =>
                    Get(outfile.bits, sprom_table[r]) = Get(input.bits, sprom_table[r])

\* What was written from a hexadecimal image is one the tool would read again
\* without --force, with the same revision and size (modify_sprom).
OutputIsAcceptable ==
    (outfile.state = "new" /\ size # 0) =>
        /\ outfile.crc = Checksum(outfile.size, outfile.rev, outfile.bits)
        /\ ParsedSize(outfile.size) = outfile.size /\ IsLegalRev(outfile.rev)
        /\ input.size >= size => outfile.rev = input.rev

\* The output, which may be the input file itself, is left alone when the
\* command line, the image or a value is refused (main's gotos to out).
RejectedKeepsOutput == pc \in {"rejected", "crashed", "version"} => outfile = Nothing

\* An image whose checksum is wrong is only modified when --force was given,
\* wherever it stands among the values (validate_input, the two passes).
ForcedOrValid ==
    (outfile # Nothing /\ size # 0 /\ input.size >= size) =>
        \/ \E n \in DOMAIN args : args[n].o = "force"
        \/ input.crc = Sum(size, input.rev, input.bits)

\* GET and --print-all show the values of the input under their own names, even
\* those that the same command line sets, and nothing else (main displays
\* before it modifies): except where two names share a type.
IsShown(row) ==
    \/ IsTwin(row)
    \/ \E k \in Own(row) : k >= 8 * input.size
    \/ [desc |-> row.desc, v |-> Get(input.bits, row)] \in shown

ShownIsInput ==
    pc \in {"modify", "open", "truncate", "write", "done"} =>
        LET all == \E n \in DOMAIN args : args[n].o = "print-all"
            asked == {n \in DOMAIN args : IsAsked(n)}
        IN  /\ \A n \in asked : IsShown(RowOf(n))
            /\ all => \A r \in RowsOf(rev) : IsShown(sprom_table[r])
            /\ \A s \in shown : all \/ \E n \in asked : \E row \in Targets(n) : s.desc = row.desc

\* What print_usage says of an option's text: [MAC-ADDR], [2 Char String],
\* [BOOL], [0x...] and 0xFF,0xFF.
UsageDigits(length) == (length + 3) \div 4

IsDocumentedText(length, text) ==
    CASE text.k = "get" -> TRUE
      [] length = 34 -> text.k = "mac"
      [] length = 33 -> text.k = "chars"
      [] length = 1  -> text.k = "digit"
      [] OTHER       -> text.k = "hex" /\ text.digits = UsageDigits(length)

IsDocumented(option) ==
    CASE option.o = "value" ->
            /\ Named(input.rev, option.desc) # {}
            /\ IsDocumentedText(RowNamed(input.rev, option.desc).length, option.text)
      [] option.o = "rawset" -> IsDocumentedText(8, option.off) /\ IsDocumentedText(8, option.val)
      [] option.o = "rawget" -> IsDocumentedText(8, option.off)
      [] OTHER -> TRUE

\* Options on which the tool and its usage text differ.
IsAsDocumented(option) ==
    /\ option.o \notin {"rawset", "rawget", "-f"}
    /\ option.o = "value" => RowNamed(input.rev, option.desc).length # 5

RefusedOption ==
    /\ pc = "rejected" /\ i <= Len(args) /\ args[i].o # "help"
    /\ input.size \in {SPROM_SIZE, SPROM4_SIZE}

\* A value in the format print_usage gives for it is accepted, for the revision
\* that the image has (parse_value), but for raw access and five-bit values.
DocumentedIsAccepted ==
    (RefusedOption /\ IsDocumented(args[i]) /\ ~cmd.bin) => ~IsAsDocumented(args[i])
-----------------------------------------------------------------------------
\* What the texts of the program promise and the code does not keep.

\* Every option in the documented format is accepted (print_usage).
UsageIsAccepted == RefusedOption => ~IsDocumented(args[i])

\* A value that was given is in the output (print_usage: "otherwise it is
\* modified").
SetValuesReadBack ==
    (outfile.state = "new" /\ AllFit) =>
        \A n \in SetOnes :
            \/ Get(outfile.bits, RowOf(n)) = args[n].text.v
            \/ \E m \in SetOnes : m > n /\ ~Apart(RowOf(m), RowOf(n))
=============================================================================
