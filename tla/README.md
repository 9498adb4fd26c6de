# Formal models of b43-tools

b43-tools is the tool box around the firmware of Broadcom's wireless cores: an
assembler and a disassembler for the microcode, tools that cut firmware out of
driver files or convert it, an editor for the device's SPROM, and scripts that
look into a running device. This directory holds TLA+ models of those tools,
TLC configurations that check them, and proofs for TLAPS.

## The system

The tools are separate, single-threaded programs. They interact through files:

```
  source --b43-asm--> microcode image (.fw) --b43-dasm--> source
                  \-> initvals files (.fw) --b43-ivaldump--> .initvals section
  driver file --b43-fwcutter--> image and initvals files
              --b43-fwcutter -b--> data + header file <--brcm80211-fwconv
  SPROM dump --ssb-sprom--> SPROM dump
  device --b43-fwdump (libb43, b43-dasm)--> dump
  image --patch script (libb43: b43-dasm, TextPatcher, b43-asm)--> image
```

| component | state | operations | hard behaviour | what makes it correct |
|---|---|---|---|---|
| b43-asm: parser (`assembler/parser.y`, `scanner.l`) | current section, statement list, list of initvals sections | a statement, a section switch, an initvals write, a syntax error | sections are left and reopened | every write joins the section it stands in |
| b43-asm: core (`assembler/main.c`) | directives, the list `ctx->output` with addresses, label references (a union of label pointer and address), the output file | evaluate directives, assemble a statement, calculate addresses, resolve references, remove the `%start` jump and start over, write the image | a list changed while its addresses are in use; a union overwritten before a restart; relative labels; errors after half of the work; failing writes | the image means what the source says; errors leave the old file; addresses and references fit the final list |
| b43-asm: initvals (`assembler/initvals.c`) | the section list, the writes of the current section and their counter, one file per section | turn an operation into register writes, write header and records, next section | one operation becomes up to four ordered writes; errors in the middle of a file | a device that loads the file holds what the operations say; headers count records |
| b43-dasm (`disassembler/main.c`) | the binary code, the statement list with labels inserted while it is walked, the text | read words, disassemble, insert or share labels, name them, print | insertion into the list being walked; a label in front of the first or behind the last instruction; operands left out of the text | the text assembles to the same image |
| b43-ivaldump, brcm80211-ivaldump (`disassembler/`) | position in the file | check the header, decode a record | records of 6 and 8 bytes told apart by one bit; files that end early | the section it prints means the file |
| b43-fwcutter (`fwcutter/fwcutter.c`) | the driver file, the object in hand, one output per object | identify, extract, convert initvals | an error or the end after some files are written; byte order turned in place; closes nobody looks at | the files hold the driver's values |
| brcm firmware store (`fwcutter.c` -b, `brcm80211-fwconv`) | a data file and a header file | empty, append an entry, list, extract, merge | two programs on two files that are changed one after the other; files from elsewhere | header and data agree; an accident costs one section |
| ssb-sprom (`ssb_sprom/`) | the SPROM image, its revision and size, the list of values to get and set | two passes over the arguments, CRC check, display, modify, write | arguments whose meaning depends on the image; fields that share words | an edit changes its field and the CRC, and nothing else |
| patch scripts (`debug/patcher-template`, `libb43.py`) | the microcode files, the text and its lines | disassemble, check the MD5 sum, delete and add lines, assemble, write | edits shift lines; tools whose status nobody looks at; a script run again on its own output | patches hit the lines they name, once |
| b43-fwdump (`debug/b43-fwdump`, `libb43.py`) | the control register and the processor, shared with driver and other dumpers | stop, read register by register, start, print | others start the processor meanwhile; an error leaves it stopped | a dump shows one state; the device is handed back |

Concurrency exists only between the debug tools and the driver (`FwDump`). What
is hard elsewhere are long sequences over linked lists, restarts inside a pass, one step of
several failing, and encodings at the edge of their width. PROJECT.json lists
every such place under "hazards".

## The modules

### b43-asm

`Words` represents machine words as sets of bit numbers, so that 48 and 51 bit
code words and C's shifts stay exact in TLC. `AsmOperands` is the encoding of
operands (registers, memory, immediates) on both architectures with its errors
and warnings. `AsmInstructions` is instruction selection: emulated instructions
(`mov`, `jand` with masks, inverted jumps), restrictions and opcodes.

`Assembler` is the state machine of `assemble()`. One step is one iteration of
one of its loops; `pc` names the loop, `i` the element it is at.

| action | code |
|---|---|
| EvalArch, EvalStart, EvalOther, DirectiveError | `eval_directives` |
| BeginAssembly, AssembleInsn, AssembleLabel, AssembleDirective, AssembleError | `assemble_instructions`; BeginAssembly puts the jump to `%start` first |
| BeginAddresses, CountInsn, CountLabel, BeginResolve | the address loop of `resolve_labels` |
| ResolveInsn, RemoveStart, ResolveLabel, ResolveError | the reference loop; RemoveStart is `list_del` and `goto recalculate_addresses` |
| OpenOutput, EmitInsn, EmitLabel, CloseOutput, OpenFails, WriteFails, CloseLosesData | `emit_code`; CloseLosesData is an `fclose` whose failure nobody looks at |

`AsmMeaning` is the abstract specification: a program is rejected without a
trace, or translated in one step to the image its statements mean, where a
label means the number of instructions before it (one more when a `%start` jump
is needed). `Assembler` implements it (`ImplementsMeaning`, the abstract
specification with `status` and `image` mapped to the detailed state).

### Operands, both ways

`OperandCodec` takes one operand through `AsmOperands` into an operand field,
through `DasmOperands` (the operand printing of `disassembler/main.c`) into
text and through the assembler again.

### b43-dasm and the round trip

`Disassembler` is `b43-dasm`: ReadInsn, ReadError, EndOfInput (`read_input`),
DisasmInsn, DisasmFails, EndOfCode (`disassemble`), UseLabel, MakeLabel,
UseListHead, SkipStatement, OutOfBounds, NameLabels (`resolve_labels` with
`get_label_at`), OpenOutput, OpenFails, EmitStatement, CloseOutput
(`emit_asm`). `get_label_at` reads the statement type in front of the first
instruction, which is the head of the list and no statement: the value it reads
is whatever the build has there, so that UseListHead and MakeLabel are both
possible. `DasmInstructions` is the table
of instructions and how their operands are printed.

`RoundTrip` composes the two programs as `assembler/selftest.sh` does: the text
of the disassembler is the program of `AsmMeaning`, and `TextMakesImage`
compares the images.

### initvals

`InitvalFormat` has the register writes of each operation, the record a write
becomes and what `b43-ivaldump` decodes of it; `FwFormats` has the whole script
with its checks of the file. `InitvalDevice` is the device: control
registers that select where a data register writes; it is external to the
repository and modelled from the writes `initvals.c` makes. What a section means
excepts writes that are misaligned or go to a window's registers past its own
operations (Misaligned, Bypasses). `Initvals` is the
state machine: the parser's sections (SwitchToText, SwitchToIvals, IvalsWrite,
Statement, SectionError, EndOfSource), the microcode that is assembled before
(AssembleMicrocode, MicrocodeError), and `assemble_initvals`: BeginSection,
AssembleOp, OpenFile, OpenFails, EmitIval, OffsetError, WriteFails, CloseFile,
CloseLosesData, NextSection, LastSection.

### ssb-sprom

`SpromTable` is the tool's table of values: name, type, offset, mask, length
and revisions of each row. `SpromFields` finds a row by name or by type and
reads and writes its bits in an image, a set of bit positions. `Sprom` is
`main()`: both passes over the command line (Pass1, Version, Help, EndOfPass1;
Pass2, ArgumentError, MissingText, NoValues, EndOfPass2), the input between
them (InputTrouble, KeepBinary, NotAnImage, ParseHex, Validate, Corrupt), then
Display, ModifyValue for each value, NewChecksum or NothingModified, and the
output (OpenOutput, Truncate, WriteOutput, ShortWrite, OutputTrouble). Two
things are choices because the C program leaves them open: what the
uninitialized image buffer holds behind a short input (`Leftovers`,
`RevBytes`), and how much `write()` writes. The checksum is a constant operator
here; `Crc8` is the real one, with the table of `utils.c`, run over two images
at a time that differ in one byte.

### Firmware files: b43-fwcutter, brcm80211-fwconv

`FwFormats` has the conversions: byte order (SwapWords, SwapIvs), `build_ivs`
with its refusals, the header of a b43 file, and the two dump scripts, as
operators on sequences of bytes. `FwCutter` is `b43-fwcutter`: it finds the
driver (Found, NotFound), identifies its objects or writes each to a file
(Identify, ConversionError, OpenFile, WriteFile, LastObject), or, with -b,
empties the data file and the header file (ClearBin, ClearHeader) and appends
data and entry of each object and of the dummies (ConvertObject, SkipObject,
AppendEntry, AppendData, AddDummies, LastDummy). `FwConv` adds
`brcm80211-fwconv` on the same two files (Parse, ParseFails, DumpInfo,
NoSection, ExtractSection, Confused, MergeSection, WriteBin, WriteHdr). The user
runs either program again and again (RunFwCutter, RunFwConv).

Every read, open and write may fail, every unchecked close may lose a part of
what was written (the actions whose names end in Fails, CannotOpen), and the
program may be ended between two steps (Killed, KilledInMerge); one such
accident happens in a behaviour, as `faulty` says, and `damaged` that it hit the
two files of brcmsmac while they were being changed. A piece of an entry in the
header file is `Torn`.

`SectionStore` is the abstract specification of the two files: a set of sections
by index that is emptied, grows by one section, has one replaced, or is damaged
by an accident. `FwConv` implements it (`ImplementsStore`); in the middle of an
append or a merge the mapping shows the store as it was before or will be.

### Patch scripts

`TextPatcher` is a script made from `patcher-template` with the classes of
`libb43.py`: Run with any input and output, also the same file, Disassemble,
Check (the MD5 sum; Refuse), DelLine and AddText for each edit (LineMissing),
PrintText or Assemble, OpenOutput, WriteOutput. DisassembleFails and
AssembleFails go on with what the failed tool leaves, as the code does. Edits
are the input; the reference is `Patched`, which applies them to the unmodified
text all at once.

### State dumps

`FwDump` is `b43-fwdump` as several processes on one device: UcodeStop,
ReadRegister for each access, UcodeStart, PrintDump with the window of
`makeShortDump`, and Broken, an access that fails. DriverWrites, PsmRuns and
MaskSet are external: the driver's own changes of the control register, the
processor that runs on while it is allowed to, and the kernel's masked write.

### Seeded faults

An operator whose name starts with Faulty (or No, Wrong, Forgotten, Early) stands in
front of the definition it is a broken version of, with the bug it stands for
in a comment. No specification uses them; the "mutants" of PROJECT.json
substitute them to show that each property notices such a bug.

## The runs

| run | instance | what it shows |
|---|---|---|
| operand_codec | all 2^12 and 2^13 operand fields; source operands of every class around every limit; labels at all addresses up to 4095 | unless a warning was given, an encoded operand means the source's operand, and a label its address up to the sign bit; a field is disassembled to a text that assembles to it, or names a register the assembler refuses |
| assembler | `AllPrograms`: up to four statements over two labels, absolute, back and forward references, with and without `%start`; up to four directives, labels and instructions in any order; pairs of all instruction kinds on both architectures; opcodes, operands and jump targets given as machine numbers | addresses, references and the removal of the start jump; which programs are rejected, with the output untouched; the image is the one the program means, behind a header that counts its bytes; a RET is warned about exactly behind a jump (behind JG nothing is asked); the program ends |
| round_trip | all control flow of up to four instructions; all instruction forms with operand classes; damaged files; the images that b43-asm makes of small programs (`made`), hand-coded words of every opcode that b43-dasm treats in its own way among them | labels stay right while the list grows; the text makes the image it came from unless something is hidden or refused; refusals have a reason; the assembler's own images are accepted in every pass and come back, but for hand-coded words and labels behind the code; the program ends |
| initvals | `AllSources`: up to five lines over two sections, and triples of operations in two sections, with every failure of a file; each operation behind one that `FilesMeanTheirSections` excepts | sections hold their own writes; files are finished in order, count their records, mean their sections on the device and come back through the dump |
| unaligned_write (finding) | pairs with an unaligned 32-bit write | the halves are swapped |
| sprom | `AllCases`: each row of each revision with three patterns in images of zeros and of ones; each pair of rows at most four bytes apart; all pairs of options; every kind of text; sizes 0, 127, 128, 149, 150, 439, 440, revisions 0, 1, 5 to 9, hexadecimal and binary, intact and corrupted | a value set reads back and its neighbours are kept; GET shows the input; the output is acceptable input; a refused command line leaves the output alone; nothing corrupted is written without --force |
| shared_type (finding) | pam5l on revision 4 | another value is set |
| binary_image (finding) | GET with --binmode | an intact image is refused |
| crc8 | images of every length of bytes 0 and 90, one byte of any value changed anywhere | one changed byte is always noticed |
| firmware_files | up to three commands of both programs; drivers of both byte orders with objects of every kind, refused, unsupported and unknown ones; files from elsewhere with gaps, overlaps, an index twice and data that end early; one failing, lossy or interrupted step | other sections survive an accident; b43 files hold the driver's values; both users get the same initvals; only accidents part the two files; they are a store of sections |
| patching | every script of up to two edits with line numbers from -1 to 4 on a text of three lines, and of three neighbouring edits; two runs on two files in every direction, any tool and write failing | line numbers mean the unmodified text; a file is patched once or not at all, and only a failed assembly or write damages it |
| fwdump | two dumpers, one with shared memory and --binary, two changes by the driver and two of the processor, an access failing anywhere; texts of 4 and 24 instructions with labels | a dump is of one state unless someone else starts the processor; the driver's bits stay; the short dump shows the program counter; a stopped processor is started again |

Bounds. Four statements are enough for a label in front of, between and behind
two jumps, for an ambiguous, a missing and a repeated relative label and for
the start jump being needed or not; a fifth adds no new order of a reference
and its definitions. Four instructions let the disassembler insert a label in
front of, at, and behind the statement it is visiting, twice at the same place,
and at the address behind the end. A hand-coded word stands first or behind a
start jump, with a word of any fate behind it, so that b43-dasm stops at the
first word and at a later one in each of its passes. The operand fields are
complete. Five lines
of a source allow leaving a section, writing to another and coming back. A
section of three operations puts every operation behind every other one, which
is what the control word that stays in the device needs. The rows of the SPROM
are complete, and two values can only disturb each other when their words meet
or a wide value spills into the next word, which is within four bytes (a MAC
address is the longest with six, and its end is within four bytes of what
follows). The sizes are those on both sides of each comparison in the code. The
checksum only needs one bit of difference between two registers to be followed
for as long as the images go on; its state space is closed under any length.
Three commands let files from elsewhere, an extraction and a merge follow each
other in any order, or an accident lie between two good commands. One accident
is enough as the properties speak of what the first one costs. The objects of
`Typical` are of each kind for both users or one of them, with a rest behind the
last word. Two edits of a script are every pair that can disturb each other, a
third one between neighbours moves a line twice; the second run meets its own
output. Two dumpers are enough for one to start the processor while the other
reads; each makes three or four accesses instead of a hundred, as each pair of
accesses is alike, and two changes of the processor make a dump of three states
possible. The texts are shorter and longer than the window of 16 lines, with the
program counter near both ends.

Fairness is `WF_vars(Next)` in `Assembler` and `Disassembler`: each program is
one thread that runs until it ends and waits for nobody, so that a step that is
possible is taken. In `FwDump` each dumper is such a process
(`WF_vars(Dumper(d))`); nothing is assumed of driver and processor. All other
specifications have safety properties only and assume none. Deadlock checking
is off where the programs end; `Sprom` stutters at its ends and is checked for
it.

## The proofs

| module | theorems | proved for every |
|---|---|---|
| Assembler_proofs | TypesCorrect, AddressesAreConsistent, ReferencesAreResolved, RestartsBeforeResolving, RejectionKeepsFile, WarningsAreJustified, MeaningIsImplemented | set of programs |
| Disassembler_proofs | ReferencesStay | set of images, of any length |
| Initvals_proofs | TypesCorrect, HeadersCountRecords, FilesAreInOrder, SectionsAreRight, DumpsAssembleToTheFile, FilesMeanWhatIsWritten | set of sources, number and length of records |
| Sprom_proofs | RefusalKeepsOutput, OutputsAreAcceptable, WrittenIfForcedOrValid, ModificationsTakeEffect, OtherValuesAreKept, DisplayIsOfInput, UsageFormatsAreAccepted | set of command lines and inputs, every checksum, every content of the buffer |
| FwConv_proofs | OnlyAccidentsDamage, FilesAreAStore, MergeReplacesOne, FilesHaveDriverData, OneSectionAtMost, InitvalsOfBothFilesAgree | set of drivers and files from elsewhere, length of their objects, number of commands |
| TextPatcher_proofs | EditsMeanOriginalLines, FilesArePatchedOnce | text, set of scripts and files, number of runs |
| FwDump_proofs | SnapshotsAreConsistent, DevicesAreHandedBack, ShortDumpsShowPc | set of dumpers, texts, number of registers and of changes by driver and processor |

`SequenceLemmas` states once what these share. None of the provers can
instantiate the library's induction theorems. Induction is done by the least
counterexample instead: LeastNatural comes from the well-foundedness of the
numbers, and MinFacts, RecursionExists, SetRecursionExists and FlattenRecursion
from it, so that what `FlattenSeq` or a recursive function computes is known for
every length. The other lemmas say what `Append`, `\o`, `SubSeq`, `RemoveAt`,
`EXCEPT` and `FlattenSeq` do to sequences, also to those of an unknown element
type, and where the blocks of a joined sequence begin.

### Assumptions

What the constants are assumed to be is in the module that declares them, and
TLC evaluates it in the runs. `ProgramsAssumption` and `SourcesAssumption` are
what the parsers make of a text: statements of the known kinds, a label
reference with one of its three directions, a register write of a known type to
an unsigned offset (`struct initval_op`).
`FwCutterAssumption` is what `fwcutter_list.h` holds: a driver is of one of two
byte orders, no list extracts a name twice, none has `n0absinitvals16` (which
would get an index a dummy has), initvals are at least one record of eight
bytes, and lengths have 32 bits as in `struct extract`. That files from
elsewhere are of bytes and entries is all it says of them. `CasesAssumption` and `BitsAssumption` bound
the input of ssb-sprom by the largest image. `TextPatcherAssumption` says that
texts are sequences of lines and scripts sequences of `delLine` and `addText`
with integers as line numbers. `FwDumpAssumption` says that a text is a sequence
of lines with and without an address. `DisassemblerAssumption` and
`FwConvAssumption` only say of which kind a value is. Bounds of the runs, such
as `MaxCommands`, are any numbers in the proofs.

### Invariants

No property below is inductive as it stands. What each needs besides itself:

`Assembler`, IInv: that addresses are right when the code is written needs, in
the address loop, that they are right up to the loop's position
(AddressesSoFar), and that resolving starts from there. That references are
right needs ResolvedSoFar and that resolving changes neither names nor addresses
of labels (`SameLabels`). That no restart follows an overwritten union needs that
the start jump is the first entry or none (StartFirst). WarnInv adds what
`is_jump_insn` says of the statements so far.

`Assembler` implements `AsmMeaning`, MeaningInv: `Places` takes the entries of
the list to the statements of the program they were made from, in the same order
and without a gap but for directives; so the labels before an entry are those
before its statement (PlacesOrder, LabelsPlaced), a reference means the same
label in both (SameReference), and the address of an entry is the number of
instruction statements before its own (AddressIsRank), one more while the start
jump is in the list. Whether the jump is removed is decided by what AsmMeaning
asks of the program (StartDecides). Each action then maps to Reject, Translate,
Trouble or a stutter.

`Disassembler`, ListInv: a new label moves the entries behind it and counts for
none of the addresses (UpToSame, UpToShift); that no reference is given the
wrong label needs that each label's number is its own (LabelsAreDistinct) and
that statements which are not yet visited carry none (NothingResolvedYet). The
list's head, which `get_label_at` may take for a label, is a choice here too.

`Initvals`, IInv: section names differ, the context's counter is the length of
its list, which file belongs to the current section, that finished ones are
closed and later ones untouched, and that the records written are a count that
the loop's position gives. ParseInv: each section holds the writes of the lines
so far whose last switch is to its name (ParsedSoFar). RecordInv, for
`DumpsReturn`: every record of a file is an offset up to the limit with one word
behind it, or one with the flag and two words (IsRecord), for which the writes of
the context must have offsets that are numbers. Such records, joined, are printed
one by one, as each place the dump goes to is where a record begins
(RecordsInBody, DumpIs, DumpOfRecords). MeaningInv, for `FilesMeanTheirSections`:
the context holds the writes of the section's operations so far, and a closed file
the records of all of them (ContextHoldsWrites, FilesHoldWrites). What they do to
a device is shown for one operation, whatever the operations before it left in the
control registers (OperationMeans): its first write selects the cell that its
second one accesses, both are read back as they were written, and which half of
which shared-memory cell a byte offset is in comes out alike (SelectedCell). The
device's memory then follows the operations one by one (LoadedIsMeant).

`Sprom`, IInv: what was found out about the image from phase to phase: which
phases may have touched the output (Untouched), that behind `parse_input` the
image is the input's and has a known size and revision (IsInputsImage), that
behind `validate_input` it is intact or forced (IsChecked), that the checksum
fits from `modify_sprom` on (IsSummed); what the buffer held behind a complete
image is not summed up (LeftoversAreNotSummed). ValuesInv: the parameters are
those of the options, in their order (Collection), and the image is the input
with the parameters so far put in (Edition). Its steps rest on what all
rows of the table have in common (TableIsRight, proved group by group): which
bits a value has, that they are as many as its type, and that reading what was
put returns it (PutGet) and leaves other bits alone (PutKeeps). Refusal: why
`pass2` refused.

`FwConv`, ConvInv: the types, StoreIsSound (entries and data fit, at any pc) and
IndicesAreFresh, which says that the indices of a driver's further objects are
not in the header yet. The offsets of what an extraction writes grow; those of
files from elsewhere need not, and for them `merge` first sorts the entries
(ByOffsetPermutes). MergedFacts follows data and offsets through the
loop of the merge. Every action is then Reset, Add, Replace, Damage or a stutter of
`SectionStore`.

What the files hold (`FilesAreDriverData`) needs FilesInv, which says of every
file when it was written and from which object; what it means rests on the byte
orders: swapping words or the fields of records keeps their values
(SwappedWordsMeanTheSame, SwappedIvsMeanTheSame), and four bytes hold any length
of 32 bits (NumberOfLe32). `AtMostOneSectionLost` needs OneLost: which of the
driver's sections have been finished in each phase of an extraction (Phases), and
that all of them but the one of the accident have an entry (AllButOneThere) and
the right data where it says (AllButOneGood); only data behind a lost piece move,
and those are entered with the offset they really have. `InitvalsAgree` needs
both, and that a dump of joined records finds where each begins, for either byte
order and either length of record (DumpIs, BrcmDumpIs, RecordsInFile).

`TextPatcher`, PatchInv: the list of lines is one block for each line of the
unmodified text, what was added in front of it and the line, deleted or not, with
its own number; an edit changes the block of its line (EditDel, EditAdd), added
lines have number -1 and are found by no edit but one of line -1. FilesInv keeps
what each file is across runs.

`FwDump`, DumpInv: while a dumper reads and nobody has started the processor, it
stands still and has done so since the first access (StandsStill), whatever
another dumper or the driver does; what is printed is the window of the text for
the counter that was read (ShownIsShortDump), of which ShortDumpIsWindow says
which lines it has.

### Only model-checked

- Liveness (`Terminates`, `RunsAgain`): fairness is out of the prover's reach.
- `EveryChangeIsSeen`: `Crc8` uses Bitwise, which cannot be used in a proof.
- `TextMeansSource` and `FieldIsStable` of `OperandCodec`, which TLC checks for
  every operand field and every operand class, and the three of `RoundTrip`,
  which need them for all forms of instructions.

## Findings

Each is a run that TLC must find violated; PROJECT.json quotes code and
document. An unaligned 32-bit shared memory write swaps its halves; ssb-sprom
sets pam5h when it is told to set pam5l, as both rows carry one type; ssb-sprom
refuses every value of a binary image, as reading one sets no revision.

Other properties hold with exceptions that stand in their text and come from
these deviations, which no run of their own shows. Of b43-asm and b43-dasm:

- a label as an immediate operand is ORed into the operand unchecked
  (`assembler/main.c:1086`): from address 512 (arch 5) or 1024 (arch 15) on its
  sign bit is set and it reads back as another number;
- a RET behind JG is not reported, as the case of `OP_JG` does not set
  `is_jump_insn` (`assembler/main.c:854`), although the comment at line 52 has it
  set for every jump: `RetWarningsJustified` asks nothing of such a RET, so that
  it holds before and after a correction;
- b43-dasm refuses a reference to the address behind the last instruction
  (`disassembler/main.c:807`), which b43-asm writes for a label at the end;
- what the programmer writes as a machine number is taken over unchecked: an
  opcode or operand behind an @, or a jump to something else than a label
  (`HandCoded`). b43-dasm refuses such a word in each of its passes: when it has
  too many bits (`disassembler/main.c:953`), when it is @4 or @5 on architecture
  5 or TKIP with other flags (lines 552 to 606), when it jumps out of the code
  (807). Or the text hides operands (@1, @2, @3), or b43-asm refuses it (two
  operands in memory, an immediate to store to). `AssembledImagesReturn` says
  that this happens to no other word.

Of the firmware tools:

- microcode whose length is no multiple of four keeps the bytes behind the last
  word unswapped; `analyse_ucode` looks for a version in data of the driver's
  big-endian order and prints it on big-endian hosts only;
- with -b, a header file that cannot be opened for emptying is closed all the
  same (`fwcutter.c:509`), a null pointer;
- a merge of microcode by brcm80211-fwconv leaves the section with its size as
  it was; its "Failed to read input data" is unreachable, as slices of bytes
  never raise an IndexError;
- a program that is ended or fails between the two files leaves a pair that does
  not belong together, and a lost piece of an entry makes all behind it
  unreadable.

Of the debug tools:

- a failed assembly writes its empty output over the output file and the script
  ends with success;
- an edit of line -1 finds the first inserted line instead of failing;
- an exception between stop and start leaves the processor stopped, and a second
  dumper or the driver may start it while the first one reads;
- `makeShortDump` never shows the last line of the text.

Of ssb-sprom:

- rows that overlap: maxpa and itssia of revision 8 have the same mask of the
  same word; the MAC address and the regulatory revision of revision 5 share bytes;
- a value of eight bits may be given with three digits, and the ninth bit and
  those above it go to the neighbour in the word;
- an input of 128 bytes whose revision is 8 is taken; values beyond its end are
  set and lost when it is written;
- `--rawset` and `--rawget` accept "0x" alone instead of the documented bytes;
- et0phy and et1phy are documented with two digits and take one;
- `-f` is documented for `--force` and unknown to the code;
- `--print-all` shows pam5h where pam5l is meant;
- a name at the end of the command line without a text compares a null pointer;
- a write that stops in the middle is not noticed.

## Not modelled

Tokens, constant expressions, comments and line numbers of the assembler's
language, option parsing of the other tools, memory allocation, the C
preprocessor pipeline of the `b43-asm` script, verbose output, MD5 (sums stand
for the texts and files they are of) and the generated list of driver files, the
symbolic names of the debug tools, the build: none of these keeps state or
interacts beyond the file or text it produces. `b43-beautifier` substitutes names
in a text line by line by regular expressions. Of `b43-fwdump`: finding the
device and the layout of the dump. Of ssb-sprom: `--input`, `--verbose`, the
limit of 512 values, inputs longer than the largest image, and texts of values
that look like options; of a text only its form and what the value's parser
reads of it.

## What could come next

Proofs of `FieldIsStable` and `TextMeansSource` (what is encoded is decoded, for
sets of bits of any width), and from them of the properties of `RoundTrip`.
