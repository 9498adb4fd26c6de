------------------------------ MODULE FwCutter ------------------------------
(***************************************************************************)
(* b43-fwcutter (fwcutter/fwcutter.c): the objects of a known driver file  *)
(* are converted and either written to a file each, for b43, or appended   *)
(* to one data file and described in one header file, for brcmsmac.        *)
(*                                                                         *)
(* A driver is a record: known (its MD5 sum is in the list), unsupported,  *)
(* le, and the sequence extract of records name, type and data. One thing  *)
(* may go wrong in a behaviour: a step that fails, a close that loses what *)
(* was buffered, or the end of the program between two steps.              *)
(***************************************************************************)
EXTENDS FwFormats, TLC

CONSTANTS
    Drivers,
    Commands,     \* what the user may run (here: tool = "fwcutter", mode, unsupported)
    MaxCommands,  \* bound: commands in a behaviour
    OldBins,      \* data and header files of an earlier time
    None

Entry(offset, len, idx) == [offset |-> offset, len |-> len, idx |-> idx]

\* A piece of an entry, after which no entry begins at a multiple of 12 bytes.
Torn == Entry(0, 0, None)

EntryType  == [offset : Nat, len : Nat, idx : Nat]
ObjectType == [name : STRING, type : {"ucode", "pcm", "iv"}, data : Seq(Nat)]

\* In fwcutter_list.h no name is twice in a list, initvals are some whole records,
\* n0absinitvals16, which would get the index of a dummy entry, is in no list, and
\* extract->length has 32 bits.
ASSUME FwCutterAssumption ==
    /\ MaxCommands \in Nat
    /\ None \notin Nat
    /\ \A d \in Drivers :
          /\ d.le \in BOOLEAN /\ d.extract \in Seq(ObjectType)
          /\ \A n \in DOMAIN d.extract :
                LET o == d.extract[n]
                IN  /\ o.type = "iv" => o.data # <<>> /\ Len(o.data) % 8 = 0
                    /\ Is32Bit(Len(o.data))
                    /\ o.name # "n0absinitvals16"
                    /\ \A m \in DOMAIN d.extract : d.extract[m].name = o.name => m = n
    /\ \A old \in OldBins : old.bin \in Seq(Nat) /\ old.hdr \in Seq(EntryType \cup {Torn})

VARIABLES
    driver,    \* the driver file
    cmd,       \* the command that is running or was the last one
    runs,      \* bound: commands so far
    pc,        \* where it is; "idle" between commands
    status,    \* how the last one ended
    k,         \* the object of main's loop
    pending,   \* brcmsmac_write_file: indices and data to append
    files,     \* b43: the file of each name, or None
    bin, hdr,  \* brcm/bcm43xx-0.fw and its header file, a sequence of entries
    origin,    \* who made them: "old", "cutter" or "merge"
    faulty,    \* something went wrong
    damaged    \* it did while bin and hdr were being written

cutterVars == <<driver, cmd, runs, pc, status, k, pending, files, bin, hdr, origin, faulty, damaged>>

user  == <<driver, cmd, runs>>
store == <<bin, hdr, origin, damaged>>

\* The two files belong together.
Intact(h, b) ==
    /\ \A n \in DOMAIN h : h[n] # Torn /\ h[n].offset + h[n].len <= Len(b)
    /\ \A n, m \in DOMAIN h : h[n].idx = h[m].idx => n = m

Names == {driver.extract[n].name : n \in DOMAIN driver.extract}

Init ==
    /\ driver \in Drivers
    /\ cmd = None /\ runs = 0 /\ pc = "idle" /\ status = "none" /\ k = 1
    /\ pending = <<>>
    /\ files = [name \in Names |-> None]
    /\ \E old \in OldBins : bin = old.bin /\ hdr = old.hdr
    /\ origin = "old"
    /\ faulty = FALSE /\ damaged = ~Intact(hdr, bin)

End(how) == pc' = "idle" /\ status' = how
-----------------------------------------------------------------------------
\* main: find_file, then one of two loops over the driver's list.
InFwCutter(mode) == cmd # None /\ cmd.tool = "fwcutter" /\ cmd.mode = mode
FileOk == driver.known /\ (driver.unsupported => cmd.unsupported)

Run(tool, first) ==
    /\ pc = "idle" /\ runs < MaxCommands
    /\ cmd' \in {c \in Commands : c.tool = tool}
    /\ runs' = runs + 1 /\ status' = "running"
    /\ pc' = first
    /\ UNCHANGED <<driver, k, pending, files, store, faulty>>

RunFwCutter == Run("fwcutter", "find")

NotFound ==
    /\ pc = "find" /\ ~FileOk
    /\ End("error")
    /\ UNCHANGED <<user, k, pending, files, store, faulty>>

Found ==
    /\ pc = "find" /\ FileOk
    /\ k' = 1
    /\ pc' = IF cmd.mode = "brcmsmac" THEN "clear" ELSE "object"
    /\ UNCHANGED <<user, status, pending, files, store, faulty>>

Object == driver.extract[k]
AtObject(mode) == pc = "object" /\ InFwCutter(mode) /\ k <= Len(driver.extract)

\* brcmsmac_name_to_idx and brcmsmac_name_to_size_idx.
BrcmIndex ==
    [lcn0bsinitvals24 |-> 1, lcn0initvals24 |-> 2, lcn1bsinitvals24 |-> 3,
     lcn1initvals24 |-> 4, lcn2bsinitvals24 |-> 5, lcn2initvals24 |-> 6,
     n0absinitvals16 |-> 7, n0bsinitvals16 |-> 8, n0initvals16 |-> 9,
     ucode16_mimo |-> 10, ucode24_lcn |-> 12]
SizeIndex == [ucode16_mimo |-> 11, ucode24_lcn |-> 13]

\* read_object.
ReadFails ==
    /\ pc = "object" /\ k <= Len(driver.extract) /\ ~faulty
    /\ InFwCutter("brcmsmac") => Object.name \in DOMAIN BrcmIndex
    /\ End("error") /\ faulty' = TRUE
    /\ UNCHANGED <<user, k, pending, files, bin, hdr, origin, damaged>>

\* swap_endianness_*: the driver's bytes in big-endian order.
BigEndian(object) == IF driver.le THEN Swap(object.type, object.data) ELSE object.data

Refused(object) == object.type = "iv" /\ IvsRefused(BigEndian(object))
-----------------------------------------------------------------------------
\* extract_or_identify and write_file.
ConversionError ==
    /\ AtObject("b43") \/ AtObject("identify")
    /\ Refused(Object)
    /\ End("error")
    /\ UNCHANGED <<user, k, pending, files, store, faulty>>

Identify ==
    /\ AtObject("identify") /\ ~Refused(Object)
    /\ k' = k + 1
    /\ UNCHANGED <<user, pc, status, pending, files, store, faulty>>

\* mkdir and fopen, which empties the file of an earlier extraction.
OpenFile ==
    /\ AtObject("b43") /\ ~Refused(Object)
    /\ files' = [files EXCEPT ![Object.name] = <<>>]
    /\ pc' = "write"
    /\ UNCHANGED <<user, status, k, pending, store, faulty>>

OpenFails ==
    /\ AtObject("b43") /\ ~Refused(Object) /\ ~faulty
    /\ End("error") /\ faulty' = TRUE
    /\ UNCHANGED <<user, k, pending, files, bin, hdr, origin, damaged>>

NewFile == B43File(Object.type, BigEndian(Object))
Pieces(d) == {SubSeq(d, 1, n) : n \in {m \in {0, 9, Len(d) - 1} : m \in 0 .. Len(d) - 1}}

WriteFile ==
    /\ pc = "write"
    /\ files' = [files EXCEPT ![Object.name] = NewFile]
    /\ pc' = "object" /\ k' = k + 1
    /\ UNCHANGED <<user, status, pending, store, faulty>>

\* fwrite fails, or the fclose that nobody looks at loses what was buffered.
WriteFileFails ==
    /\ pc = "write" /\ ~faulty
    /\ \E piece \in Pieces(NewFile) : files' = [files EXCEPT ![Object.name] = piece]
    /\ \/ End("error") /\ k' = k
       \/ pc' = "object" /\ k' = k + 1 /\ status' = status
    /\ faulty' = TRUE
    /\ UNCHANGED <<user, pending, bin, hdr, origin, damaged>>

LastObject ==
    /\ pc = "object" /\ cmd.mode # "brcmsmac" /\ k > Len(driver.extract)
    /\ End("ok")
    /\ UNCHANGED <<user, k, pending, files, store, faulty>>
-----------------------------------------------------------------------------
\* brcmsmac_clear_file: the header file's stream is closed without a check
\* that it was opened.
ClearBin ==
    /\ pc = "clear"
    /\ bin' = <<>> /\ origin' = "old"
    /\ pc' = "clear header"
    /\ UNCHANGED <<user, status, k, pending, files, hdr, faulty, damaged>>

\* Seeded fault: only the data file is emptied.
ForgottenHeader ==
    /\ pc = "clear header"
    /\ pc' = "object" /\ origin' = "cutter" /\ damaged' = FALSE
    /\ UNCHANGED <<user, status, k, pending, files, bin, hdr, faulty>>

ClearHeader ==
    /\ pc = "clear header"
    /\ hdr' = <<>> /\ origin' = "cutter" /\ damaged' = FALSE
    /\ pc' = "object"
    /\ UNCHANGED <<user, status, k, pending, files, bin, faulty>>

ClearFails ==
    /\ pc \in {"clear", "clear header"} /\ ~faulty
    /\ End(IF pc = "clear" THEN "error" ELSE "crashed")
    /\ faulty' = TRUE /\ damaged' = (damaged \/ pc = "clear header")
    /\ UNCHANGED <<user, k, pending, files, bin, hdr, origin>>

SkipObject ==
    /\ AtObject("brcmsmac") /\ Object.name \notin DOMAIN BrcmIndex
    /\ k' = k + 1
    /\ UNCHANGED <<user, pc, status, pending, files, store, faulty>>

\* Microcode is made big endian to be analysed and then swapped in any case;
\* the rest is only swapped when it is not little endian.
LittleEndian(object) ==
    IF object.type = "ucode" THEN SwapWords(BigEndian(object))
    ELSE IF driver.le THEN object.data ELSE Swap(object.type, object.data)

Write(idx, d) == [idx |-> idx, data |-> d]

SizeOf(object) == Le32(Len(object.data))

WritesOf(object) ==
    <<Write(BrcmIndex[object.name], LittleEndian(object))>>
        \o IF object.name \in DOMAIN SizeIndex
           THEN <<Write(SizeIndex[object.name], SizeOf(object))>> ELSE <<>>

ConvertObject ==
    /\ AtObject("brcmsmac") /\ Object.name \in DOMAIN BrcmIndex
    /\ pending' = WritesOf(Object)
    /\ k' = k + 1 /\ pc' = "header"
    /\ UNCHANGED <<user, status, files, store, faulty>>

\* brcmsmac_add_dummy_entries: behind the last object.
Dummies == [n \in 1 .. 3 |-> Write(<<7, 14, 15>>[n], <<0, 0, 0, 0>>)]

AddDummies ==
    /\ pc = "object" /\ InFwCutter("brcmsmac") /\ k = Len(driver.extract) + 1
    /\ pending' = Dummies
    /\ k' = k + 1 /\ pc' = "header"
    /\ UNCHANGED <<user, status, files, store, faulty>>

LastDummy ==
    /\ pc = "object" /\ InFwCutter("brcmsmac") /\ k > Len(driver.extract) + 1
    /\ End("ok")
    /\ UNCHANGED <<user, k, pending, files, store, faulty>>
-----------------------------------------------------------------------------
\* brcmsmac_write_file: the entry and the header file are finished before the
\* data are written, with the length that the data file has so far.
NextEntry == Entry(Len(bin), Len(Head(pending).data), Head(pending).idx)

\* Seeded fault: the offset is the one of the last entry's end, as announced.
FaultyAppendEntry ==
    /\ pc = "header"
    /\ hdr' = Append(hdr, [NextEntry EXCEPT !.offset =
                 IF hdr = <<>> THEN 0 ELSE Last(hdr).offset + Last(hdr).len])
    /\ pc' = "data"
    /\ UNCHANGED <<user, status, k, pending, files, bin, origin, faulty, damaged>>

AppendEntry ==
    /\ pc = "header"
    /\ hdr' = Append(hdr, NextEntry)
    /\ pc' = "data"
    /\ UNCHANGED <<user, status, k, pending, files, bin, origin, faulty, damaged>>

\* fopen or fwrite fails, or fclose loses the entry or a part of it.
AppendEntryFails ==
    /\ pc = "header" /\ ~faulty
    /\ \/ End("error") /\ pending' = <<>>
       \/ pc' = "data" /\ UNCHANGED <<status, pending>>
    /\ hdr' \in {hdr, Append(hdr, Torn)}
    /\ faulty' = TRUE /\ damaged' = (damaged \/ pc' = "data" \/ hdr' # hdr)
    /\ UNCHANGED <<user, k, files, bin, origin>>

AfterWrite == IF Len(pending) = 1 THEN "object" ELSE "header"

AppendData ==
    /\ pc = "data"
    /\ bin' = bin \o Head(pending).data
    /\ pending' = Tail(pending)
    /\ pc' = AfterWrite
    /\ UNCHANGED <<user, status, k, files, hdr, origin, faulty, damaged>>

AppendDataFails ==
    /\ pc = "data" /\ ~faulty
    /\ \E piece \in Pieces(Head(pending).data) : bin' = bin \o piece
    /\ \/ End("error") /\ pending' = <<>>
       \/ pc' = AfterWrite /\ pending' = Tail(pending) /\ status' = status
    /\ faulty' = TRUE /\ damaged' = TRUE
    /\ UNCHANGED <<user, k, files, hdr, origin>>

\* Between two files; ended elsewhere, the store is as after a whole command.
Killed ==
    /\ pc \in {"object", "write", "clear", "clear header", "header", "data"} /\ ~faulty
    /\ End("killed") /\ pending' = <<>>
    /\ faulty' = TRUE
    /\ damaged' = (damaged \/ pc \in {"clear header", "data"})
    /\ UNCHANGED <<user, k, files, bin, hdr, origin>>

FwCutterNext ==
    \/ RunFwCutter \/ NotFound \/ Found \/ ReadFails \/ Killed
    \/ ConversionError \/ Identify \/ OpenFile \/ OpenFails
    \/ WriteFile \/ WriteFileFails \/ LastObject
    \/ ClearBin \/ ClearHeader \/ ClearFails \/ SkipObject \/ ConvertObject
    \/ AddDummies \/ LastDummy
    \/ AppendEntry \/ AppendEntryFails \/ AppendData \/ AppendDataFails
=============================================================================
