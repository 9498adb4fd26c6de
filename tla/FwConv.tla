------------------------------- MODULE FwConv -------------------------------
(***************************************************************************)
(* brcm80211-fwconv (disassembler/brcm80211-fwconv) on the two files that  *)
(* b43-fwcutter -b leaves or that come from elsewhere: it lists sections,  *)
(* copies one to a file, or replaces one by a file and writes both files   *)
(* again.  Commands have the tool "fwconv", an action and an index; what   *)
(* is merged is one of UserFiles, or what was extracted before.            *)
(***************************************************************************)
EXTENDS FwCutter

CONSTANT UserFiles

ASSUME FwConvAssumption == UserFiles \subseteq Seq(Nat) /\ None \notin Seq(Nat)

VARIABLES
    out,  \* the file of the last extraction, or None
    new   \* newBin and newHdr of a merge, or None

convVars == <<out, new>>
vars == <<cutterVars, convVars>>

ConvInit == Init /\ out = None /\ new = None

\* What no step of this program changes.
others == <<user, k, pending, files>>

\* bin_data[offset : offset + length], which never raises an IndexError.
Slice(b, e) == SubSeq(b, e.offset + 1, IF e.offset + e.len < Len(b) THEN e.offset + e.len ELSE Len(b))

\* getSectionByIndex: the sort keeps the order of entries with one index.
EntriesOf(h, idx)  == {n \in DOMAIN h : h[n].idx = idx}
Section(h, b, idx) == Slice(b, h[Min(EntriesOf(h, idx))])

Running(action) == cmd # None /\ cmd.tool = "fwconv" /\ cmd.action = action
-----------------------------------------------------------------------------
RunFwConv == Run("fwconv", "parse") /\ UNCHANGED convVars

\* parseHeaderFile: whole entries, and at least one.
ParseFails ==
    /\ pc = "parse" /\ (hdr = <<>> \/ Torn \in Range(hdr))
    /\ End("error")
    /\ UNCHANGED <<others, store, faulty, convVars>>

Parse ==
    /\ pc = "parse" /\ hdr # <<>> /\ Torn \notin Range(hdr)
    /\ pc' = "sections"
    /\ UNCHANGED <<others, store, status, faulty, convVars>>

DumpInfo ==
    /\ pc = "sections" /\ Running("dump")
    /\ End("ok")
    /\ UNCHANGED <<others, store, faulty, convVars>>

NoSection ==
    /\ pc = "sections" /\ ~Running("dump") /\ EntriesOf(hdr, cmd.index) = {}
    /\ End("error")
    /\ UNCHANGED <<others, store, faulty, convVars>>

\* One of the files that are read, or the output file, does not open.
CannotOpen ==
    /\ pc \in {"parse", "sections", "write bin", "write hdr"} /\ ~faulty
    /\ End("error") /\ faulty' = TRUE
    /\ damaged' = (damaged \/ pc = "write hdr")
    /\ UNCHANGED <<others, bin, hdr, origin, convVars>>

ExtractSection ==
    /\ pc = "sections" /\ Running("extract") /\ EntriesOf(hdr, cmd.index) # {}
    /\ out' = Section(hdr, bin, cmd.index)
    /\ End("ok")
    /\ UNCHANGED <<others, store, faulty, new>>

\* write() raises an error, or the file, which is never closed, loses data when
\* Python drops it.
ExtractFails ==
    /\ pc = "sections" /\ Running("extract") /\ EntriesOf(hdr, cmd.index) # {} /\ ~faulty
    /\ out' \in Pieces(Section(hdr, bin, cmd.index))
    /\ \E how \in {"error", "ok"} : End(how)
    /\ faulty' = TRUE
    /\ UNCHANGED <<others, store, new>>
-----------------------------------------------------------------------------
\* mergeSection.
Confused ==
    /\ pc = "sections" /\ Running("merge") /\ Cardinality(EntriesOf(hdr, cmd.index)) > 1
    /\ End("error")
    /\ UNCHANGED <<others, store, faulty, convVars>>

\* parseHeader with sortByOffset: the sort keeps the order of entries with one
\* offset, and each entry's place is behind all that come before it.
ByOffset(h) ==
    LET before(n, m) ==
            h[n].offset < h[m].offset \/ (h[n].offset = h[m].offset /\ n < m)
        place(n) == Cardinality({m \in DOMAIN h : before(m, n)}) + 1
    IN  [p \in DOMAIN h |-> h[CHOOSE n \in DOMAIN h : place(n) = p]]

\* The new files when idx gets the data d.
Merged(sections, b, idx, d) ==
    LET isIt(n)  == sections[n].idx = idx
        part(n)  == IF isIt(n) THEN d ELSE Slice(b, sections[n])
        length(n) == IF isIt(n) THEN Len(d) ELSE sections[n].len
        newOffset[n \in DOMAIN sections] ==
            IF n = 1 THEN 0 ELSE newOffset[n - 1] + length(n - 1)
    IN  [bin |-> FlattenSeq([n \in DOMAIN sections |-> part(n)]),
         hdr |-> [n \in DOMAIN sections |-> Entry(newOffset[n], length(n), sections[n].idx)]]

MergeSection ==
    /\ pc = "sections" /\ Running("merge") /\ Cardinality(EntriesOf(hdr, cmd.index)) = 1
    /\ \E d \in UserFiles \cup ({out} \ {None}) :
          new' = Merged(ByOffset(hdr), bin, cmd.index, d)
    /\ pc' = "write bin"
    /\ UNCHANGED <<others, store, status, faulty, out>>

WriteBin ==
    /\ pc = "write bin"
    /\ bin' = new.bin /\ origin' = "merge"
    /\ pc' = "write hdr"
    /\ UNCHANGED <<others, status, hdr, faulty, damaged, convVars>>

WriteBinFails ==
    /\ pc = "write bin" /\ ~faulty
    /\ bin' \in Pieces(new.bin) /\ origin' = "merge"
    /\ End("error") \/ (pc' = "write hdr" /\ status' = status)
    /\ faulty' = TRUE /\ damaged' = TRUE
    /\ UNCHANGED <<others, hdr, convVars>>

\* Seeded fault: the header is only written when its size has changed.
FaultyWriteHdr ==
    /\ pc = "write hdr"
    /\ hdr' = IF Len(hdr) = Len(new.hdr) THEN hdr ELSE new.hdr
    /\ new' = None
    /\ End("ok")
    /\ UNCHANGED <<others, bin, origin, faulty, damaged, out>>

WriteHdr ==
    /\ pc = "write hdr"
    /\ hdr' = new.hdr /\ new' = None
    /\ End("ok")
    /\ UNCHANGED <<others, bin, origin, faulty, damaged, out>>

\* Some entries are written, and a piece of the next.
WriteHdrFails ==
    /\ pc = "write hdr" /\ ~faulty
    /\ \E n \in 0 .. Len(new.hdr) - 1 : \E piece \in {<<>>, <<Torn>>} :
          hdr' = SubSeq(new.hdr, 1, n) \o piece
    /\ \E how \in {"error", "ok"} : End(how)
    /\ faulty' = TRUE /\ damaged' = TRUE
    /\ UNCHANGED <<others, bin, origin, convVars>>

KilledInMerge ==
    /\ pc \in {"write bin", "write hdr"} /\ ~faulty
    /\ End("killed") /\ faulty' = TRUE
    /\ damaged' = (damaged \/ pc = "write hdr")
    /\ UNCHANGED <<others, bin, hdr, origin, convVars>>

Next ==
    \/ FwCutterNext /\ UNCHANGED convVars
    \/ RunFwConv \/ ParseFails \/ Parse \/ DumpInfo \/ NoSection \/ CannotOpen
    \/ ExtractSection \/ ExtractFails \/ Confused \/ MergeSection
    \/ WriteBin \/ WriteBinFails \/ WriteHdr \/ WriteHdrFails \/ KilledInMerge

Spec == ConvInit /\ [][Next]_vars
-----------------------------------------------------------------------------
\* The values in data, most significant byte first: words of microcode, of which a
\* rest of less than a word is taken as it is, or register, size and value of each
\* record of initvals.
WordsOf(d) == [n \in 1 .. (Len(d) + 3) \div 4 |->
                SubSeq(d, 4 * n - 3, IF 4 * n < Len(d) THEN 4 * n ELSE Len(d))]

Values(type, le, d) ==
    LET msb(f) == IF le THEN Reverse(f) ELSE f
    IN  IF type = "iv"
        THEN [n \in DOMAIN Records(d) |->
                LET iv == Records(d)[n]
                IN  <<msb(SubSeq(iv, 1, 2)), msb(SubSeq(iv, 3, 4)), msb(SubSeq(iv, 5, 8))>>]
        ELSE [n \in DOMAIN WordsOf(d) |->
                IF Len(WordsOf(d)[n]) = 4 THEN msb(WordsOf(d)[n]) ELSE WordsOf(d)[n]]

SameValues(object, le, d) ==
    Values(object.type, le, d) = Values(object.type, driver.le, object.data)

Objects == {driver.extract[n] : n \in DOMAIN driver.extract}
ObjectAt(idx) == {o \in Objects : o.name \in DOMAIN BrcmIndex /\ BrcmIndex[o.name] = idx}
SizedBy(idx)  == {o \in Objects : o.name \in DOMAIN SizeIndex /\ SizeIndex[o.name] = idx}

\* The number n in four bytes, most significant first.
IsNumber(b, n) ==
    /\ Len(b) = 4 /\ \A j \in 1 .. 4 : b[j] \in 0 .. 255
    /\ n = 16777216 * b[1] + 65536 * b[2] + 256 * b[3] + b[4]

\* The section of an entry is what b43-fwcutter means it to be.
IsRight(e) ==
    \/ \E o \in ObjectAt(e.idx) : SameValues(o, TRUE, Slice(bin, e))
    \/ \E o \in SizedBy(e.idx)  : IsNumber(Reverse(Slice(bin, e)), Len(o.data))
    \/ e.idx \in {7, 14, 15} /\ Slice(bin, e) = <<0, 0, 0, 0>>

\* The entries that can be read, without the one whose data are still to come.
Readable == {n \in DOMAIN hdr : \A m \in 1 .. n : hdr[m] # Torn}
Finished == IF pc = "data" THEN Readable \ {Len(hdr)} ELSE Readable
Expected == {BrcmIndex[o.name] : o \in {p \in Objects : p.name \in DOMAIN BrcmIndex}}
            \cup {SizeIndex[o.name] : o \in {p \in Objects : p.name \in DOMAIN SizeIndex}}
            \cup {7, 14, 15}

\* An accident costs at most the section it happens at: whatever fails, is lost
\* or ends the program, all other sections in the files of an extraction have
\* their entry and the driver's values in little endian, and without an
\* accident none is missing (brcmsmac_write_file takes each offset from the
\* data file and finishes the header file first).  Only behind a piece of an
\* entry nothing can be read.
AtMostOneSectionLost ==
    origin = "cutter" =>
        /\ Cardinality({n \in Finished : ~IsRight(hdr[n])}) <= IF damaged THEN 1 ELSE 0
        /\ (pc = "idle" /\ InFwCutter("brcmsmac") /\ status = "ok" /\ Readable = DOMAIN hdr) =>
              Cardinality(Expected \ {hdr[n].idx : n \in DOMAIN hdr})
                  <= IF damaged THEN 1 ELSE 0

\* A file for b43 is a beginning of what the driver's object becomes.  Unless
\* something went wrong its header counts bytes, or records of initvals, as
\* fwcutter.h:90 says, and the values behind it are the driver's, in big endian
\* (extract_or_identify, write_file).
FilesAreDriverData ==
    \A o \in Objects :
        (files[o.name] # None /\ ~(pc = "write" /\ o = Object)) =>
            LET file == files[o.name]
            IN  /\ IsPrefix(file, B43File(o.type, BigEndian(o)))
                /\ ~faulty =>
                      /\ IsNumber(SubSeq(file, 5, 8), Len(o.data) \div IF o.type = "iv" THEN 8 ELSE 1)
                      /\ o.type = "iv" \/ SameValues(o, FALSE, SubSeq(file, 9, Len(file)))

\* The initvals of a driver are the same for both of its users: the file for b43
\* and the section for brcmsmac print as the same operations (b43-ivaldump,
\* brcm80211-ivaldump).
InitvalsAgree ==
    (origin = "cutter" /\ pc = "idle" /\ ~faulty) =>
        \A o \in Objects :
            (o.type = "iv" /\ o.name \in DOMAIN BrcmIndex /\ files[o.name] # None) =>
                \A n \in EntriesOf(hdr, BrcmIndex[o.name]) :
                    B43Dump(files[o.name]) = BrcmDump(Slice(bin, hdr[n]))

\* Only an accident can leave files that do not belong together: entries are
\* whole, lie in the data file and have an index of their own, after every
\* extraction and every merge, of files from elsewhere, too (mergeSection).
FilesBelongTogether == (pc = "idle" /\ ~damaged) => Intact(hdr, bin)

\* The two files are a store of sections: an extraction empties it and adds
\* sections, a merge replaces one and keeps all others, wherever they lie.  The
\* store is ahead of a header that is being written, and does not have the
\* entry whose data are missing.
StoreOf(h, b) ==
    {[idx |-> h[n].idx, data |-> Slice(b, h[n])] : n \in {m \in DOMAIN h : h[m] # Torn}}

Sections ==
    CASE pc = "clear header" -> StoreOf(<<>>, bin)
      [] pc = "data"         -> StoreOf(Front(hdr), bin)
      [] pc = "write hdr"    -> StoreOf(new.hdr, new.bin)
      [] OTHER               -> StoreOf(hdr, bin)

SectionStore == INSTANCE SectionStore WITH store <- Sections, Indices <- Nat
ImplementsStore == SectionStore!Spec
=============================================================================
