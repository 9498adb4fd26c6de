----------------------------- MODULE FwFormats -----------------------------
(***************************************************************************)
(* The formats in which b43-fwcutter finds, converts and stores firmware:  *)
(* microcode and PCM data are 32-bit words, initvals ("IV") are records of *)
(* eight bytes in the driver and in the files for brcmsmac, and of four or *)
(* six bytes in the files for b43.  Data are sequences of bytes.           *)
(***************************************************************************)
EXTENDS InitvalFormat, SequencesExt

\* Seeded fault: the loop counts bytes, and the last word is swapped with
\* what lies behind it.
FaultySwapWords(d) ==
    [n \in DOMAIN d |->
        LET last == 4 * ((n - 1) \div 4) + 4
            from == IF last <= Len(d) THEN 2 * last - 3 - n ELSE Len(d) + last - 3 - n
        IN  IF from \in DOMAIN d THEN d[from] ELSE d[n]]

\* swap_endianness_ucode: every whole word is turned round, a rest is kept.
SwapWords(d) ==
    [n \in DOMAIN d |->
        LET last == 4 * ((n - 1) \div 4) + 4
        IN  IF last <= Len(d) THEN d[2 * last - 3 - n] ELSE d[n]]

\* Seeded fault: register and size are swapped as one word.
FaultySwapIvs(d) ==
    [n \in DOMAIN d |->
        LET base == 8 * ((n - 1) \div 8) IN d[base + <<4, 3, 2, 1, 8, 7, 6, 5>>[n - base]]]

\* swap_endianness_iv for each record: two 16-bit fields and one of 32 bits.
SwapIvs(d) ==
    [n \in DOMAIN d |->
        LET base == 8 * ((n - 1) \div 8) IN d[base + <<2, 1, 4, 3, 8, 7, 6, 5>>[n - base]]]

Swap(type, d) == IF type = "iv" THEN SwapIvs(d) ELSE SwapWords(d)

\* A number that the uint32_t of a header or of a record holds.
Is32Bit(n) == n \div 16777216 < 256

\* to_le32 of a length or an index.
Le32(n) == <<n % 256, (n \div 256) % 256, (n \div 65536) % 256, n \div 16777216>>

Be16(d, n) == 256 * d[n] + d[n + 1]
Le16(d, n) == d[n] + 256 * d[n + 1]

\* The records of eight bytes of initvals data.
Records(d) == [n \in 1 .. Len(d) \div 8 |-> SubSeq(d, 8 * n - 7, 8 * n)]
-----------------------------------------------------------------------------
\* build_ivs: big-endian records become records without a size field.
IvError(iv) ==
    \/ Be16(iv, 1) > OffsetLimit
    \/ Be16(iv, 3) \notin {2, 4}
    \/ Be16(iv, 3) = 2 /\ Be16(iv, 5) # 0

B43Iv(iv) ==
    IF Be16(iv, 3) = 4 THEN <<iv[1] + 128, iv[2]>> \o SubSeq(iv, 5, 8)
                       ELSE <<iv[1], iv[2], iv[7], iv[8]>>

IvsRefused(d) == \E n \in DOMAIN Records(d) : IvError(Records(d)[n])
BuiltIvs(d)   == FlattenSeq([n \in DOMAIN Records(d) |-> B43Iv(Records(d)[n])])

\* The header of a file for b43: type, version and, for initvals, the number
\* of records, otherwise of bytes.
TypeLetter == [ucode |-> 117, pcm |-> 112, iv |-> 105]

Header(type, size) == <<TypeLetter[type], 1, 0, 0>> \o Reverse(Le32(size))

\* A file for b43 made of big-endian data.
B43File(type, be) ==
    IF type = "iv" THEN Header(type, Len(be) \div 8) \o BuiltIvs(be)
                   ELSE Header(type, Len(be)) \o be
-----------------------------------------------------------------------------
Malformed == [type |-> "malformed"]

\* b43-ivaldump: the header is checked, what is behind it is printed.
B43Dump(file) ==
    IF Len(file) < 8 \/ file[1] # TypeLetter["iv"] \/ file[2] # 1 THEN <<Malformed>>
    ELSE Dump([n \in 1 .. (Len(file) - 8) \div 2 |-> Be16(file, 7 + 2 * n)])

\* One little-endian record as an operation.
BrcmOp(iv) ==
    LET value == <<Le16(iv, 7), Le16(iv, 5)>>
        op(type) == [type |-> type, offset |-> Le16(iv, 1), routing |-> 0, value |-> value]
    IN  CASE Le16(iv, 3) = 4 -> op("mmio32")
          [] Le16(iv, 3) = 2 /\ value[1] = 0 -> op("mmio16")
          [] OTHER -> Malformed

\* brcm80211-ivaldump: it stops at the end mark and at a malformed record.
BrcmDump(d) ==
    LET ivs == Records(d)
        from[n \in 1 .. Len(ivs) + 1] ==
            IF n > Len(ivs) \/ (n <= Len(ivs) /\ Le16(ivs[n], 1) = \hFFFF) THEN <<>>
            ELSE IF BrcmOp(ivs[n]) = Malformed THEN <<Malformed>>
            ELSE <<BrcmOp(ivs[n])>> \o from[n + 1]
    IN  IF Len(d) = 0 \/ Len(d) % 8 # 0 THEN <<Malformed>> ELSE from[1]
=============================================================================
