--------------------------- MODULE InitvalFormat ---------------------------
(***************************************************************************)
(* The writes an initvals section stands for, the records they become in   *)
(* an initvals file and the text b43-ivaldump makes of a file.  A 32-bit   *)
(* value is the pair <<high half, low half>>; a record is the sequence of  *)
(* its big-endian 16-bit words.                                            *)
(***************************************************************************)
EXTENDS Integers, Sequences

Halves(n) == <<(n \div 65536) % 65536, n % 65536>>

\* One struct initval: a write of 16 or 32 bits to a register.
Iv(offset, size, value) == [offset |-> offset, size |-> size, value |-> value]

PhyWrites(offset, value) ==
    <<Iv(\h3FC, 16, Halves(offset)), Iv(\h3FE, 16, value)>>

RadioWrites(offset, value) ==
    <<Iv(\h3F6, 16, Halves(offset)), Iv(\h3FA, 16, value)>>

TramWrites(offset, value) ==
    <<Iv(\h130, 32, Halves(offset)), Iv(\h134, 32, value)>>

ControlWord(routing, offset) ==
    Iv(\h160, 32, <<routing % 65536, offset % 65536>>)

IsShared(routing) == routing % 256 = 1

\* An access to the upper 16 bits of a cell of the shared memory.
IsUnaligned(routing, offset) == IsShared(routing) /\ offset % 4 # 0

CellOf(routing, offset) == IF IsShared(routing) THEN offset \div 4 ELSE offset

\* Seeded fault: an unaligned write goes to the lower half of its cell.
FaultyShm16Writes(routing, offset, value) ==
    <<ControlWord(routing, CellOf(routing, offset)), Iv(\h164, 16, value)>>

Shm16Writes(routing, offset, value) ==
    <<ControlWord(routing, CellOf(routing, offset)),
      Iv(IF IsUnaligned(routing, offset) THEN \h166 ELSE \h164, 16, value)>>

Shm32Writes(routing, offset, value) ==
    IF IsUnaligned(routing, offset)
    THEN <<ControlWord(routing, offset \div 4), Iv(\h166, 16, <<0, value[1]>>),
           ControlWord(routing, offset \div 4 + 1), Iv(\h164, 16, <<0, value[2]>>)>>
    ELSE <<ControlWord(routing, CellOf(routing, offset)), Iv(\h164, 32, value)>>

\* The operations of struct initval_op.
OpTypes == {"mmio16", "mmio32", "phy", "radio", "shm16", "shm32", "tram"}

\* The writes of one operation.
Writes(op) ==
    CASE op.type = "mmio16" -> <<Iv(op.offset, 16, op.value)>>
      [] op.type = "mmio32" -> <<Iv(op.offset, 32, op.value)>>
      [] op.type = "phy"    -> PhyWrites(op.offset, op.value)
      [] op.type = "radio"  -> RadioWrites(op.offset, op.value)
      [] op.type = "shm16"  -> Shm16Writes(op.routing, op.offset, op.value)
      [] op.type = "shm32"  -> Shm32Writes(op.routing, op.offset, op.value)
      [] op.type = "tram"   -> TramWrites(op.offset, op.value)

\* Seeded fault: an offset that reads back as the 32-bit flag is allowed.
FaultyOffsetLimit == \h8000

OffsetLimit == \h7FFF
Flag32      == \h8000

\* The record of a write whose offset is within the limit: a 16-bit record
\* keeps the low half of the value only.
Raw(iv) == IF iv.size = 32
           THEN <<iv.offset + Flag32, iv.value[1], iv.value[2]>>
           ELSE <<iv.offset, iv.value[2]>>

\* b43-ivaldump: the file's words, record after record, as operations.
IsDword(word) == word >= Flag32

DumpedOp(words, idx) ==
    [type |-> IF IsDword(words[idx]) THEN "mmio32" ELSE "mmio16",
     offset |-> words[idx] % Flag32, routing |-> 0,
     value |-> IF IsDword(words[idx]) THEN <<words[idx + 1], words[idx + 2]>>
               ELSE <<0, words[idx + 1]>>]

RecordLen(word) == IF IsDword(word) THEN 3 ELSE 2

\* Python's IndexError: the file ends within a record.
IndexError == [type |-> "IndexError"]

Dump(words) ==
    LET from[idx \in 1 .. Len(words) + 1] ==
          IF idx > Len(words) THEN <<>>
          ELSE IF idx + RecordLen(words[idx]) > Len(words) + 1 THEN <<IndexError>>
          ELSE <<DumpedOp(words, idx)>> \o from[idx + RecordLen(words[idx])]
    IN  from[1]
=============================================================================
