--------------------------- MODULE InitvalDevice ---------------------------
(***************************************************************************)
(* The device the initvals are written to, as the source addresses it: a   *)
(* data register accesses what its control register selects.  Cells are    *)
(* 16 bits wide and named by where they are: a register, the upper or      *)
(* lower half of a shared-memory or template-RAM cell, a PHY or radio      *)
(* register.                                                               *)
(***************************************************************************)
EXTENDS InitvalFormat, SequencesExt

\* Which cells a write to a data register reaches is up to the control
\* registers; all memory starts out as 0, that is, absent from mem.
Reset == [shm |-> <<0, 0>>, phy |-> 0, radio |-> 0, tram |-> <<0, 0>>, mem |-> <<>>]

With(mem, cell, word) ==
    [c \in DOMAIN mem \cup {cell} |-> IF c = cell THEN word ELSE mem[c]]

WithPair(mem, low, high, value) == With(With(mem, low, value[2]), high, value[1])

Put(dev, cell, word) == [dev EXCEPT !.mem = With(@, cell, word)]

PutPair(dev, low, high, value) == [dev EXCEPT !.mem = WithPair(@, low, high, value)]

\* One write of the driver to the device.
Written(dev, iv) ==
    CASE iv.offset = \h160 /\ iv.size = 32 -> [dev EXCEPT !.shm = iv.value]
      [] iv.offset = \h164 /\ iv.size = 32 ->
           PutPair(dev, <<"shm", dev.shm, 0>>, <<"shm", dev.shm, 1>>, iv.value)
      [] iv.offset = \h164 /\ iv.size = 16 -> Put(dev, <<"shm", dev.shm, 0>>, iv.value[2])
      [] iv.offset = \h166 /\ iv.size = 16 -> Put(dev, <<"shm", dev.shm, 1>>, iv.value[2])
      [] iv.offset = \h130 /\ iv.size = 32 -> [dev EXCEPT !.tram = iv.value]
      [] iv.offset = \h134 /\ iv.size = 32 ->
           PutPair(dev, <<"tram", dev.tram, 0>>, <<"tram", dev.tram, 1>>, iv.value)
      [] iv.offset = \h3FC /\ iv.size = 16 -> [dev EXCEPT !.phy = iv.value[2]]
      [] iv.offset = \h3FE /\ iv.size = 16 -> Put(dev, <<"phy", dev.phy, 0>>, iv.value[2])
      [] iv.offset = \h3F6 /\ iv.size = 16 -> [dev EXCEPT !.radio = iv.value[2]]
      [] iv.offset = \h3FA /\ iv.size = 16 -> Put(dev, <<"radio", dev.radio, 0>>, iv.value[2])
      [] OTHER ->
           IF iv.size = 16 THEN Put(dev, <<"mmio", iv.offset, 0>>, iv.value[2])
           ELSE PutPair(dev, <<"mmio", iv.offset, 0>>, <<"mmio", iv.offset + 2, 0>>, iv.value)

\* A record as the driver reads it back from the file.
Read(record) ==
    IF IsDword(record[1])
    THEN Iv(record[1] - Flag32, 32, <<record[2], record[3]>>)
    ELSE Iv(record[1], 16, <<0, record[2]>>)

\* The memory after a whole file has been written to the device.
Loaded(records) ==
    LET after[n \in 0 .. Len(records)] ==
          IF n = 0 THEN Reset ELSE Written(after[n - 1], Read(records[n]))
    IN  after[Len(records)].mem
-----------------------------------------------------------------------------
\* What an operation promises, whatever writes it takes: a 32-bit value lies
\* with its low half at the lower address, and the shared memory is addressed
\* by bytes.
SharedCell(routing, offset) ==
    <<"shm", <<routing % 65536, (offset \div 4) % 65536>>, (offset \div 2) % 2>>

ShmCell(routing, offset, half) ==
    IF IsShared(routing) THEN SharedCell(routing, offset + 2 * half)
    ELSE <<"shm", <<routing % 65536, offset % 65536>>, half>>

Meant(mem, op) ==
    CASE op.type = "mmio16" -> With(mem, <<"mmio", op.offset, 0>>, op.value[2])
      [] op.type = "mmio32" ->
           WithPair(mem, <<"mmio", op.offset, 0>>, <<"mmio", op.offset + 2, 0>>, op.value)
      [] op.type = "phy"    -> With(mem, <<"phy", op.offset % 65536, 0>>, op.value[2])
      [] op.type = "radio"  -> With(mem, <<"radio", op.offset % 65536, 0>>, op.value[2])
      [] op.type = "tram"   ->
           WithPair(mem, <<"tram", Halves(op.offset), 0>>, <<"tram", Halves(op.offset), 1>>, op.value)
      [] op.type = "shm16"  -> With(mem, ShmCell(op.routing, op.offset, 0), op.value[2])
      [] op.type = "shm32"  ->
           WithPair(mem, ShmCell(op.routing, op.offset, 0), ShmCell(op.routing, op.offset, 1), op.value)

MemoryMeant(ops) ==
    LET after[n \in 0 .. Len(ops)] ==
          IF n = 0 THEN <<>> ELSE Meant(after[n - 1], ops[n])
    IN  after[Len(ops)]

\* The registers of the windows to the other memories.
WindowRegisters == (\h130 .. \h137) \cup (\h160 .. \h167) \cup (\h3F6 .. \h3FF)
=============================================================================
