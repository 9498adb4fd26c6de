----------------------------- MODULE MCInitvals -----------------------------
EXTENDS Initvals

Op(type, value, routing, offset) ==
    [type |-> type, value |-> value, routing |-> routing, offset |-> offset]

V == <<\h1234, \h5678>>
W == <<0, \hABC>>

\* One operation of every type, and what is at their limits: values wider than
\* their register, both halves of a shared-memory cell, the offset limit.
Registers == {Op("mmio16", V, 0, \hABC), Op("mmio32", V, 0, \hABC), Op("mmio32", V, 0, \h7FFF)}
Windows   == {Op("phy", W, 0, \h10), Op("phy", V, 0, \h10010), Op("radio", W, 0, \h10),
              Op("tram", V, 0, \h12345)}
Shared16  == {Op("shm16", W, 1, o) : o \in {0, 2, 4}} \cup {Op("shm16", V, 2, 2)}
Shared32  == {Op("shm32", V, 1, o) : o \in {0, 4}} \cup {Op("shm32", V, 2, 2),
              Op("shm32", W, \h301, 4)}
TooHigh   == {Op("mmio16", W, 0, \h8000)}
Ops       == Registers \cup Windows \cup Shared16 \cup Shared32 \cup TooHigh
FewOps    == {Op("mmio16", V, 0, \hABC), Op("shm16", W, 1, 2)}
Unaligned == {Op("shm32", V, 1, 2)}
Odd       == {Op("shm16", W, 1, 1), Op("shm16", W, 1, 3), Op("mmio32", V, 0, \h160)}

Text     == [kind |-> ".text"]
In(n)    == [kind |-> ".initvals", name |-> n]
Wr(op)   == [kind |-> "write", op |-> op]
Insn     == [kind |-> "insn"]

\* Every order of section switches, writes and instructions, and every pair
\* and some triples of operations in two sections.
MCNames     == {"bsinitvals", "initvals"}
Switches    == {Text, Insn} \cup {In(n) : n \in MCNames} \cup {Wr(o) : o \in FewOps}
Upto(S, n)  == UNION {[1 .. m -> S] : m \in 0 .. n}
Switching   == Upto(Switches, 5)
Pairs       == {<<In("initvals"), Wr(a), Wr(b), In("bsinitvals"), Wr(b), Wr(c), Wr(a)>> :
                   a, b, c \in Ops}
Misplaced   == {<<In("initvals"), Wr(a), Wr(b)>> : a, b \in Ops \cup Unaligned}
Exceptions  == {<<In("initvals"), Wr(a), Wr(b)>> : a \in Odd, b \in Ops}
AllSources  == Switching \cup Pairs \cup Exceptions
=============================================================================
