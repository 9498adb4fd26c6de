--------------------------- MODULE MCOperandCodec ---------------------------
\* Operand domains for TLC: every class and both sides of every limit.
EXTENDS OperandCodec

SignExt32(v) == v \cup (16 .. 31)

\* All immediates around the 10 and 11 bit limits, at the 16 bit limit and in
\* sign-extended 32 bit form.
MCImmediates ==
    LET low  == {Bits(n) : n \in (0 .. 2100) \cup (32766 .. 32770)}
        high == {Bits(n) : n \in 63400 .. 65535}
    IN  low \cup high \cup {SignExt32(v) : v \in high \cup {Bits(\h100)}}
          \cup {{16}, Bits(\h18000)}

MCOperands ==
    {IMM(v) : v \in MCImmediates}
      \cup {[t |-> "reg", kind |-> "gpr", nr |-> n] : n \in 0 .. 65}
      \cup {[t |-> "reg", kind |-> "spr", nr |-> n] : n \in 0 .. 514}
      \cup {[t |-> "reg", kind |-> "offr", nr |-> n] : n \in 0 .. 8}
      \cup {[t |-> "mem", off |-> Bits(n)] :
              n \in (0 .. 70) \cup (2040 .. 2060) \cup (4090 .. 4100)}
      \cup {[t |-> "memoff", off |-> Bits(n), reg |-> r] :
              n \in 0 .. 130, r \in 0 .. 8}

MCAddresses == 0 .. 4095
=============================================================================
