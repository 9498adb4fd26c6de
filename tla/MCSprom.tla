------------------------------ MODULE MCSprom ------------------------------
EXTENDS Sprom

\* Of a checksum only matters what it depends on.
MCChecksum(n, r, b) == (n + 31 * r + 3 * Cardinality(b)) % 256

MCLeftovers == {{}, 3000 .. 3003 \cup 1100 .. 1103}

Revisions == {1, 2, 3, 4, 5, 8}
SizeOf(r) == IF r < 4 THEN 128 ELSE 440
Rows(r) == {sprom_table[n] : n \in {m \in DOMAIN sprom_table : r \in sprom_table[m].revs}}
RowCalled(r, desc) == CHOOSE row \in Rows(r) : row.desc = desc

Get_ == [k |-> "get", digits |-> 0, v |-> {}]
Hex(d, v) == [k |-> "hex", digits |-> d, v |-> v]
TextOf(row, v) ==
    [k |-> CASE row.length = 34 -> "mac" [] row.length = 33 -> "chars"
             [] row.length = 1 -> "digit" [] OTHER -> "hex",
     digits |-> row.length \div 4, v |-> v]
Value(desc, text) == [o |-> "value", desc |-> desc, text |-> text]
Set(row, v) == Value(row.desc, TextOf(row, v))
Option(o) == [o |-> o]
RawSet(d) == [o |-> "rawset", off |-> Hex(d, {}), val |-> Hex(d, {})]
RawGet(d) == [o |-> "rawget", off |-> Hex(d, {})]

Input(format, n, r, b, wrong) ==
    [format |-> format, size |-> n, rev |-> r, bits |-> b,
     crc |-> MCChecksum(n, r, {k \in b : k < 8 * (n - 2)}) + wrong]
Image(r, b) == Input("hex", SizeOf(r), r, b, 0)
Case(options, in) == [args |-> options, input |-> in]

\* Ones, zeros and a mixture, in a value that one digit can hold if it must.
Highest(row) ==
    CASE row.length = 34 -> 47 [] row.length = 33 -> 15 [] row.length = 5 -> 3
      [] row.length = 4 -> 1 [] OTHER -> row.length - 1
Patterns(row) == {{}, 0 .. Highest(row), {k \in 0 .. Highest(row) : k % 3 = 1}}

\* The bits around a value; two values that lie in the same or in adjoining words.
Around(row) == 8 * row.offset - 16 .. 8 * row.offset + 63
Near(row, other) == row.offset - other.offset \in (-4) .. 4

\* Every value of every revision alone and beside each of its neighbours, in an
\* image of zeros and in one of ones.
Singles ==
    UNION {UNION {{Case(<<Value(row.desc, Get_), Set(row, v)>>, Image(r, b)) :
                       v \in Patterns(row), b \in {{}, Around(row)}} :
                  row \in Rows(r)} : r \in Revisions}
Pairs ==
    UNION {UNION {UNION {
        {Case(<<Set(row, 0 .. Highest(row)), Value(row.desc, Get_), Set(other, {})>>,
              Image(r, Around(row))),
         Case(<<Set(row, {}), Set(other, 0 .. Highest(other)), Value(other.desc, Get_)>>,
              Image(r, {}))} :
            other \in {o \in Rows(r) : Near(row, o)}} : row \in Rows(r)} : r \in Revisions}
FieldCases == Singles \cup Pairs

\* Every option, alone and beside the others, with every kind of text; images of
\* every size and revision, intact and corrupted.
Texts ==
    {Get_, [k |-> "mac", digits |-> 0, v |-> {0, 47}], [k |-> "chars", digits |-> 0, v |-> {1}],
     [k |-> "digit", digits |-> 0, v |-> {0}], [k |-> "junk", digits |-> 0, v |-> {}],
     [k |-> "none", digits |-> 0, v |-> {}]}
        \cup {Hex(d, {0}) : d \in 0 .. 4} \cup {Hex(8, {0, 31}), Hex(4, {})}

\* As a country code they are the first two of their characters.
FirstTwo == {[t EXCEPT !.v = {1, 4, 12}] : t \in Texts}
EarlyDescs == {"subp", "bgmac", "et0phy", "et0mdc", "loc", "led1"}
LateDescs  == {"subp", "macadr", "antbg0", "ofdm2g"}

TextCases ==
    {Case(<<Value(d, t)>>, Image(2, {40, 100})) : d \in EarlyDescs, t \in Texts}
        \cup {Case(<<Value("ccode", t)>>, Image(r, {40, 100})) : r \in {2, 4}, t \in FirstTwo}
        \cup {Case(<<Value(d, t)>>, Image(4, {40, 100})) : d \in LateDescs \cup {"loc"}, t \in Texts}

SomeOptions ==
    {Option(o) : o \in {"version", "help", "output", "force", "-f", "binmode", "print-all"}}
        \cup {RawSet(0), RawSet(2), RawGet(0), RawGet(2),
              Value("subp", Hex(4, {2})), Value("subp", Get_)}
OptionCases ==
    {Case(o, in) : o \in UNION {[1 .. n -> SomeOptions] : n \in 0 .. 2},
                   in \in {Image(1, {40}), Input("hex", 128, 3, {41}, 1)}}

Legal(c) ==
    \/ c.input.format = "hex" \/ c.input.size <= 128
    \/ \E n \in DOMAIN c.args : c.args[n].o = "binmode"
InputCases ==
    {c \in {Case(o \o <<Option("output"), Value("subp", Hex(4, {2})), Option("print-all")>>, in) :
              o \in {<<>>, <<Option("force")>>, <<Option("binmode")>>},
              in \in {Input(f, n, r, {41, 900}, wrong) :
                        f \in {"hex", "binary"}, n \in {0, 127, 128, 149, 150, 439, 440},
                        r \in {0, 1, 5, 6, 7, 8, 9}, wrong \in 0 .. 1}} : Legal(c)}

CommandCases == TextCases \cup OptionCases \cup InputCases

AllCases == FieldCases \cup CommandCases
-----------------------------------------------------------------------------
\* Command lines on which the tool and its texts differ.
Deviation(options, in) == {Case(<<Option("output")>> \o options, in)}

AllOnes(r, desc) == Set(RowCalled(r, desc), 0 .. Highest(RowCalled(r, desc)))

SharedType  == Deviation(<<AllOnes(4, "pam5l")>>, Image(4, {}))
BinaryImage == Deviation(<<Option("binmode"), Value("subp", Get_)>>, Input("binary", 128, 1, {}, 0))
=============================================================================
