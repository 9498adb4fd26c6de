------------------------------ MODULE MCFwConv ------------------------------
EXTENDS FwConv

Obj(name, type, data) == [name |-> name, type |-> type, data |-> data]

\* Records of initvals, big endian: 32 and 16 bits, and what build_ivs refuses.
Iv32 == <<1, 96, 0, 4, 17, 18, 19, 20>>
Iv16 == <<3, 254, 0, 2, 0, 0, 33, 34>>
Wide == <<3, 254, 0, 2, 0, 1, 33, 34>>
High == <<128, 0, 0, 2, 0, 0, 1, 2>>
Odd  == <<0, 8, 0, 3, 0, 0, 1, 2>>

Ucode(n) == [m \in 1 .. n |-> 40 + m]

Driver(le, extract) ==
    [known |-> TRUE, unsupported |-> FALSE, le |-> le,
     extract |-> [n \in DOMAIN extract |->
        IF le THEN [extract[n] EXCEPT !.data = Swap(extract[n].type, @)] ELSE extract[n]]]

\* The kinds of objects of the driver files in fwcutter_list.h: for both users
\* or for one of them, with and without a rest behind the last word.
Typical ==
    <<Obj("ucode24_lcn", "ucode", Ucode(10)), Obj("pcm5", "pcm", Ucode(5)),
      Obj("n0initvals16", "iv", Iv32 \o Iv16), Obj("ucode16_mimo", "ucode", Ucode(8))>>

MCDrivers ==
    {Driver(le, Typical) : le \in BOOLEAN}
        \cup {Driver(TRUE, <<Obj("lcn0initvals24", "iv", Iv16 \o bad)>>) : bad \in {Wide, High, Odd}}
        \cup {[Driver(TRUE, <<Obj("n0initvals16", "iv", Iv16)>>) EXCEPT !.unsupported = TRUE],
              [Driver(TRUE, <<>>) EXCEPT !.known = FALSE]}

Cut(mode, unsupported) == [tool |-> "fwcutter", mode |-> mode, unsupported |-> unsupported]
Conv(action, index)    == [tool |-> "fwconv", action |-> action, index |-> index]

MCCommands ==
    {Cut("b43", TRUE), Cut("identify", FALSE), Cut("brcmsmac", FALSE)}
        \cup {Conv("dump", 0), Conv("extract", 12), Conv("merge", 12), Conv("merge", 9)}

\* Nothing, files from elsewhere with gaps, overlaps and in another order, with
\* an index twice, and data that end early.
MCOldBins ==
    {[bin |-> <<>>, hdr |-> <<>>],
     [bin |-> Ucode(12), hdr |-> <<Entry(8, 4, 2), Entry(1, 5, 12), Entry(3, 2, 9)>>],
     [bin |-> Ucode(6),  hdr |-> <<Entry(0, 3, 12), Entry(3, 3, 9), Entry(1, 2, 12)>>],
     [bin |-> Ucode(4),  hdr |-> <<Entry(0, 6, 9), Entry(6, 2, 12)>>]}

MCUserFiles == {<<>>, Ucode(3), Ucode(10)}
=============================================================================
