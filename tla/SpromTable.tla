----------------------------- MODULE SpromTable -----------------------------
(***************************************************************************)
(* sprom_table of ssb_sprom.c: the values in an SPROM of each revision. A  *)
(* row is a record with                                                    *)
(*   revs    the revisions that contain the value                          *)
(*   type    enum valuetype, without VAL_                                  *)
(*   desc    the value's name on the command line                          *)
(*   length  its bits; 33 for a country code, 34 for a MAC address         *)
(*   offset  the byte offset of its first 16-bit word                      *)
(*   mask    for values inside one word: the positions of its bits         *)
(***************************************************************************)
EXTENDS Naturals, Sequences

Row(revs, type, desc, length, offset, mask) ==
    [revs |-> revs, type |-> type, desc |-> desc, length |-> length,
     offset |-> offset, mask |-> mask]

\* Names are <<type, desc>> pairs; rows that follow each other in the SPROM.
Whole(revs, length, offset, step, names) ==
    [n \in 1 .. Len(names) |->
        Row(revs, names[n][1], names[n][2], length, offset + (n - 1) * step, 0 .. 15)]
Shorts(revs, offset, names) == Whole(revs, 16, offset, 2, names)
Longs(revs, offset, names) == Whole(revs, 32, offset, 4, names)
Bytes(revs, offset, names) ==
    [n \in 1 .. Len(names) |->
        Row(revs, names[n][1], names[n][2], 8, offset + 2 * ((n - 1) \div 2),
            IF n % 2 = 1 THEN 0 .. 7 ELSE 8 .. 15)]
Mac(revs, offset, type, desc) == Whole(revs, 34, offset, 6, <<<<type, desc>>>>)
Country(revs, offset)         == Whole(revs, 33, offset, 2, <<<<"LOC", "ccode">>>>)
Low(revs, offset, type, desc)  == <<Row(revs, type, desc, 8, offset, 0 .. 7)>>
High(revs, offset, type, desc) == <<Row(revs, type, desc, 8, offset, 8 .. 15)>>
Part(type, desc, length, offset, mask) ==
    <<Row(1 .. 3, type, desc, length, offset, mask)>>

Board ==
    Shorts({1, 2, 3, 4, 5, 8}, \h04, <<<<"SUBP", "subp">>, <<"SUBV", "subv">>, <<"PPID", "ppid">>>>)
    \o Shorts({2, 3}, \h38, <<<<"BFLHI", "bflhi">>>>)
    \o Shorts({4}, \h44, <<<<"BFL", "bfl">>, <<"BFLHI", "bflhi">>>>)
    \o Shorts({5}, \h4A, <<<<"BFL", "bfl">>, <<"BFLHI", "bflhi">>>>)
    \o Shorts({8}, \h84, <<<<"BFL", "bfl">>, <<"BFLHI", "bflhi">>>>)
    \o Shorts(1 .. 3, \h72, <<<<"BFL", "bfl">>>>)
    \o Mac({1, 2}, \h48, "BGMAC", "bgmac") \o Mac({3}, \h4A, "BGMAC", "bgmac")
    \o Mac({4}, \h4C, "BGMAC", "macadr") \o Mac({5}, \h52, "BGMAC", "macadr")
    \o Mac({8}, \h8C, "BGMAC", "macadr")
    \o Mac({1, 2}, \h4E, "ETMAC", "etmac") \o Mac({1, 2}, \h54, "AMAC", "amac")
    \o Part("ET0PHY", "et0phy", 5, \h5A, 0 .. 4) \o Part("ET1PHY", "et1phy", 5, \h5A, 5 .. 9)
    \o Part("ET0MDC", "et0mdc", 1, \h5A, {14}) \o Part("ET1MDC", "et1mdc", 1, \h5A, {15})
    \o Low(1 .. 3, \h5C, "BREV", "brev") \o Low({4, 5}, \h42, "BREV", "brev")
    \o Low({8}, \h82, "BREV", "brev")
    \o Part("LOC", "loc", 4, \h5C, 8 .. 9)
    \o Country({4}, \h52) \o Country({5}, \h44) \o Country({8}, \h92)
    \o Shorts({4, 5}, \h54, <<<<"REGREV", "regrev">>>>)
    \o Shorts({8}, \h94, <<<<"REGREV", "regrev">>>>)

Antennas ==
    Part("ANTBG0", "antbg0", 1, \h5C, {12}) \o Part("ANTBG1", "antbg1", 1, \h5C, {13})
    \o Part("ANTA0", "anta0", 1, \h5C, {14}) \o Part("ANTA1", "anta1", 1, \h5C, {15})
    \o Bytes({4, 5}, \h5C, <<<<"ANTBG0", "antbg0">>, <<"ANTA0", "anta0">>>>)
    \o Bytes({8}, \h9C, <<<<"ANTBG0", "antbg0">>, <<"ANTA0", "anta0">>>>)
    \o Bytes(1 .. 3, \h74, <<<<"ANTGBG", "antgbg">>, <<"ANTGA", "antga">>>>)
    \o LET gains == <<<<"ANTG0", "antg0">>, <<"ANTG1", "antg1">>,
                      <<"ANTG2", "antg2">>, <<"ANTG3", "antg3">>>>
       IN  Bytes({4, 5}, \h5E, gains) \o Bytes({8}, \h9E, gains)

Leds ==
    LET names == <<<<"LED0", "led0">>, <<"LED1", "led1">>, <<"LED2", "led2">>, <<"LED3", "led3">>>>
    IN  Bytes(1 .. 3, \h64, names) \o Bytes({4}, \h56, names) \o Bytes({5}, \h76, names)

Power ==
    LET bg == <<<<"MAXPBG", "maxpbg">>, <<"ITSSIBG", "itssibg">>>>
    IN  Bytes(1 .. 3, \h68, <<<<"MAXPBG", "maxpbg">>, <<"MAXPA", "maxpa">>>>)
        \o Bytes(1 .. 3, \h70, <<<<"ITSSIBG", "itssibg">>, <<"ITSSIA", "itssia">>>>)
        \o Bytes({4, 5}, \h80, bg) \o Bytes({8}, \hC0, bg)
        \o Bytes({4, 5}, \h8A, <<<<"MAXPA", "maxpa">>, <<"ITSSIA", "itssia">>>>)
        \o High({8}, \hCA, "MAXPA", "maxpa") \o High({8}, \hCA, "ITSSIA", "itssia")

Indices(revs, offset) ==
    Shorts(revs, offset,
        <<<<"TPI2G0", "tpi2g0">>, <<"TPI2G1", "tpi2g1">>, <<"TPI5GM0", "tpi5gm0">>,
          <<"TPI5GM1", "tpi5gm1">>, <<"TPI5GL0", "tpi5gl0">>, <<"TPI5GL1", "tpi5gl1">>,
          <<"TPI5GH0", "tpi5gh0">>, <<"TPI5GH1", "tpi5gh1">>>>)

\* The power offsets lie in the same order, eight bytes apart in 4 and 8.
Offsets(revs, offset) ==
    Shorts(revs, offset, <<<<"2CCKPO", "cckpo2g">>>>)
    \o Longs(revs, offset + 2, <<<<"2OFDMPO", "ofdm2g">>, <<"5MPO", "ofdm5gm">>,
                                  <<"5LPO", "ofdm5gl">>, <<"5HPO", "ofdm5gh">>>>)
    \o Whole(revs, 16, offset + 18, 16,
             <<<<"2MCSPO", "mcspo2">>, <<"5MMCSPO", "mcspo5m">>,
               <<"5LMCSPO", "mcspo5l">>, <<"5HMCSPO", "mcspo5h">>, <<"CCDPO", "ccdpo">>>>)
    \o Shorts(revs, offset + 84, <<<<"STBCPO", "stbcpo">>, <<"BW40PO", "bw40po">>,
                                  <<"BWDUPPO", "bwduppo">>>>)

Amplifiers ==
    LET first == <<<<"PA0B0", "pa0b0">>, <<"PA0B1", "pa0b1">>, <<"PA0B2", "pa0b2">>>>
    IN  Shorts(1 .. 3, \h5E, first)
        \o Shorts(1 .. 3, \h6A, <<<<"PA1B0", "pa1b0">>, <<"PA1B1", "pa1b1">>, <<"PA1B2", "pa1b2">>>>)
        \o Shorts({4, 5}, \hC2, first \o <<<<"PA0B3", "pa0b3">>>>)
        \o Low({4, 5}, \hCC, "PA1B0", "pam5h") \o High({4, 5}, \hCC, "PA1B0", "pam5l")
        \o Shorts({4, 5}, \hCE,
             <<<<"5MPA0", "pa5m0">>, <<"5MPA1", "pa5m1">>, <<"5MPA2", "pa5m2">>, <<"5MPA3", "pa5m3">>,
               <<"5LPA0", "pa5l0">>, <<"5LPA1", "pa5l1">>, <<"5LPA2", "pa5l2">>, <<"5LPA3", "pa5l3">>,
               <<"5HPA0", "pa5h0">>, <<"5HPA1", "pa5h1">>, <<"5HPA2", "pa5h2">>, <<"5HPA3", "pa5h3">>>>)
        \o Shorts({8}, \hC2, first)
        \o Shorts({8}, \hCC,
             <<<<"PA1B0", "pa5m0">>, <<"PA1B1", "pa5m1">>, <<"PA1B2", "pa5m2">>,
               <<"5MPA0", "pa5l0">>, <<"5MPA1", "pa5l1">>, <<"5MPA2", "pa5l2">>,
               <<"5LPA0", "pa5h0">>, <<"5LPA1", "pa5h1">>, <<"5LPA2", "pa5h2">>>>)

sprom_table ==
    Board \o Antennas \o Leds \o Power \o Indices({8}, \h62) \o Indices({4, 5}, \h62)
          \o Offsets({8}, \h140) \o Offsets({4, 5}, \h138) \o Amplifiers
=============================================================================
