---------------------------- MODULE SpromFields ----------------------------
(***************************************************************************)
(* Values in an SPROM image (ssb_sprom.c: locate_item_by_desc,             *)
(* locate_item_rev, modify_value, display_value). An image is the set of   *)
(* the positions of its one bits, bit b of byte n at position 8 * n + b; a *)
(* value is the set of the positions of its own one bits.                  *)
(***************************************************************************)
EXTENDS SpromTable, Integers, FiniteSets

First(S) == CHOOSE n \in S : \A m \in S : n <= m
Lowest(mask) == First(mask)

RowsOf(rev) == {n \in DOMAIN sprom_table : rev \in sprom_table[n].revs}
Named(rev, desc) == {n \in RowsOf(rev) : sprom_table[n].desc = desc}
Typed(rev, type) == {n \in RowsOf(rev) : sprom_table[n].type = type}

\* locate_item_by_desc and locate_item_rev: the first row that fits.
RowNamed(rev, desc) == sprom_table[First(Named(rev, desc))]

\* Seeded fault: the revision is not looked at.
FaultyRowTyped(rev, type) == sprom_table[First({n \in DOMAIN sprom_table : sprom_table[n].type = type})]
RowTyped(rev, type) == sprom_table[First(Typed(rev, type))]

\* The bits of the image that hold a value: the masked bits of its word, or
\* whole words; a MAC address and a country code have the bytes of each word
\* exchanged.
Width(row) ==
    CASE row.length = 34 -> 48
      [] row.length = 33 -> 16
      [] row.length \in {16, 32} -> row.length
      [] OTHER -> Cardinality(row.mask)

Place(row, k) ==
    8 * row.offset
      + CASE row.length < 16 -> Lowest(row.mask) + k
          [] row.length \in {33, 34} -> IF k % 16 < 8 THEN k + 8 ELSE k - 8
          [] OTHER -> k

Own(row) == {Place(row, k) : k \in 0 .. Width(row) - 1}

\* v << shift is cut to 16 bits, but not to the mask.
Reach(row) == IF row.length < 16 THEN 0 .. 15 - Lowest(row.mask) ELSE 0 .. Width(row) - 1

\* Seeded fault: the word's other bits are not kept.
FaultyPut(bits, row, v) ==
    (bits \ (8 * row.offset .. 8 * row.offset + 15))
        \cup {Place(row, k) : k \in v \cap Reach(row)}

Put(bits, row, v) == (bits \ Own(row)) \cup {Place(row, k) : k \in v \cap Reach(row)}

Get(bits, row) == {k \in 0 .. Width(row) - 1 : Place(row, k) \in bits}

\* v has no bits beyond the value's own.
Fits(row, v) == v \subseteq 0 .. Width(row) - 1
=============================================================================
