-------------------------------- MODULE Crc8 --------------------------------
(***************************************************************************)
(* The checksum of an SPROM image (ssb_sprom/utils.c: crc8, ssb_sprom.c:   *)
(* sprom_crc). Two images that differ in one byte are summed up together:  *)
(* images of every length, as the states of two sums are finite.           *)
(***************************************************************************)
EXTENDS Naturals, Sequences, Bitwise

CONSTANT Data   \* the bytes that both images contain

Byte == 0 .. 255

VARIABLES
    crc,     \* the sum of the image
    other,   \* the sum of the changed one
    changed  \* the two have differed

vars == <<crc, other, changed>>

table ==
    <<
      \h00, \hF7, \hB9, \h4E, \h25, \hD2, \h9C, \h6B, \h4A, \hBD, \hF3, \h04, \h6F, \h98, \hD6, \h21,
      \h94, \h63, \h2D, \hDA, \hB1, \h46, \h08, \hFF, \hDE, \h29, \h67, \h90, \hFB, \h0C, \h42, \hB5,
      \h7F, \h88, \hC6, \h31, \h5A, \hAD, \hE3, \h14, \h35, \hC2, \h8C, \h7B, \h10, \hE7, \hA9, \h5E,
      \hEB, \h1C, \h52, \hA5, \hCE, \h39, \h77, \h80, \hA1, \h56, \h18, \hEF, \h84, \h73, \h3D, \hCA,
      \hFE, \h09, \h47, \hB0, \hDB, \h2C, \h62, \h95, \hB4, \h43, \h0D, \hFA, \h91, \h66, \h28, \hDF,
      \h6A, \h9D, \hD3, \h24, \h4F, \hB8, \hF6, \h01, \h20, \hD7, \h99, \h6E, \h05, \hF2, \hBC, \h4B,
      \h81, \h76, \h38, \hCF, \hA4, \h53, \h1D, \hEA, \hCB, \h3C, \h72, \h85, \hEE, \h19, \h57, \hA0,
      \h15, \hE2, \hAC, \h5B, \h30, \hC7, \h89, \h7E, \h5F, \hA8, \hE6, \h11, \h7A, \h8D, \hC3, \h34,
      \hAB, \h5C, \h12, \hE5, \h8E, \h79, \h37, \hC0, \hE1, \h16, \h58, \hAF, \hC4, \h33, \h7D, \h8A,
      \h3F, \hC8, \h86, \h71, \h1A, \hED, \hA3, \h54, \h75, \h82, \hCC, \h3B, \h50, \hA7, \hE9, \h1E,
      \hD4, \h23, \h6D, \h9A, \hF1, \h06, \h48, \hBF, \h9E, \h69, \h27, \hD0, \hBB, \h4C, \h02, \hF5,
      \h40, \hB7, \hF9, \h0E, \h65, \h92, \hDC, \h2B, \h0A, \hFD, \hB3, \h44, \h2F, \hD8, \h96, \h61,
      \h55, \hA2, \hEC, \h1B, \h70, \h87, \hC9, \h3E, \h1F, \hE8, \hA6, \h51, \h3A, \hCD, \h83, \h74,
      \hC1, \h36, \h78, \h8F, \hE4, \h13, \h5D, \hAA, \h8B, \h7C, \h32, \hC5, \hAE, \h59, \h17, \hE0,
      \h2A, \hDD, \h93, \h64, \h0F, \hF8, \hB6, \h41, \h60, \h97, \hD9, \h2E, \h45, \hB2, \hFC, \h0B,
      \hBE, \h49, \h07, \hF0, \h9B, \h6C, \h22, \hD5, \hF4, \h03, \h4D, \hBA, \hD1, \h26, \h68, \h9F
    >>

\* t[n]
Entry(n) == table[n + 1]

\* Seeded fault: the byte is ored to the sum.
FaultyCrc8(sum, data) == Entry(sum | data)

crc8(sum, data) == Entry(sum ^^ data)

\* sprom_crc starts with ones; the final inversion is the same for both.
Init == crc = 255 /\ other = 255 /\ changed = FALSE

SameByte ==
    /\ \E d \in Data : crc' = crc8(crc, d) /\ other' = crc8(other, d)
    /\ UNCHANGED changed

ChangedByte ==
    /\ ~changed
    /\ \E d \in Data : \E e \in Byte \ {d} : crc' = crc8(crc, d) /\ other' = crc8(other, e)
    /\ changed' = TRUE

Next == SameByte \/ ChangedByte

Spec == Init /\ [][Next]_vars
-----------------------------------------------------------------------------
\* Any change of one byte changes the checksum, wherever it is: no such image
\* passes validate_input.
EveryChangeIsSeen == changed <=> crc # other
=============================================================================
