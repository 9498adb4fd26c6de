------------------------------ MODULE MCFwDump ------------------------------
EXTENDS FwDump

\* n instructions, with a label's line in front of every fifth one.
RECURSIVE Listing(_)
Listing(n) == IF n = 0 THEN <<>>
              ELSE Listing(n - 1) \o (IF n % 5 = 0 THEN <<None>> ELSE <<>>) \o <<n - 1>>

\* Program counters near both ends of a text, and one in front of the last line
\* or behind the end.
MCTexts == {Listing(4), Listing(24)}
MCPcs == {2, 22}
=============================================================================
