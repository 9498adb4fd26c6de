---------------------------- MODULE MCAssembler ----------------------------
\* The assembler on the programs of MCPrograms.
EXTENDS Assembler, MCPrograms
=============================================================================
