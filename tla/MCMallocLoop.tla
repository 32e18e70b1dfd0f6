---------------------------- MODULE MCMallocLoop ----------------------------
\* The loops of the memory manager on a table of five blocks of two bytes.
EXTENDS MallocLoop

MCSizes == {0, 1, 3, 5, 10, 11}

=============================================================================
