------------------------------ MODULE MCMalloc ------------------------------
\* The memory manager on a table of six blocks of three bytes: every mix of
\* requests of no byte, of part of a block, of whole blocks, of the whole pool
\* and of more than the pool.
EXTENDS Malloc

MCSizes == {0, 1, 3, 4, 6, 9, 18, 19}

=============================================================================
