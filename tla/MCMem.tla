-------------------------------- MODULE MCMem --------------------------------
\* A heap of 34 bytes: a struct mem takes four, a block at least four more, so
\* that three blocks fit, with the ends that are too short to be split off.
EXTENDS Mem

MCSizes == {0, 1, 4, 5, 8, 11, 26, 30, 63}

==============================================================================
