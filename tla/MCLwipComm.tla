----------------------------- MODULE MCLwipComm -----------------------------
\* The real proportions, some 45 blocks of the pool to one of the model: of 1600
\* blocks the descriptor tables take 2 each, the frame buffers 96 each, memp 212
\* and the heap 251.
EXTENDS LwipComm

MCBufferSize == <<2, 2, 3, 3, 7, 9>>
MCAppSizes == {2, 5}
MCSizes == Range(MCBufferSize) \cup MCAppSizes

=============================================================================
