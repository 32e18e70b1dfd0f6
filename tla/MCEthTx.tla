------------------------------ MODULE MCEthTx ------------------------------
\* A ring of four descriptors, as in the firmware, and two different frames.
EXTENDS EthTx

CONSTANTS f1, f2

MCFrames == {f1, f2}

=============================================================================
