------------------------------ MODULE MCEthRx ------------------------------
\* The ring of the source, and frames enough to go round it more than once.
EXTENDS EthRx

\* main polls and frames fit one buffer; or the handler is alone, as in the
\* repository, and frames may take two.
BothUses == {[polls |-> TRUE, long |-> FALSE], [polls |-> FALSE, long |-> TRUE]}

HandlerAlone == {[polls |-> FALSE, long |-> FALSE]}

=============================================================================
