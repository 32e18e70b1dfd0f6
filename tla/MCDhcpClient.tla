---------------------------- MODULE MCDhcpClient ----------------------------
(* The DHCP client with one or two addresses and small counters. *)
EXTENDS DhcpClient

\* A lease that is renewed after one minute and rebound after two, and one so short
\* that both fall together.
ShortLeases == {[t1 |-> 60, t2 |-> 120], [t1 |-> 20, t2 |-> 40]}

\* The server asks for renewals after a minute, for two hours.
LateRebind == {[t1 |-> 60, t2 |-> 7200]}

=============================================================================
