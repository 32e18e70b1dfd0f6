----------------------------- MODULE MCDhcpWatch -----------------------------
(* The DHCP watch with one address and small counters. *)
EXTENDS DhcpWatch

OneLease == {[t1 |-> 60, t2 |-> 120]}

=============================================================================
