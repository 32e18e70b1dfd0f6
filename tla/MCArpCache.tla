------------------------------ MODULE MCArpCache ------------------------------
(* Two entries for three hosts: the table is full as soon as two are known.  *)
EXTENDS ArpCache
===============================================================================
