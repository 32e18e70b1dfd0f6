------------------------------ MODULE MCTimeouts ------------------------------
(* The four timers sys_timeouts_init starts, in the order of their intervals *)
(* (1000, 5000, 60000 and 500 ms), TCP's (250 ms) and those of the           *)
(* application: two timeouts are often due at the same time, and a check may *)
(* find several expiries of one timer.                                       *)
EXTENDS Timeouts, TLC

MCPeriodic == <<"ip_reass_timer", "arp_timer", "dhcp_timer_coarse", "dhcp_timer_fine">>
MCInterval == "ip_reass_timer" :> 3 @@ "arp_timer" :> 4 @@ "dhcp_timer_coarse" :> 5
              @@ "dhcp_timer_fine" :> 2 @@ Tcp :> 1
===============================================================================
