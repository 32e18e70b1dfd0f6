------------------------------ MODULE DhcpWatch ------------------------------
(***************************************************************************)
(* lwip_periodic_handle and lwip_dhcp_process_handle of lwip_comm.c over   *)
(* the DHCP client.  The application polls lwip_periodic_handle and counts *)
(* lwip_localtime; nothing in the repository does, as nothing calls        *)
(* lwip_comm_init.  Frames reach the client through lwip_pkt_handle, from  *)
(* the same foreground, so that nothing comes between what a call does.    *)
(*                                                                         *)
(* The client's timers run twice: from sys_check_timeouts, which asks a    *)
(* sys_now that returns nothing (LWIP/arch/sys_arch.c), so that any number *)
(* of timeouts may be due, and from lwip_periodic_handle's own counters.   *)
(* Each timeout is a step, as in Timeouts: those of one call and those of  *)
(* as many calls that do nothing else come to the same.  What follows in   *)
(* the call is the step that ends it.                                      *)
(***************************************************************************)
EXTENDS DhcpClient

CONSTANTS Static,      \* the address of lwip_comm_default_ip_set
          SysTimeouts, \* whether sys_check_timeouts ever finds a timeout due
          StartMayFail \* whether dhcp_start may lack memory

ASSUME WatchAssumption == Static \notin Addr \cup {NoAddr} /\ SysTimeouts \in BOOLEAN /\ StartMayFail \in BOOLEAN

LWIP_MAX_DHCP_TRIES == 4

VARIABLE lwipdev   \* its fields dhcpstatus and ip

wvars == <<vars, lwipdev>>

-----------------------------------------------------------------------------

\* dhcp_start, as its callers see it: they ignore its result.
Start(n) == IF StartMayFail THEN DhcpStart(n) ELSE {Discover(Zeroed(n), TRUE)}

FineTmrs(n) == {FineTmr(n, sent) : sent \in BOOLEAN}
CoarseTmrs(n) == {CoarseTmr(n, sent) : sent \in BOOLEAN}

\* Mutant: the comparison is with >=.
TooManyTries_OneLess(n) == {n.tries >= LWIP_MAX_DHCP_TRIES}

\* Whether tries > LWIP_MAX_DHCP_TRIES.  Without a client tries is read through a null
\* pointer, from the start of the memory: any value.
TooManyTries(n) ==
  IF n.state = "NONE" THEN BOOLEAN ELSE {n.tries > LWIP_MAX_DHCP_TRIES}

\* lwip_dhcp_process_handle: the pairs of a netif and a lwipdev it may leave.
Process(n, d) ==
  CASE d.dhcpstatus = 0 -> {<<m, [d EXCEPT !.dhcpstatus = 1]>> : m \in Start(n)}
    [] d.dhcpstatus = 1 /\ n.ip # NoAddr -> {<<n, [d EXCEPT !.dhcpstatus = 2, !.ip = n.ip]>>}
    [] d.dhcpstatus = 1 /\ n.ip = NoAddr ->
         {IF many THEN <<[n EXCEPT !.ip = d.ip], [d EXCEPT !.dhcpstatus = 255]>> ELSE <<n, d>> :
            many \in TooManyTries(n)}
    [] OTHER -> {<<n, d>>}

-----------------------------------------------------------------------------

\* lwip_comm_init, from netif_add on.
WInit ==
  /\ netif \in Start(Added) /\ server = "up"
  /\ lwipdev = [dhcpstatus |-> 0, ip |-> Static]

\* sys_check_timeouts takes the next timeout: dhcp_timer_fine or dhcp_timer_coarse.
SysTimeout ==
  /\ SysTimeouts
  /\ netif' \in FineTmrs(netif) \cup CoarseTmrs(netif)
  /\ UNCHANGED <<lwipdev, server>>

\* lwip_periodic_handle ends with dhcp_coarse_tmr if a minute has passed.
MaybeCoarse(n) == {n} \cup CoarseTmrs(n)

\* lwip_periodic_handle less than half a second after it last called dhcp_fine_tmr.
PollTooEarly ==
  /\ netif' \in MaybeCoarse(netif)
  /\ UNCHANGED <<lwipdev, server>>

\* The same at least half a second after it.
PollDue ==
  /\ \E m \in FineTmrs(netif) : \E p \in Process(m, lwipdev) :
       /\ netif' \in MaybeCoarse(p[1])
       /\ lwipdev' = p[2]
  /\ UNCHANGED server

WNext == SysTimeout \/ PollTooEarly \/ PollDue \/ ((Receive \/ ServerDies) /\ UNCHANGED lwipdev)

\* The application goes on polling and counting.
WSpec == WInit /\ [][WNext]_wvars /\ WF_wvars(PollDue)

-----------------------------------------------------------------------------

\* Each status has its address: the static one until a lease is found, then a leased
\* one.
WatchTypeOK ==
  /\ lwipdev.dhcpstatus \in {0, 1, 2, 255}
  /\ lwipdev.dhcpstatus # 2 <=> lwipdev.ip = Static
  /\ lwipdev.dhcpstatus = 2 => lwipdev.ip \in Addr
  /\ netif.ip \in Addr \cup {NoAddr, Static}
  /\ netif.ip = Static => lwipdev.dhcpstatus = 255

\* The static address is taken only when more than LWIP_MAX_DHCP_TRIES requests in a
\* row had no answer and the interface has no address.
FallbackIsJustified ==
  [][lwipdev.dhcpstatus # 255 /\ lwipdev'.dhcpstatus = 255 =>
       /\ netif'.unanswered > LWIP_MAX_DHCP_TRIES
       /\ netif.ip = NoAddr]_wvars

-----------------------------------------------------------------------------
(* Properties the code does not have (README.md, Findings).                *)

\* The watch comes to a result: an address from the server or the static one.
Settles == []<>(lwipdev.dhcpstatus \in {2, 255})

\* dhcpstatus 1 means that an address is being waited for (lwip_comm.c:187): there is
\* a client, and it runs.
WaitingMeansRunning == lwipdev.dhcpstatus = 1 => netif.state \notin {"NONE", "OFF"}

\* After the time-out the static address is used (lwip_comm.c:221).
StaticIsUsed == lwipdev.dhcpstatus = 255 => netif.ip = Static

\* The static address is given to an interface that is up.
StaticOnUpInterface ==
  [][lwipdev.dhcpstatus # 255 /\ lwipdev'.dhcpstatus = 255 => netif'.up]_wvars

=============================================================================
