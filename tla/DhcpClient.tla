------------------------------ MODULE DhcpClient ------------------------------
(***************************************************************************)
(* lwIP's DHCP client, src/core/dhcp.c, as this firmware builds it: with   *)
(* the ARP check (DHCP_DOES_ARP_CHECK), without AUTOIP.  netif is what the *)
(* client and its user read and write: the interface and the client        *)
(* attached to it.  Every function of the client is an operator from a     *)
(* netif to the netif it leaves, because callers run several of them in    *)
(* one go; the argument sent tells whether dhcp_create_msg found memory.   *)
(*                                                                         *)
(* The server and the network are the environment: a request that was sent *)
(* may be answered never, late or several times, but a reply counts only   *)
(* under the client's present transaction identifier.  REBOOTING is left   *)
(* out: only netif_set_link_up leads there, and nothing calls it.          *)
(***************************************************************************)
EXTENDS Integers

CONSTANTS Addr,      \* addresses servers offer
          NoAddr,    \* 0.0.0.0
          Leases,    \* what dhcp_handle_ack makes of an ACK's options: [t1, t2], in seconds
          Forever,   \* 0xffffffff seconds
          Replies,   \* what may arrive: "offer", "bare_offer" (no server id), "ack", "nak", "conflict"
          MaxWait,   \* bound: longer request timeouts are cut to so many ticks
          TriesMod,  \* 256: tries has 8 bits
          TimerMod   \* 65536: t1_timeout and t2_timeout have 16

ASSUME DhcpAssumption ==
  /\ NoAddr \notin Addr
  /\ Leases \subseteq [t1 : Nat \cup {Forever}, t2 : Nat \cup {Forever}]
  /\ Replies \subseteq {"offer", "bare_offer", "ack", "nak", "conflict"}
  /\ MaxWait \in Nat \ {0} /\ TimerMod \in Nat \ {0, 1}
  /\ TriesMod \in Nat /\ TriesMod > 9  \* tries of a request that is given up do not wrap

VARIABLES netif,   \* the interface and its client
          server   \* environment: "up", or "down" once no reply will ever arrive again

vars == <<netif, server>>

NoLease == [t1 |-> 0, t2 |-> 0]

States == {"NONE", "OFF", "SELECTING", "REQUESTING", "CHECKING", "BACKING_OFF",
           "BOUND", "RENEWING", "REBINDING"}

Netif ==
  [ip : Addr \cup {NoAddr}, up : BOOLEAN,            \* struct netif
   state : States,                                   \* struct dhcp; NONE if there is none
   tries : 0 .. (TriesMod - 1), rt : 0 .. MaxWait,   \* rt is request_timeout
   t1 : 0 .. (TimerMod - 1), t2 : 0 .. (TimerMod - 1),
   offered : Addr \cup {NoAddr}, lease : Leases \cup {NoLease},
   asked : SUBSET {"discover", "request", "decline", "release"},
                                 \* history: messages sent under the present xid
   unanswered : 0 .. 9]          \* history: requests since the last reply

-----------------------------------------------------------------------------
(* Helpers of dhcp.c.                                                      *)

\* dhcp_set_state.
SetState(n, s) ==
  IF n.state = s THEN n ELSE [n EXCEPT !.state = s, !.tries = 0, !.rt = 0]

\* dhcp_create_msg and udp_sendto_if: the first message of a state gets a new
\* transaction identifier, so that earlier messages can no longer be answered.
Send(n, kind, sent) ==
  IF ~sent THEN n
  ELSE [n EXCEPT !.asked = IF n.tries = 0 THEN {kind} ELSE @ \cup {kind}]

\* Milliseconds in ticks of DHCP_FINE_TIMER_MSECS, rounded up.
FineTicks(ms) == LET t == (ms + 499) \div 500 IN IF t < MaxWait THEN t ELSE MaxWait

\* The timeouts after the given number of tries.
BackOff(t) == (IF t < 6 THEN <<1, 2, 4, 8, 16, 32>>[t + 1] ELSE 60) * 1000
RenewWait(t) == (IF t < 10 THEN t * 2 ELSE 20) * 1000
RebindWait(t) == (IF t < 10 THEN t ELSE 10) * 1000
CheckWait == 500
DeclineWait == 10000

\* tries++
Tries(n) == (n.tries + 1) % TriesMod

\* How dhcp_discover, _select, _check, _decline, _renew and _rebind end: tries++
\* and a new request_timeout.  unanswered is a history field, cut at 9.
Tried(n, ms) ==
  [n EXCEPT !.tries = Tries(n), !.rt = FineTicks(ms),
            !.unanswered = IF @ < 9 THEN @ + 1 ELSE @]

\* netif_set_down and the address removed.
Unconfigure(n) == [n EXCEPT !.ip = NoAddr, !.up = FALSE]

Discover(n, sent) ==
  LET m == Send(SetState([n EXCEPT !.offered = NoAddr], "SELECTING"), "discover", sent)
  IN  Tried(m, BackOff(Tries(m)))

Select(n, sent) ==
  LET m == Send(SetState(n, "REQUESTING"), "request", sent) IN Tried(m, BackOff(Tries(m)))

Check(n) == Tried(SetState(n, "CHECKING"), CheckWait)

\* Nothing answers a DECLINE, but it takes a new transaction identifier.
Decline(n, sent) ==
  Tried(Send(SetState(n, "BACKING_OFF"), "decline", sent), DeclineWait)

Renew(n, sent) ==
  LET m == Send(SetState(n, "RENEWING"), "request", sent) IN Tried(m, RenewWait(Tries(m)))

Rebind(n, sent) ==
  LET m == Send(SetState(n, "REBINDING"), "request", sent) IN Tried(m, RebindWait(Tries(m)))

\* Mutant: the address stays.
Release_KeepsAddress(n, sent) ==
  LET m == Send(SetState(n, "OFF"), "release", sent)
  IN  [Tried(m, RebindWait(Tries(m))) EXCEPT !.offered = NoAddr, !.lease = NoLease]

Release(n, sent) ==
  LET m == Send(SetState(n, "OFF"), "release", sent)
  IN  Unconfigure([Tried(m, RebindWait(Tries(m))) EXCEPT !.offered = NoAddr, !.lease = NoLease])

\* dhcp_bind's conversion of a lease time to ticks of a minute, at least one.
CoarseTicks(secs) ==
  LET m == (secs + 30) \div 60
  IN  IF m = 0 THEN 1 ELSE IF m < TimerMod THEN m ELSE TimerMod - 1

\* Mutant: the interface is not brought up.
Bind_StaysDown(n) ==
  LET t1 == IF n.lease.t1 = Forever THEN n.t1 ELSE CoarseTicks(n.lease.t1)
      t2 == IF n.lease.t2 = Forever THEN n.t2 ELSE CoarseTicks(n.lease.t2)
  IN  SetState([n EXCEPT !.t1 = IF t1 >= t2 /\ t2 > 0 THEN 0 ELSE t1, !.t2 = t2,
                         !.ip = n.offered], "BOUND")

\* dhcp_bind.  A time that is Forever leaves the old timer as it is.
Bind(n) ==
  LET t1 == IF n.lease.t1 = Forever THEN n.t1 ELSE CoarseTicks(n.lease.t1)
      t2 == IF n.lease.t2 = Forever THEN n.t2 ELSE CoarseTicks(n.lease.t2)
  IN  SetState([n EXCEPT !.t1 = IF t1 >= t2 /\ t2 > 0 THEN 0 ELSE t1, !.t2 = t2,
                         !.ip = n.offered, !.up = TRUE], "BOUND")

\* dhcp_handle_nak.
HandleNak(n, sent) == Discover(SetState(Unconfigure(n), "BACKING_OFF"), sent)

-----------------------------------------------------------------------------
(* The timers.                                                             *)

\* Mutant: a request is repeated for ever.
GivenUp_Never(n) == FALSE

\* When dhcp_timeout releases instead of repeating a request.
GivenUp(n) ==
  \/ n.state = "REQUESTING" /\ n.tries > 5
  \/ n.state = "REBINDING" /\ n.tries > 8

\* Mutant: the end of a back-off is not noticed.
Discovering_NotAfterBackOff == {"SELECTING"}

\* The states in which dhcp_timeout starts again.
Discovering == {"BACKING_OFF", "SELECTING"}

\* dhcp_timeout.
Timeout(n, sent) ==
  IF GivenUp(n) THEN Discover(Release(n, sent), sent)
  ELSE CASE n.state \in Discovering -> Discover(n, sent)
         [] n.state = "REQUESTING" -> Select(n, sent)
         [] n.state = "CHECKING" -> IF n.tries <= 1 THEN Check(n) ELSE Bind(n)
         [] n.state = "RENEWING" -> Renew(n, sent)
         [] n.state = "REBINDING" -> Rebind(n, sent)
         [] OTHER -> n

\* dhcp_fine_tmr, for this interface.
FineTmr(n, sent) ==
  CASE n.rt > 1 -> [n EXCEPT !.rt = @ - 1]
    [] n.rt = 1 -> Timeout([n EXCEPT !.rt = 0], sent)
    [] OTHER -> n

\* dhcp_t1_timeout and dhcp_t2_timeout.
MayRenew(n) == n.state \in {"REQUESTING", "BOUND", "RENEWING"}
T1Timeout(n, sent) == IF MayRenew(n) THEN Renew(n, sent) ELSE n
T2Timeout(n, sent) == IF MayRenew(n) THEN Rebind(n, sent) ELSE n

\* dhcp_coarse_tmr.  Both counters go below zero.
CoarseTmr(n, sent) ==
  LET Less(t) == (t - 1) % TimerMod
      m == [n EXCEPT !.t2 = Less(@)]
  IN  CASE n.state = "NONE" -> n
        [] n.state # "NONE" /\ n.t2 = 1 -> T2Timeout(m, sent)
        [] OTHER -> LET o == [m EXCEPT !.t1 = Less(@)]
                    IN  IF n.t1 = 1 THEN T1Timeout(o, sent) ELSE o

-----------------------------------------------------------------------------
(* dhcp_start, and a fresh interface.                                      *)

\* memset of the client.
Zeroed(n) ==
  [n EXCEPT !.state = "OFF", !.tries = 0, !.rt = 0, !.t1 = 0, !.t2 = 0,
            !.offered = NoAddr, !.lease = NoLease, !.asked = {}, !.unanswered = 0]

\* dhcp_stop: without its pcb the client receives nothing.
Stop(n) == [SetState(n, "OFF") EXCEPT !.asked = {}]

\* dhcp_start: it succeeds, finds no memory for the message or for the pcb,
\* or, if the interface has no client yet, none for the client.
DhcpStart(n) ==
  {Discover(Zeroed(n), TRUE), Stop(Discover(Zeroed(n), FALSE)), Zeroed(n)} \cup (IF n.state = "NONE" THEN {n} ELSE {})

\* What netif_add leaves, and netif_set_up.
Added ==
  [ip |-> NoAddr, up |-> TRUE, state |-> "NONE", tries |-> 0, rt |-> 0, t1 |-> 0, t2 |-> 0,
   offered |-> NoAddr, lease |-> NoLease, asked |-> {}, unanswered |-> 0]

-----------------------------------------------------------------------------
(* dhcp_recv and dhcp_arp_reply.                                           *)

\* A message of the client's present transaction answers one of this kind.
Answers(kind) == server = "up" /\ kind \in netif.asked

Answered == [netif EXCEPT !.unanswered = 0]

\* dhcp_handle_offer.
RecvOffer ==
  /\ "offer" \in Replies /\ Answers("discover") /\ netif.state = "SELECTING"
  /\ \E a \in Addr, sent \in BOOLEAN :
       netif' = Select([Answered EXCEPT !.rt = 0, !.offered = a], sent)

\* An offer without the server's identifier: the timeout is cleared before the
\* offer is looked at.
RecvBareOffer ==
  /\ "bare_offer" \in Replies /\ Answers("discover") /\ netif.state = "SELECTING"
  /\ netif' = [netif EXCEPT !.rt = 0]

\* A first ACK is remembered (dhcp_handle_ack) and its address checked; a later
\* one renews the lease as it was first remembered.
RecvAck ==
  /\ "ack" \in Replies /\ Answers("request")
  /\ \/ /\ netif.state = "REQUESTING"
        /\ \E a \in Addr, l \in Leases :
             netif' = Check([Answered EXCEPT !.offered = a, !.lease = l])
     \/ /\ netif.state \in {"RENEWING", "REBINDING"}
        /\ netif' = Bind(Answered)

RecvNak ==
  /\ "nak" \in Replies /\ Answers("request")
  /\ netif.state \in {"REQUESTING", "RENEWING", "REBINDING"}
  /\ \E sent \in BOOLEAN : netif' = HandleNak(Answered, sent)

\* dhcp_arp_reply: another host has the offered address.
ArpReply ==
  /\ "conflict" \in Replies /\ server = "up" /\ netif.state = "CHECKING"
  /\ \E sent \in BOOLEAN : netif' = Decline(netif, sent)

Receive == (RecvOffer \/ RecvBareOffer \/ RecvAck \/ RecvNak \/ ArpReply) /\ UNCHANGED server

\* The server or the network fails for good.
ServerDies == server = "up" /\ server' = "down" /\ UNCHANGED netif

-----------------------------------------------------------------------------
(* The client by itself: started once, driven by its two timers.           *)

Init == netif \in DhcpStart(Added) /\ server = "up"

FineTick == \E sent \in BOOLEAN : netif' = FineTmr(netif, sent) /\ UNCHANGED server

CoarseTick == \E sent \in BOOLEAN : netif' = CoarseTmr(netif, sent) /\ UNCHANGED server

Next == FineTick \/ CoarseTick \/ Receive \/ ServerDies

Spec == Init /\ [][Next]_vars /\ WF_vars(FineTick) /\ WF_vars(CoarseTick)

-----------------------------------------------------------------------------

\* Every field has its type; an unattached or stopped client has nothing running.
TypeOK ==
  /\ netif \in Netif
  /\ netif.state \in {"NONE", "OFF"} => netif.rt = 0 /\ netif.asked = {}
  /\ server \in {"up", "down"}

\* dhcp_start "obtain[s] an IP address lease and maintain[s] it": an interface with an
\* address is up and has a client that is bound to it, or renews or rebinds it; and a
\* bound client has configured the interface.
LeaseIsMaintained ==
  /\ netif.ip \in Addr =>
       /\ netif.state \in {"BOUND", "RENEWING", "REBINDING"}
       /\ netif.ip = netif.offered
       /\ netif.up
  /\ netif.state = "BOUND" => netif.ip \in Addr

\* Requests are given up: no more than six for an address, nine to rebind, two ARP
\* probes.
RetriesAreBounded ==
  /\ netif.state = "REQUESTING" => netif.tries <= 6
  /\ netif.state = "REBINDING" => netif.tries <= 9
  /\ netif.state = "CHECKING" => netif.tries <= 2

\* A client that waits for an answer has a timeout running, so that it cannot wait
\* for ever (dhcp_fine_tmr: "checks whether an outstanding DHCP request is timed out").
WaitingIsTimed ==
  netif.state \in {"SELECTING", "REQUESTING", "CHECKING", "BACKING_OFF", "REBINDING"} =>
    netif.rt > 0

\* When no reply arrives any more, the address is given up: the timers lead from
\* BOUND through RENEWING and REBINDING to a release.
DeadLeaseIsReleased == server = "down" ~> netif.ip = NoAddr

-----------------------------------------------------------------------------
(* Properties the code does not have (README.md, Findings).                *)

\* dhcp_renew is repeated with a back-off of at most 20 seconds.
RenewingIsTimed == netif.state = "RENEWING" => netif.rt > 0

\* An interface without an address gets one only after the ARP check.
BoundAfterCheck ==
  [][netif.ip = NoAddr /\ netif'.ip \in Addr => netif.state = "CHECKING"]_vars

=============================================================================
