------------------------------- MODULE ArpCache -------------------------------
(***************************************************************************)
(* The ARP cache of lwIP (netif/etharp.c) as this firmware builds it: no   *)
(* static entries, one queued packet per entry (ARP_QUEUEING 0), one       *)
(* netif, and etharp_cached_entry as the only hint.  Every function is one *)
(* step, its caller being alone in the stack.  Addresses are next hops:    *)
(* etharp_output has replaced an outside address by the gateway's, and     *)
(* broadcast and multicast frames never meet the table.                    *)
(***************************************************************************)
EXTENDS Integers

CONSTANTS ARP_TABLE_SIZE, ARP_MAXAGE, ARP_AGE_REREQUEST_USED, ARP_MAXPENDING,
          IPs, MACs,
          Copies    \* tells apart the copies of packets to one next hop
CONSTANT NULL

ASSUME ArpAssumption ==
  /\ ARP_TABLE_SIZE \in 1 .. 127
  /\ ARP_MAXAGE \in 1 .. 255 /\ ARP_MAXPENDING \in 1 .. ARP_MAXAGE
  /\ ARP_AGE_REREQUEST_USED \in 0 .. ARP_MAXAGE
  /\ NULL \notin IPs \union MACs \union (IPs \X Copies)

VARIABLES arp_table, etharp_cached_entry,
          heap,       \* the packets etharp_query holds, copied or referenced
          announced,  \* history: the MAC address each host last sent
          sent        \* history: the IP frames the last call sent, <<next hop, MAC>>

vars == <<arp_table, etharp_cached_entry, heap, announced, sent>>

Slots == 0 .. (ARP_TABLE_SIZE - 1)
Packets == IPs \X Copies     \* a packet is known by its next hop
NextHop(p) == p[1]
Stable == {"STABLE", "STABLE_REREQUESTING"}

Entry == [state : {"EMPTY", "PENDING"} \union Stable, q : Packets \union {NULL},
          ipaddr : IPs \union {NULL}, ethaddr : MACs \union {NULL},
          netif : BOOLEAN,           \* FALSE: NULL, TRUE: lwip_netif
          ctime : 0 .. ARP_MAXAGE]

Init ==
  /\ arp_table = [i \in Slots |-> [state |-> "EMPTY", q |-> NULL, ipaddr |-> NULL,
                                   ethaddr |-> NULL, netif |-> FALSE, ctime |-> 0]]
  /\ etharp_cached_entry = 0
  /\ heap = {}
  /\ announced = [ip \in IPs |-> NULL]
  /\ sent = {}

-----------------------------------------------------------------------------

\* Mutant: the packet of a recycled entry is forgotten, not freed.
Freed_KeepsQueue(e) ==
  [e EXCEPT !.state = "EMPTY", !.ipaddr = NULL, !.ethaddr = NULL, !.ctime = 0]

\* etharp_free_entry.  The code leaves the old addresses and age behind, where
\* they are written again before they are read; only the old netif is read.
Freed(e) ==
  [state |-> "EMPTY", q |-> NULL, ipaddr |-> NULL, ethaddr |-> NULL,
   netif |-> e.netif, ctime |-> 0]

InUse == {i \in Slots : arp_table[i].state # "EMPTY"}
Queued(S) == {arp_table[i].q : i \in S} \ {NULL}

Settled == {i \in InUse : arp_table[i].state \in Stable}
Unqueued == {i \in InUse : arp_table[i].state = "PENDING" /\ arp_table[i].q = NULL}

IsFirst(i, S) == i \in S /\ \A j \in S : i <= j

\* The last of the oldest: the scan of etharp_find_entry compares with >=.
IsOldest(i, S) ==
  /\ i \in S
  /\ \A j \in S : \/ arp_table[j].ctime < arp_table[i].ctime
                  \/ arp_table[j].ctime = arp_table[i].ctime /\ j <= i

\* Mutant: pending entries are taken for the less important ones.
Recycles_PendingFirst(i) ==
  \/ IsFirst(i, Slots \ InUse)
  \/ InUse = Slots /\ IsOldest(i, Slots \ Settled)
  \/ Settled = Slots /\ IsOldest(i, Slots)

\* The entry etharp_find_entry recycles: stable ones before pending ones, and
\* a pending one with a packet only when there is nothing else.
Recycles(i) ==
  \/ IsFirst(i, Slots \ InUse)
  \/ InUse = Slots /\ IsOldest(i, Settled)
  \/ InUse = Slots /\ Settled = {} /\ IsOldest(i, Unqueued)
  \/ InUse = Slots /\ Settled = {} /\ Unqueued = {} /\ IsOldest(i, Slots)

\* Mutant: an entry is recognised only once it has been resolved.
Matching_StableOnly(ip) == {i \in Settled : arp_table[i].ipaddr = ip}

Matching(ip) == {i \in InUse : arp_table[i].ipaddr = ip}

\* etharp_find_entry with ETHARP_FLAG_TRY_HARD returns i.
Finds(i, ip) ==
  \/ IsFirst(i, Matching(ip))
  \/ Matching(ip) = {} /\ Recycles(i)

\* The entry at that index, initialised if it was not the match, and the packet
\* that was freed with its old contents.
Found(i, ip) ==
  IF i \in Matching(ip) THEN arp_table[i]
  ELSE [Freed(arp_table[i]) EXCEPT !.ipaddr = ip]
Dropped(i, ip) == IF i \in Matching(ip) THEN {} ELSE Queued({i})

-----------------------------------------------------------------------------

\* One entry in etharp_tmr.
Overage(i) ==
  /\ i \in InUse
  /\ LET ctime == arp_table[i].ctime + 1
     IN \/ ctime >= ARP_MAXAGE
        \/ arp_table[i].state = "PENDING" /\ ctime >= ARP_MAXPENDING

\* Mutant: pending entries get older only while nothing waits on them.
Aged_WaitsForAnswer(i) ==
  IF i \in InUse /\ arp_table[i].q # NULL THEN arp_table[i]
  ELSE CASE i \notin InUse -> arp_table[i]
         [] Overage(i)     -> Freed(arp_table[i])
         [] OTHER          -> [arp_table[i] EXCEPT !.ctime = @ + 1,
                                 !.state = IF @ = "STABLE_REREQUESTING" THEN "STABLE" ELSE @]

Aged(i) ==
  CASE i \notin InUse -> arp_table[i]
    [] Overage(i)     -> Freed(arp_table[i])
    [] OTHER          -> [arp_table[i] EXCEPT !.ctime = @ + 1,
                            !.state = IF @ = "STABLE_REREQUESTING" THEN "STABLE" ELSE @]

etharp_tmr ==
  /\ arp_table' = [i \in Slots |-> Aged(i)]
  /\ heap' = heap \ Queued({i \in Slots : Overage(i)})
  /\ sent' = {}
  /\ UNCHANGED <<etharp_cached_entry, announced>>

\* etharp_arp_input, with etharp_update_arp_entry: an ARP packet from ip, which
\* enters the table only if it was addressed to us or ip is there already.
etharp_arp_input(ip, mac, for_us) ==
  /\ announced' = [announced EXCEPT ![ip] = mac]
  /\ UNCHANGED etharp_cached_entry
  /\ \/ /\ Matching(ip) = {} /\ ~ for_us   \* ETHARP_FLAG_FIND_ONLY: ERR_MEM
        /\ sent' = {}
        /\ UNCHANGED <<arp_table, heap>>
     \/ \E i \in Slots :
          /\ Matching(ip) # {} \/ for_us
          /\ Finds(i, ip)
          /\ arp_table' = [arp_table EXCEPT ![i] =
               [state |-> "STABLE", q |-> NULL, ipaddr |-> ip, ethaddr |-> mac,
                netif |-> TRUE, ctime |-> 0]]
          /\ sent' = {<<NextHop(p), mac>> : p \in {Found(i, ip).q} \ {NULL}}
          /\ heap' = heap \ Queued({i})

\* etharp_output_to_arp_index: send by entry i, renewing it in its last minute.
SendBy(i, ip) ==
  /\ sent' = {<<ip, arp_table[i].ethaddr>>}
  /\ \E requested \in BOOLEAN :   \* did etharp_request return ERR_OK?
       arp_table' = [arp_table EXCEPT ![i].state =
         IF @ = "STABLE" /\ arp_table[i].ctime >= ARP_AGE_REREQUEST_USED /\ requested
         THEN "STABLE_REREQUESTING" ELSE @]
  /\ UNCHANGED <<heap, announced>>

\* etharp_query finds its entry resolved; the request for want of a packet
\* changes nothing here.
QuerySettled(ip, packet) ==
  \E i \in Matching(ip) \intersect Settled :
    /\ etharp_cached_entry' = IF packet THEN i ELSE etharp_cached_entry
    /\ sent' = IF packet THEN {<<ip, arp_table[i].ethaddr>>} ELSE {}
    /\ UNCHANGED <<arp_table, heap, announced>>

\* etharp_query finds its entry pending, or makes one: the copy of the packet
\* takes the place of the one that waits, unless there is no memory for it.
QueryPending(ip, packet) ==
  /\ Matching(ip) \intersect Settled = {}
  /\ \E i \in Slots :
       /\ Finds(i, ip)
       /\ \/ /\ arp_table' = [arp_table EXCEPT ![i] = [Found(i, ip) EXCEPT !.state = "PENDING"]]
             /\ heap' = heap \ Dropped(i, ip)
          \/ /\ packet
             /\ \E p \in ({ip} \X Copies) \ heap :
                  /\ arp_table' = [arp_table EXCEPT ![i] =
                       [Found(i, ip) EXCEPT !.state = "PENDING", !.q = p]]
                  /\ heap' = (heap \ Queued({i})) \union {p}
  /\ sent' = {}
  /\ UNCHANGED <<etharp_cached_entry, announced>>

etharp_query(ip, packet) == QuerySettled(ip, packet) \/ QueryPending(ip, packet)

\* Mutant: the hint is trusted without a look at the address.
CachedHit_Trusting(ip) == etharp_cached_entry \in Settled

CachedHit(ip) == etharp_cached_entry \in Settled \intersect Matching(ip)

etharp_output(ip) ==
  \/ CachedHit(ip) /\ SendBy(etharp_cached_entry, ip) /\ UNCHANGED etharp_cached_entry
  \/ /\ ~ CachedHit(ip)
     /\ \E i \in Settled \intersect Matching(ip) : SendBy(i, ip) /\ etharp_cached_entry' = i
  \/ ~ CachedHit(ip) /\ QueryPending(ip, TRUE)

\* etharp_cleanup_netif, called by netif_set_down.
etharp_cleanup_netif ==
  LET of == {i \in InUse : arp_table[i].netif}
  IN /\ arp_table' = [i \in Slots |-> IF i \in of THEN Freed(arp_table[i]) ELSE arp_table[i]]
     /\ heap' = heap \ Queued(of)
     /\ sent' = {}
     /\ UNCHANGED <<etharp_cached_entry, announced>>

Next ==
  \/ etharp_tmr
  \/ etharp_cleanup_netif
  \/ \E ip \in IPs, mac \in MACs, for_us \in BOOLEAN : etharp_arp_input(ip, mac, for_us)
  \/ \E ip \in IPs : etharp_output(ip)
  \/ \E ip \in IPs, packet \in BOOLEAN : etharp_query(ip, packet)

\* sys_check_timeouts runs arp_timer again and again.
Spec == Init /\ [][Next]_vars /\ WF_vars(etharp_tmr)

-----------------------------------------------------------------------------

TypeOK ==
  /\ arp_table \in [Slots -> Entry]
  /\ etharp_cached_entry \in Slots
  /\ heap \subseteq Packets
  /\ announced \in [IPs -> MACs \union {NULL}]
  /\ sent \subseteq IPs \X MACs

\* An address is in the table once.
OneEntryEach ==
  \A i, j \in InUse : arp_table[i].ipaddr = arp_table[j].ipaddr => i = j

InUseIsNamed == \A i \in InUse : arp_table[i].ipaddr \in IPs

\* A packet waits only on the pending entry of its own next hop, is held while
\* it waits and by nobody else: none is leaked, none freed twice.
QueueIsHeld ==
  /\ \A i \in Slots : arp_table[i].q # NULL =>
       /\ arp_table[i].state = "PENDING"
       /\ arp_table[i].q \in heap
       /\ NextHop(arp_table[i].q) = arp_table[i].ipaddr
  /\ \A p \in heap : \E i \in Slots : arp_table[i].q = p

\* A resolved entry has the address its host announced last.
Resolved ==
  \A i \in Settled : arp_table[i].ethaddr \in MACs /\ arp_table[i].ethaddr = announced[arp_table[i].ipaddr]

\* What every call of etharp.c leaves behind: one entry per address, no packet
\* without an entry and no entry with a foreign or a freed packet, the latest
\* addresses, and ages within the limits of etharp_tmr.
ArpInv ==
  /\ TypeOK /\ OneEntryEach /\ InUseIsNamed /\ QueueIsHeld /\ Resolved
  /\ \A i \in InUse : /\ arp_table[i].ctime < ARP_MAXAGE
                      /\ arp_table[i].state = "PENDING" => arp_table[i].ctime < ARP_MAXPENDING

\* An IP frame goes to the MAC address its next hop announced last: through the
\* hint, through the table, or when an answer releases a queued packet.
SentToOwner == \A f \in sent : f[2] = announced[f[1]]

\* etharp_find_entry recycles "the least destructive entry": nothing while an
\* entry is empty, no pending entry while there is a resolved one, no queued
\* packet while any entry has none, and of its kind the oldest.
LeastDestructive ==
  [][\A i \in InUse : arp_table'[i].ipaddr \in IPs \ {arp_table[i].ipaddr} =>
       /\ InUse = Slots
       /\ i \notin Settled => Settled = {}
       /\ arp_table[i].q # NULL => Unqueued = {}
       /\ \A j \in Slots :
            /\ j \in Settled <=> i \in Settled
            /\ j \in Unqueued <=> i \in Unqueued
            => arp_table[j].ctime <= arp_table[i].ctime]_vars

\* No packet waits for ever: it is sent, replaced or given up, whatever other
\* packets and requests for the same host come in between.
QueuedLeaves == \A p \in Packets : p \in heap ~> p \notin heap

\* The comment of etharp_cleanup_netif: "Remove all ARP table entries of the
\* specified netif", the only one there is.
CleanupIsComplete ==
  [][etharp_cleanup_netif => \A i \in Slots : arp_table'[i].state = "EMPTY"]_vars

===============================================================================
