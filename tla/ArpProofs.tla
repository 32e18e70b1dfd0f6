------------------------------ MODULE ArpProofs ------------------------------
(***************************************************************************)
(* ArpInv is inductive: what makes it so is that an address is in the      *)
(* table once (OneEntryEach), so that the packet of one entry is never the *)
(* packet of another.  SentToOwner and LeastDestructive follow from it.    *)
(***************************************************************************)
EXTENDS ArpCache, TLAPS

\* The ages of the entries in use, the last conjunct of ArpInv.
AgesInv ==
  \A i \in InUse : /\ arp_table[i].ctime < ARP_MAXAGE
                   /\ arp_table[i].state = "PENDING" => arp_table[i].ctime < ARP_MAXPENDING

\* What a copy made for ip is.
LEMMA CopyIsFor ==
  ASSUME NEW ip \in IPs, NEW p \in {ip} \X Copies
  PROVE  p \in Packets /\ NextHop(p) = ip /\ p # NULL
  BY ArpAssumption DEF Packets, NextHop

LEMMA PacketHasHop ==
  ASSUME NEW p \in Packets
  PROVE  NextHop(p) \in IPs /\ p # NULL
  BY ArpAssumption DEF Packets, NextHop

LEMMA FreedEntry ==
  ASSUME NEW e \in Entry
  PROVE  Freed(e) \in Entry /\ Freed(e).state = "EMPTY" /\ Freed(e).q = NULL
  <1>2. e.netif \in BOOLEAN /\ 0 \in 0 .. ARP_MAXAGE
    BY ArpAssumption DEF Entry
  <1> QED
    BY <1>2 DEF Freed, Entry

LEMMA AgedEntry ==
  ASSUME NEW e \in Entry, e.ctime + 1 < ARP_MAXAGE,
         NEW f, f = [e EXCEPT !.ctime = @ + 1,
                              !.state = IF @ = "STABLE_REREQUESTING" THEN "STABLE" ELSE @]
  PROVE  f \in Entry
  <1> DEFINE s == IF e.state = "STABLE_REREQUESTING" THEN "STABLE" ELSE e.state
  <1>1. f = [state |-> s, q |-> e.q, ipaddr |-> e.ipaddr, ethaddr |-> e.ethaddr,
             netif |-> e.netif, ctime |-> e.ctime + 1]
    BY DEF Entry
  <1>2. s \in {"EMPTY", "PENDING"} \union Stable
    BY DEF Entry, Stable
  <1>3. e.ctime + 1 \in 0 .. ARP_MAXAGE
    BY ArpAssumption DEF Entry
  <1>4. e.q \in Packets \union {NULL} /\ e.ipaddr \in IPs \union {NULL}
        /\ e.ethaddr \in MACs \union {NULL} /\ e.netif \in BOOLEAN
    BY DEF Entry
  <1> HIDE DEF s
  <1> QED
    BY <1>1, <1>2, <1>3, <1>4 DEF Entry

\* The entry etharp_find_entry gives is the only one for its address.
LEMMA FoundIsOnly ==
  ASSUME TypeOK, OneEntryEach, NEW ip \in IPs, NEW i \in Slots, Finds(i, ip),
         NEW j \in InUse, arp_table[j].ipaddr = ip
  PROVE  j = i
  BY DEF Finds, IsFirst, Matching, OneEntryEach

\* What etharp_find_entry leaves at the index it returns.
LEMMA FoundEntry ==
  ASSUME TypeOK, InUseIsNamed, AgesInv, NEW ip \in IPs, NEW i \in Slots, Finds(i, ip)
  PROVE  /\ Found(i, ip) \in Entry
         /\ Found(i, ip).ipaddr = ip
         /\ Found(i, ip).ctime < ARP_MAXAGE
         /\ i \in Matching(ip) => Found(i, ip) = arp_table[i]
         /\ i \notin Matching(ip) => Found(i, ip).q = NULL /\ Found(i, ip).ctime = 0
  <1>1. arp_table[i] \in Entry
    BY DEF TypeOK
  <1>2. CASE i \in Matching(ip)
    BY <1>1, <1>2 DEF Found, Matching, AgesInv, InUse
  <1>3. CASE i \notin Matching(ip)
    <2>1. Found(i, ip) = [state |-> "EMPTY", q |-> NULL, ipaddr |-> ip, ethaddr |-> NULL,
                          netif |-> arp_table[i].netif, ctime |-> 0]
      BY <1>1, <1>3 DEF Found, Freed, Entry
    <2>2. arp_table[i].netif \in BOOLEAN /\ ARP_MAXAGE \in Nat \ {0} /\ 0 \in 0 .. ARP_MAXAGE
      BY <1>1, ArpAssumption DEF Entry
    <2> QED
      BY <1>3, <2>1, <2>2 DEF Entry
  <1> QED
    BY <1>2, <1>3

\* Two packets of the table are never the same one.
LEMMA QueuesDiffer ==
  ASSUME TypeOK, OneEntryEach, QueueIsHeld, NEW i \in Slots, NEW j \in Slots,
         arp_table[i].q = arp_table[j].q, arp_table[i].q # NULL
  PROVE  i = j
  <1>1. arp_table[i].state = "PENDING" /\ arp_table[j].state = "PENDING"
    BY DEF QueueIsHeld
  <1>2. i \in InUse /\ j \in InUse
    BY <1>1 DEF InUse
  <1>3. arp_table[i].ipaddr = arp_table[j].ipaddr
    BY DEF QueueIsHeld
  <1> QED
    BY <1>2, <1>3 DEF OneEntryEach

-----------------------------------------------------------------------------

\* Writing an entry at the index etharp_find_entry gave keeps the table in
\* order, whatever the entry says of the queue.
LEMMA WriteKeepsTable ==
  ASSUME ArpInv, NEW ip \in IPs, NEW i \in Slots, Finds(i, ip),
         NEW e \in Entry, e.ipaddr = ip, e.state # "EMPTY", e.ctime < ARP_MAXAGE,
         e.state = "PENDING" => e.ctime < ARP_MAXPENDING,
         arp_table' = [arp_table EXCEPT ![i] = e]
  PROVE  /\ arp_table' \in [Slots -> Entry]
         /\ OneEntryEach' /\ InUseIsNamed' /\ AgesInv'
         /\ InUse' = InUse \union {i}
         /\ \A j \in Slots : arp_table'[j] = IF j = i THEN e ELSE arp_table[j]
  <1>0. TypeOK /\ OneEntryEach /\ InUseIsNamed /\ AgesInv
    BY DEF ArpInv, AgesInv
  <1>1. arp_table' \in [Slots -> Entry]
    BY <1>0 DEF TypeOK
  <1>2. \A j \in Slots : arp_table'[j] = IF j = i THEN e ELSE arp_table[j]
    BY <1>0 DEF TypeOK
  <1>3. InUse' = InUse \union {i}
    BY <1>2 DEF InUse
  <1>4. OneEntryEach'
    <2>1. \A j \in InUse : arp_table[j].ipaddr = ip => j = i
      BY <1>0, FoundIsOnly
    <2> SUFFICES ASSUME NEW j \in InUse', NEW k \in InUse',
                        arp_table'[j].ipaddr = arp_table'[k].ipaddr
                 PROVE  j = k
      BY DEF OneEntryEach
    <2> QED
      BY <1>0, <1>2, <1>3, <2>1 DEF OneEntryEach, InUse
  <1>5. InUseIsNamed'
    BY <1>0, <1>2, <1>3 DEF InUseIsNamed, InUse
  <1>6. AgesInv'
    BY <1>0, <1>2, <1>3 DEF AgesInv, InUse
  <1> QED
    BY <1>1, <1>2, <1>3, <1>4, <1>5, <1>6

\* Freeing a set of entries and their packets keeps everything in order; the
\* others may age.
LEMMA FreeKeepsInv ==
  ASSUME ArpInv, NEW gone \in SUBSET InUse,
         arp_table' \in [Slots -> Entry],
         \A j \in gone : arp_table'[j] = Freed(arp_table[j]),
         \A j \in InUse \ gone :
            /\ arp_table'[j].ipaddr = arp_table[j].ipaddr
            /\ arp_table'[j].ethaddr = arp_table[j].ethaddr
            /\ arp_table'[j].q = arp_table[j].q
            /\ arp_table'[j].state = arp_table[j].state \/ {arp_table[j].state, arp_table'[j].state} \subseteq Stable
            /\ arp_table'[j].ctime < ARP_MAXAGE
            /\ arp_table'[j].state = "PENDING" => arp_table'[j].ctime < ARP_MAXPENDING,
         \A j \in Slots \ InUse : arp_table'[j] = arp_table[j],
         heap' = heap \ Queued(gone), sent' = {},
         UNCHANGED <<etharp_cached_entry, announced>>
  PROVE  ArpInv'
  <1>0. TypeOK /\ OneEntryEach /\ InUseIsNamed /\ AgesInv /\ QueueIsHeld /\ Resolved
    BY DEF ArpInv, AgesInv
  <1>1. \A j \in gone : arp_table'[j].state = "EMPTY" /\ arp_table'[j].q = NULL
    <2> SUFFICES ASSUME NEW j \in gone
                 PROVE  arp_table'[j].state = "EMPTY" /\ arp_table'[j].q = NULL
      OBVIOUS
    <2>1. arp_table[j] \in Entry
      BY <1>0 DEF TypeOK, InUse
    <2>2. Freed(arp_table[j]).state = "EMPTY" /\ Freed(arp_table[j]).q = NULL
      BY <2>1, FreedEntry
    <2> QED
      BY <2>2
  <1>2. InUse' = InUse \ gone
    BY <1>1 DEF InUse, Stable
  <1>3. TypeOK'
    BY <1>0 DEF TypeOK
  <1>4. OneEntryEach' /\ InUseIsNamed'
    BY <1>0, <1>2 DEF OneEntryEach, InUseIsNamed
  <1>5. Resolved'
    <2>1. \A j \in Settled' : j \in Settled /\ j \in InUse \ gone
      BY <1>2 DEF Settled, InUse
    <2> QED
      BY <1>0, <2>1 DEF Resolved
  <1>6. QueueIsHeld'
    <2>1. ASSUME NEW j \in Slots, arp_table'[j].q # NULL
          PROVE  /\ j \in InUse \ gone
                 /\ arp_table'[j].state = "PENDING"
                 /\ arp_table'[j].q \in heap'
                 /\ NextHop(arp_table'[j].q) = arp_table'[j].ipaddr
      <3>1. j \in InUse \ gone
        BY <1>0, <1>1, <2>1 DEF QueueIsHeld, InUse
      <3>2. arp_table'[j].q = arp_table[j].q /\ arp_table[j].q # NULL
        BY <2>1, <3>1
      <3>3. arp_table[j].state = "PENDING" /\ arp_table[j].q \in heap
        BY <1>0, <3>2 DEF QueueIsHeld
      <3>4. arp_table'[j].state = "PENDING"
        BY <3>1, <3>3 DEF Stable
      <3>5. arp_table[j].q \notin Queued(gone)
        BY <1>0, <3>1, <3>2, QueuesDiffer DEF Queued, InUse
      <3> QED
        BY <1>0, <3>1, <3>2, <3>3, <3>4, <3>5 DEF QueueIsHeld
    <2>2. ASSUME NEW p \in heap'
          PROVE  \E j \in Slots : arp_table'[j].q = p
      <3>1. p \in heap /\ p \notin Queued(gone) /\ p # NULL
        BY <1>0, PacketHasHop DEF TypeOK
      <3>2. PICK j \in Slots : arp_table[j].q = p
        BY <1>0, <3>1 DEF QueueIsHeld
      <3>3. j \notin gone
        BY <3>1, <3>2 DEF Queued
      <3> QED
        BY <3>2, <3>3
    <2> QED
      BY <2>1, <2>2 DEF QueueIsHeld
  <1>7. AgesInv'
    BY <1>2 DEF AgesInv, InUse
  <1> QED
    BY <1>3, <1>4, <1>5, <1>6, <1>7 DEF ArpInv, AgesInv
-----------------------------------------------------------------------------

\* A timer tick.
LEMMA TickKeepsInv ==
  ASSUME ArpInv, etharp_tmr
  PROVE  ArpInv' /\ SentToOwner'
  <1> DEFINE gone == {i \in Slots : Overage(i)}
  <1>0. TypeOK /\ AgesInv /\ ARP_MAXAGE \in 1 .. 255
    BY ArpAssumption DEF ArpInv, AgesInv
  <1>1. gone \in SUBSET InUse
    BY DEF Overage
  <1>2. \A j \in Slots : arp_table'[j] = Aged(j) /\ arp_table[j] \in Entry
    BY <1>0 DEF etharp_tmr, TypeOK
  <1>3. \A j \in gone : arp_table'[j] = Freed(arp_table[j]) /\ Freed(arp_table[j]) \in Entry
    <2> SUFFICES ASSUME NEW j \in gone
                 PROVE  arp_table'[j] = Freed(arp_table[j]) /\ Freed(arp_table[j]) \in Entry
      OBVIOUS
    <2>0. j \in Slots /\ j \in InUse /\ Overage(j)
      BY DEF Overage
    <2>1. arp_table'[j] = Freed(arp_table[j])
      BY <1>2, <2>0 DEF Aged
    <2>2. arp_table[j] \in Entry
      BY <1>2, <2>0
    <2> QED
      BY <2>1, <2>2, FreedEntry
  <1>4. ASSUME NEW j \in InUse \ gone
        PROVE  /\ arp_table'[j] \in Entry
               /\ arp_table'[j].ipaddr = arp_table[j].ipaddr
               /\ arp_table'[j].ethaddr = arp_table[j].ethaddr
               /\ arp_table'[j].q = arp_table[j].q
               /\ arp_table'[j].state = arp_table[j].state \/ {arp_table[j].state, arp_table'[j].state} \subseteq Stable
               /\ arp_table'[j].ctime < ARP_MAXAGE
               /\ arp_table'[j].state = "PENDING" => arp_table'[j].ctime < ARP_MAXPENDING
    <2>0. j \in Slots /\ j \in InUse /\ ~ Overage(j)
      BY <1>4 DEF InUse
    <2>1. arp_table'[j] = [arp_table[j] EXCEPT !.ctime = @ + 1,
                             !.state = IF @ = "STABLE_REREQUESTING" THEN "STABLE" ELSE @]
      BY <1>2, <2>0 DEF Aged
    <2>2. arp_table[j] \in Entry
      BY <1>2, <2>0
    <2>3. /\ arp_table[j].ctime \in 0 .. ARP_MAXAGE
          /\ arp_table[j].ctime + 1 < ARP_MAXAGE
          /\ arp_table[j].state = "PENDING" => arp_table[j].ctime + 1 < ARP_MAXPENDING
      BY <1>0, <2>0, <2>2, ArpAssumption DEF Overage, Entry
    <2>4. /\ arp_table'[j].ctime = arp_table[j].ctime + 1
          /\ arp_table'[j].state = IF arp_table[j].state = "STABLE_REREQUESTING" THEN "STABLE" ELSE arp_table[j].state
          /\ arp_table'[j].ipaddr = arp_table[j].ipaddr
          /\ arp_table'[j].ethaddr = arp_table[j].ethaddr
          /\ arp_table'[j].q = arp_table[j].q
      BY <2>1, <2>2 DEF Entry
    <2>5. arp_table'[j] \in Entry
      BY <2>1, <2>2, <2>3, AgedEntry
    <2> QED
      BY <2>3, <2>4, <2>5 DEF Stable
  <1>5. \A j \in Slots \ InUse : arp_table'[j] = arp_table[j] /\ arp_table'[j] \in Entry
    BY <1>2 DEF Aged, Overage
  <1>6. arp_table' \in [Slots -> Entry]
    <2>1. \A j \in Slots : arp_table'[j] \in Entry
      BY <1>3, <1>4, <1>5
    <2> QED
      BY <2>1 DEF etharp_tmr
  <1>7. heap' = heap \ Queued(gone) /\ sent' = {} /\ UNCHANGED <<etharp_cached_entry, announced>>
    BY DEF etharp_tmr
  <1> HIDE DEF gone
  <1>8. ArpInv'
    BY <1>1, <1>3, <1>4, <1>5, <1>6, <1>7, FreeKeepsInv
  <1> QED
    BY <1>7, <1>8 DEF SentToOwner

\* netif_set_down.
LEMMA CleanupKeepsInv ==
  ASSUME ArpInv, etharp_cleanup_netif
  PROVE  ArpInv' /\ SentToOwner'
  <1> DEFINE gone == {i \in InUse : arp_table[i].netif}
  <1>0. TypeOK /\ AgesInv
    BY DEF ArpInv, AgesInv
  <1>1. gone \in SUBSET InUse
    OBVIOUS
  <1>2. \A j \in Slots : /\ arp_table'[j] = IF j \in gone THEN Freed(arp_table[j]) ELSE arp_table[j]
                         /\ arp_table[j] \in Entry
    BY <1>0 DEF etharp_cleanup_netif, TypeOK
  <1>3. \A j \in gone : arp_table'[j] = Freed(arp_table[j]) /\ Freed(arp_table[j]) \in Entry
    <2> SUFFICES ASSUME NEW j \in gone
                 PROVE  arp_table'[j] = Freed(arp_table[j]) /\ Freed(arp_table[j]) \in Entry
      OBVIOUS
    <2>0. j \in Slots /\ j \in gone
      BY DEF InUse
    <2> HIDE DEF gone
    <2>1. arp_table[j] \in Entry /\ arp_table'[j] = Freed(arp_table[j])
      BY <1>2, <2>0
    <2> QED
      BY <2>1, FreedEntry
  <1>4. \A j \in Slots \ gone : arp_table'[j] = arp_table[j]
    BY <1>2
  <1>5. arp_table' \in [Slots -> Entry]
    <2>1. \A j \in Slots : arp_table'[j] \in Entry
      BY <1>2, <1>3, <1>4
    <2> QED
      BY <2>1 DEF etharp_cleanup_netif
  <1>6. heap' = heap \ Queued(gone) /\ sent' = {} /\ UNCHANGED <<etharp_cached_entry, announced>>
    BY DEF etharp_cleanup_netif
  <1> HIDE DEF gone
  <1>7. \A j \in InUse \ gone :
            /\ arp_table'[j].ipaddr = arp_table[j].ipaddr
            /\ arp_table'[j].ethaddr = arp_table[j].ethaddr
            /\ arp_table'[j].q = arp_table[j].q
            /\ arp_table'[j].state = arp_table[j].state \/ {arp_table[j].state, arp_table'[j].state} \subseteq Stable
            /\ arp_table'[j].ctime < ARP_MAXAGE
            /\ arp_table'[j].state = "PENDING" => arp_table'[j].ctime < ARP_MAXPENDING
    BY <1>0, <1>4 DEF AgesInv, InUse
  <1>8. \A j \in Slots \ InUse : arp_table'[j] = arp_table[j]
    BY <1>1, <1>4
  <1>9. ArpInv'
    BY <1>1, <1>3, <1>5, <1>6, <1>7, <1>8, FreeKeepsInv
  <1> QED
    BY <1>6, <1>9 DEF SentToOwner

-----------------------------------------------------------------------------

\* An ARP packet: the entry of its sender is resolved, and its packet leaves.
LEMMA InputKeepsInv ==
  ASSUME ArpInv, NEW ip \in IPs, NEW mac \in MACs, NEW for_us \in BOOLEAN,
         etharp_arp_input(ip, mac, for_us)
  PROVE  ArpInv' /\ SentToOwner'
  <1>0. TypeOK /\ OneEntryEach /\ InUseIsNamed /\ AgesInv /\ QueueIsHeld /\ Resolved
    BY DEF ArpInv, AgesInv
  <1>1. /\ announced' \in [IPs -> MACs \union {NULL}]
        /\ announced'[ip] = mac
        /\ \A x \in IPs \ {ip} : announced'[x] = announced[x]
        /\ etharp_cached_entry' \in Slots
    BY <1>0 DEF etharp_arp_input, TypeOK
  <1>2. CASE Matching(ip) = {} /\ sent' = {} /\ UNCHANGED <<arp_table, heap>>
    <2>1. TypeOK'
      BY <1>0, <1>1, <1>2 DEF TypeOK
    <2>2. Resolved'
      BY <1>0, <1>1, <1>2 DEF Resolved, Settled, InUse, Matching, InUseIsNamed
    <2>3. OneEntryEach' /\ InUseIsNamed' /\ AgesInv' /\ QueueIsHeld'
      BY <1>0, <1>2 DEF OneEntryEach, InUseIsNamed, AgesInv, QueueIsHeld, InUse
    <2> QED
      BY <1>2, <2>1, <2>2, <2>3 DEF ArpInv, AgesInv, SentToOwner
  <1>3. ASSUME NEW i \in Slots, Finds(i, ip),
               arp_table' = [arp_table EXCEPT ![i] =
                 [state |-> "STABLE", q |-> NULL, ipaddr |-> ip, ethaddr |-> mac,
                  netif |-> TRUE, ctime |-> 0]],
               sent' = {<<NextHop(p), mac>> : p \in {Found(i, ip).q} \ {NULL}},
               heap' = heap \ Queued({i})
        PROVE  ArpInv' /\ SentToOwner'
    <2> DEFINE e == [state |-> "STABLE", q |-> NULL, ipaddr |-> ip, ethaddr |-> mac,
                     netif |-> TRUE, ctime |-> 0]
    <2>1. /\ Found(i, ip) \in Entry /\ Found(i, ip).ipaddr = ip
          /\ Found(i, ip).q # NULL => Found(i, ip) = arp_table[i] /\ i \in Matching(ip)
      BY <1>0, <1>3, FoundEntry
    <2>2. e.state = "STABLE" /\ e.q = NULL /\ e.ipaddr = ip /\ e.ethaddr = mac /\ e.ctime = 0
      OBVIOUS
    <2>3. e \in Entry /\ 0 < ARP_MAXAGE
      BY ArpAssumption DEF Entry, Stable
    <2>4. arp_table' = [arp_table EXCEPT ![i] = e]
      BY <1>3
    <2> HIDE DEF e
    <2>5. /\ arp_table' \in [Slots -> Entry]
          /\ OneEntryEach' /\ InUseIsNamed' /\ AgesInv'
          /\ InUse' = InUse \union {i}
          /\ \A j \in Slots : arp_table'[j] = IF j = i THEN e ELSE arp_table[j]
      <3>1. e.ipaddr = ip
        BY <2>2
      <3>2. e.state # "EMPTY"
        BY <2>2
      <3>3. e.ctime < ARP_MAXAGE
        BY <2>2, <2>3
      <3>4. e.state = "PENDING" => e.ctime < ARP_MAXPENDING
        BY <2>2
      <3>5. Finds(i, ip) /\ e \in Entry
        BY <1>3, <2>3
      <3> QED
        BY <2>4, <3>1, <3>2, <3>3, <3>4, <3>5, WriteKeepsTable
    <2>6. sent' \subseteq {<<ip, mac>>}
      <3>1. Found(i, ip).q # NULL => NextHop(Found(i, ip).q) = ip
        BY <1>0, <2>1 DEF QueueIsHeld
      <3> QED
        BY <1>3, <3>1
    <2>7. TypeOK'
      BY <1>0, <1>1, <1>3, <2>5, <2>6 DEF TypeOK
    <2>8. Resolved'
      <3> SUFFICES ASSUME NEW j \in Settled'
                   PROVE  /\ arp_table'[j].ethaddr \in MACs
                          /\ arp_table'[j].ethaddr = announced'[arp_table'[j].ipaddr]
        BY DEF Resolved
      <3>1. CASE j = i
        BY <1>1, <2>2, <2>5, <3>1
      <3>2. CASE j # i
        <4>1. j \in Slots /\ arp_table'[j] = arp_table[j] /\ j \in Settled /\ j \in InUse
          BY <2>5, <3>2 DEF Settled, InUse
        <4>2. arp_table[j].ipaddr \in IPs \ {ip}
          BY <1>0, <1>3, <3>2, <4>1, FoundIsOnly DEF InUseIsNamed
        <4> QED
          BY <1>0, <1>1, <4>1, <4>2 DEF Resolved
      <3> QED
        BY <3>1, <3>2
    <2>9. QueueIsHeld'
      <3>1. ASSUME NEW j \in Slots, arp_table'[j].q # NULL
            PROVE  /\ arp_table'[j].state = "PENDING"
                   /\ arp_table'[j].q \in heap'
                   /\ NextHop(arp_table'[j].q) = arp_table'[j].ipaddr
        <4>1. j # i /\ arp_table'[j] = arp_table[j]
          BY <2>2, <2>5, <3>1
        <4>2. arp_table[j].q \notin Queued({i})
          BY <1>0, <3>1, <4>1, QueuesDiffer DEF Queued
        <4> QED
          BY <1>0, <1>3, <3>1, <4>1, <4>2 DEF QueueIsHeld
      <3>2. ASSUME NEW p \in heap'
            PROVE  \E j \in Slots : arp_table'[j].q = p
        <4>1. p \in heap /\ p \notin Queued({i}) /\ p # NULL
          BY <1>0, <1>3, PacketHasHop DEF TypeOK
        <4>2. PICK j \in Slots : arp_table[j].q = p
          BY <1>0, <4>1 DEF QueueIsHeld
        <4>3. j # i
          BY <4>1, <4>2 DEF Queued
        <4> QED
          BY <2>5, <4>2, <4>3
      <3> QED
        BY <3>1, <3>2 DEF QueueIsHeld
    <2>10. SentToOwner'
      BY <1>1, <2>6 DEF SentToOwner
    <2> QED
      BY <2>5, <2>7, <2>8, <2>9, <2>10 DEF ArpInv, AgesInv
  <1> QED
    BY <1>2, <1>3 DEF etharp_arp_input

-----------------------------------------------------------------------------

\* Making or keeping a pending entry, with the packet that waits on it.
LEMMA PendingKeepsInv ==
  ASSUME ArpInv, NEW ip \in IPs, NEW i \in Slots, Finds(i, ip), NEW e \in Entry,
         e.ipaddr = ip, e.state = "PENDING", e.ctime < ARP_MAXAGE, e.ctime < ARP_MAXPENDING,
         arp_table' = [arp_table EXCEPT ![i] = e],
         heap' \subseteq Packets, heap' \ {e.q} = heap \ Queued({i}),
         e.q # NULL => e.q \in heap' /\ NextHop(e.q) = ip,
         sent' = {}, announced' = announced, etharp_cached_entry' = etharp_cached_entry
  PROVE  ArpInv' /\ SentToOwner'
  <1>0. TypeOK /\ OneEntryEach /\ InUseIsNamed /\ AgesInv /\ QueueIsHeld /\ Resolved
    BY DEF ArpInv, AgesInv
  <1>1. e.state # "EMPTY"
    OBVIOUS
  <1>2. e.state = "PENDING" => e.ctime < ARP_MAXPENDING
    OBVIOUS
  <1>3. /\ arp_table' \in [Slots -> Entry]
        /\ OneEntryEach' /\ InUseIsNamed' /\ AgesInv'
        /\ InUse' = InUse \union {i}
        /\ \A j \in Slots : arp_table'[j] = IF j = i THEN e ELSE arp_table[j]
    BY <1>1, <1>2, WriteKeepsTable
  <1>4. TypeOK'
    BY <1>0, <1>3 DEF TypeOK
  <1>5. Resolved'
    <2> SUFFICES ASSUME NEW j \in Settled'
                 PROVE  /\ arp_table'[j].ethaddr \in MACs
                        /\ arp_table'[j].ethaddr = announced'[arp_table'[j].ipaddr]
      BY DEF Resolved
    <2>1. j \in Slots /\ j # i
      BY <1>3 DEF Settled, InUse, Stable
    <2>2. arp_table'[j] = arp_table[j] /\ j \in Settled
      BY <1>3, <2>1 DEF Settled, InUse
    <2> QED
      BY <1>0, <2>2 DEF Resolved
  <1>6. QueueIsHeld'
    <2>1. ASSUME NEW j \in Slots, arp_table'[j].q # NULL
          PROVE  /\ arp_table'[j].state = "PENDING"
                 /\ arp_table'[j].q \in heap'
                 /\ NextHop(arp_table'[j].q) = arp_table'[j].ipaddr
      <3>1. CASE j = i
        BY <1>3, <2>1, <3>1
      <3>2. CASE j # i
        <4>1. arp_table'[j] = arp_table[j]
          BY <1>3, <3>2
        <4>2. arp_table[j].q \notin Queued({i})
          BY <1>0, <2>1, <3>2, <4>1, QueuesDiffer DEF Queued
        <4>3. arp_table[j].q \in heap
          BY <1>0, <2>1, <4>1 DEF QueueIsHeld
        <4> QED
          BY <1>0, <2>1, <4>1, <4>2, <4>3 DEF QueueIsHeld
      <3> QED
        BY <3>1, <3>2
    <2>2. ASSUME NEW p \in heap'
          PROVE  \E j \in Slots : arp_table'[j].q = p
      <3>1. CASE p = e.q
        BY <1>3, <3>1
      <3>2. CASE p # e.q
        <4>1. p \in heap /\ p \notin Queued({i}) /\ p # NULL
          BY <1>0, <3>2, PacketHasHop DEF TypeOK
        <4>2. PICK j \in Slots : arp_table[j].q = p
          BY <1>0, <4>1 DEF QueueIsHeld
        <4>3. j # i
          BY <4>1, <4>2 DEF Queued
        <4> QED
          BY <1>3, <4>2, <4>3
      <3> QED
        BY <3>1, <3>2
    <2> QED
      BY <2>1, <2>2 DEF QueueIsHeld
  <1>7. SentToOwner'
    BY DEF SentToOwner
  <1> QED
    BY <1>3, <1>4, <1>5, <1>6, <1>7 DEF ArpInv, AgesInv

\* A packet or a request for an address that is not resolved.
LEMMA QueryPendingKeepsInv ==
  ASSUME ArpInv, NEW ip \in IPs, NEW packet \in BOOLEAN, QueryPending(ip, packet)
  PROVE  ArpInv' /\ SentToOwner'
  <1>0. TypeOK /\ OneEntryEach /\ InUseIsNamed /\ AgesInv /\ QueueIsHeld /\ Resolved
    BY DEF ArpInv, AgesInv
  <1>1. PICK i \in Slots :
          /\ Finds(i, ip)
          /\ \/ /\ arp_table' = [arp_table EXCEPT ![i] = [Found(i, ip) EXCEPT !.state = "PENDING"]]
                /\ heap' = heap \ Dropped(i, ip)
             \/ /\ packet
                /\ \E p \in ({ip} \X Copies) \ heap :
                     /\ arp_table' = [arp_table EXCEPT ![i] =
                          [Found(i, ip) EXCEPT !.state = "PENDING", !.q = p]]
                     /\ heap' = (heap \ Queued({i})) \union {p}
    BY DEF QueryPending
  <1>2. sent' = {} /\ announced' = announced /\ etharp_cached_entry' = etharp_cached_entry
    BY DEF QueryPending
  <1>3. Finds(i, ip)
    BY <1>1
  <1>4. /\ Found(i, ip) \in Entry
        /\ Found(i, ip).ipaddr = ip
        /\ Found(i, ip).ctime < ARP_MAXAGE
        /\ i \in Matching(ip) => Found(i, ip) = arp_table[i]
        /\ i \notin Matching(ip) => Found(i, ip).q = NULL /\ Found(i, ip).ctime = 0
    BY <1>0, <1>3, FoundEntry
  <1>5. Found(i, ip).ctime < ARP_MAXPENDING
    <2>1. CASE i \in Matching(ip)
      <3>1. i \notin Settled /\ i \in InUse
        BY <2>1 DEF QueryPending, Matching
      <3>2. arp_table[i] \in Entry
        BY <1>0 DEF TypeOK
      <3>3. arp_table[i].state = "PENDING"
        BY <3>1, <3>2 DEF Settled, InUse, Entry
      <3> QED
        BY <1>0, <1>4, <2>1, <3>1, <3>3 DEF AgesInv
    <2>2. CASE i \notin Matching(ip)
      BY <1>4, <2>2, ArpAssumption
    <2> QED
      BY <2>1, <2>2
  <1>6. ASSUME NEW q \in Packets \union {NULL}, NEW e, e = [Found(i, ip) EXCEPT !.state = "PENDING", !.q = q]
        PROVE  /\ e \in Entry /\ e.ipaddr = ip /\ e.state = "PENDING" /\ e.q = q
               /\ e.ctime < ARP_MAXAGE /\ e.ctime < ARP_MAXPENDING
    BY <1>4, <1>5, <1>6 DEF Entry
  <1>7. \A j \in Slots : arp_table[j] \in Entry /\ arp_table[j].q \in Packets \union {NULL}
    BY <1>0 DEF TypeOK, Entry
  <1>8. CASE /\ arp_table' = [arp_table EXCEPT ![i] = [Found(i, ip) EXCEPT !.state = "PENDING"]]
             /\ heap' = heap \ Dropped(i, ip)
    <2> DEFINE q == Found(i, ip).q
               e == [Found(i, ip) EXCEPT !.state = "PENDING", !.q = q]
    <2>1. q \in Packets \union {NULL}
      BY <1>4 DEF Entry
    <2>2. e = [Found(i, ip) EXCEPT !.state = "PENDING"]
      BY <1>4 DEF Entry
    <2>3. arp_table' = [arp_table EXCEPT ![i] = e]
      BY <1>8, <2>2
    <2>4. q # NULL => i \in Matching(ip) /\ q = arp_table[i].q
      BY <1>4
    <2>5. heap' \subseteq Packets
      BY <1>0, <1>8 DEF TypeOK
    <2>6. heap' \ {q} = heap \ Queued({i})
      <3>1. CASE i \in Matching(ip)
        <4>1. q = arp_table[i].q /\ heap' = heap
          BY <1>4, <1>8, <3>1 DEF Dropped
        <4>2. NULL \notin heap
          BY <1>0, PacketHasHop DEF TypeOK
        <4> QED
          BY <4>1, <4>2 DEF Queued
      <3>2. CASE i \notin Matching(ip)
        <4>1. q = NULL /\ heap' = heap \ Queued({i})
          BY <1>4, <1>8, <3>2 DEF Dropped
        <4>2. NULL \notin heap
          BY <1>0, PacketHasHop DEF TypeOK
        <4> QED
          BY <4>1, <4>2
      <3> QED
        BY <3>1, <3>2
    <2>7. q # NULL => q \in heap' /\ NextHop(q) = ip
      <3> SUFFICES ASSUME q # NULL PROVE q \in heap' /\ NextHop(q) = ip
        OBVIOUS
      <3>1. i \in Matching(ip) /\ q = arp_table[i].q
        BY <2>4
      <3>2. heap' = heap
        BY <1>8, <3>1 DEF Dropped
      <3> QED
        BY <1>0, <1>4, <3>1, <3>2 DEF QueueIsHeld
    <2> HIDE DEF q
    <2>8. /\ e \in Entry /\ e.ipaddr = ip /\ e.state = "PENDING" /\ e.q = q
          /\ e.ctime < ARP_MAXAGE /\ e.ctime < ARP_MAXPENDING
      BY <1>6, <2>1
    <2> HIDE DEF e
    <2>9. heap' \ {e.q} = heap \ Queued({i})
      BY <2>6, <2>8
    <2>10. e.q # NULL => e.q \in heap' /\ NextHop(e.q) = ip
      BY <2>7, <2>8
    <2> QED
      BY <1>2, <1>3, <2>3, <2>5, <2>8, <2>9, <2>10, PendingKeepsInv
  <1>9. ASSUME NEW p \in ({ip} \X Copies) \ heap,
               arp_table' = [arp_table EXCEPT ![i] =
                               [Found(i, ip) EXCEPT !.state = "PENDING", !.q = p]],
               heap' = (heap \ Queued({i})) \union {p}
        PROVE  ArpInv' /\ SentToOwner'
    <2> DEFINE e == [Found(i, ip) EXCEPT !.state = "PENDING", !.q = p]
    <2>1. p \in Packets /\ NextHop(p) = ip /\ p # NULL /\ p \notin heap
      BY CopyIsFor
    <2>2. /\ e \in Entry /\ e.ipaddr = ip /\ e.state = "PENDING" /\ e.q = p
          /\ e.ctime < ARP_MAXAGE /\ e.ctime < ARP_MAXPENDING
      BY <1>6, <2>1
    <2>3. arp_table' = [arp_table EXCEPT ![i] = e]
      BY <1>9
    <2> HIDE DEF e
    <2>4. heap' \subseteq Packets
      BY <1>0, <1>9, <2>1 DEF TypeOK
    <2>5. heap' \ {e.q} = heap \ Queued({i})
      BY <1>9, <2>1, <2>2
    <2>6. e.q # NULL => e.q \in heap' /\ NextHop(e.q) = ip
      BY <1>9, <2>1, <2>2
    <2> QED
      BY <1>2, <1>3, <2>2, <2>3, <2>4, <2>5, <2>6, PendingKeepsInv
  <1> QED
    BY <1>1, <1>8, <1>9

\* A packet that goes to a resolved address.
LEMMA SendKeepsInv ==
  ASSUME ArpInv, NEW ip \in IPs, NEW i \in Settled \intersect Matching(ip), SendBy(i, ip),
         etharp_cached_entry' \in Slots
  PROVE  ArpInv' /\ SentToOwner'
  <1>0. TypeOK /\ OneEntryEach /\ InUseIsNamed /\ AgesInv /\ QueueIsHeld /\ Resolved
    BY DEF ArpInv, AgesInv
  <1>1. i \in Slots /\ arp_table[i].state \in Stable /\ arp_table[i].ipaddr = ip /\ arp_table[i] \in Entry
    BY <1>0 DEF Settled, InUse, Matching, TypeOK
  <1>2. PICK s \in Stable : arp_table' = [arp_table EXCEPT ![i].state = s]
    <2> DEFINE s(r) == IF arp_table[i].state = "STABLE" /\ arp_table[i].ctime >= ARP_AGE_REREQUEST_USED /\ r
                       THEN "STABLE_REREQUESTING" ELSE arp_table[i].state
    <2>1. PICK r \in BOOLEAN : arp_table' = [arp_table EXCEPT ![i].state = s(r)]
      BY DEF SendBy
    <2>2. s(r) \in Stable
      BY <1>1 DEF Stable
    <2> HIDE DEF s
    <2> QED
      BY <2>1, <2>2
  <1>3. arp_table' = [arp_table EXCEPT ![i] = [arp_table[i] EXCEPT !.state = s]]
    BY <1>2
  <1>4. \A j \in Slots :
          /\ arp_table'[j].ipaddr = arp_table[j].ipaddr
          /\ arp_table'[j].ethaddr = arp_table[j].ethaddr
          /\ arp_table'[j].q = arp_table[j].q
          /\ arp_table'[j].ctime = arp_table[j].ctime
          /\ arp_table'[j].state = IF j = i THEN s ELSE arp_table[j].state
    BY <1>0, <1>1, <1>3 DEF TypeOK, Entry
  <1>5. arp_table' \in [Slots -> Entry]
    <2>1. [arp_table[i] EXCEPT !.state = s] \in Entry
      BY <1>1 DEF Entry
    <2> QED
      BY <1>0, <1>1, <1>3, <2>1 DEF TypeOK
  <1>6. sent' = {<<ip, arp_table[i].ethaddr>>} /\ UNCHANGED <<heap, announced>>
    BY DEF SendBy
  <1>7. InUse' = InUse /\ Settled' = Settled
    BY <1>1, <1>4 DEF InUse, Settled, Stable
  <1>8. arp_table[i].ethaddr \in MACs /\ arp_table[i].ethaddr = announced[ip]
    BY <1>0, <1>1 DEF Resolved
  <1>9. TypeOK'
    BY <1>0, <1>5, <1>6, <1>8 DEF TypeOK
  <1>10. OneEntryEach' /\ InUseIsNamed'
    BY <1>0, <1>4, <1>7 DEF OneEntryEach, InUseIsNamed, InUse
  <1>11. AgesInv'
    BY <1>0, <1>1, <1>4, <1>7 DEF AgesInv, InUse, Stable
  <1>12. Resolved'
    BY <1>0, <1>4, <1>6, <1>7 DEF Resolved, Settled, InUse
  <1>13. QueueIsHeld'
    BY <1>0, <1>1, <1>4, <1>6 DEF QueueIsHeld, Stable
  <1> QED
    BY <1>6, <1>8, <1>9, <1>10, <1>11, <1>12, <1>13 DEF ArpInv, AgesInv, SentToOwner

\* etharp_query for a resolved address changes only the hint.
LEMMA QuerySettledKeepsInv ==
  ASSUME ArpInv, NEW ip \in IPs, NEW packet \in BOOLEAN, QuerySettled(ip, packet)
  PROVE  ArpInv' /\ SentToOwner'
  <1>1. PICK i \in Matching(ip) \intersect Settled :
          /\ etharp_cached_entry' = IF packet THEN i ELSE etharp_cached_entry
          /\ sent' = IF packet THEN {<<ip, arp_table[i].ethaddr>>} ELSE {}
          /\ UNCHANGED <<arp_table, heap, announced>>
    BY DEF QuerySettled
  <1>2. arp_table[i].ethaddr \in MACs /\ arp_table[i].ethaddr = announced[ip] /\ i \in Slots
    BY <1>1 DEF ArpInv, Resolved, Settled, Matching, InUse
  <1>3. TypeOK'
    BY <1>1, <1>2 DEF ArpInv, TypeOK
  <1>4. SentToOwner'
    BY <1>1, <1>2 DEF SentToOwner
  <1> QED
    BY <1>1, <1>3, <1>4
       DEF ArpInv, OneEntryEach, InUseIsNamed, QueueIsHeld, Resolved, Settled, InUse

-----------------------------------------------------------------------------

LEMMA InitHasInv ==
  ASSUME Init
  PROVE  ArpInv /\ SentToOwner
  <1> DEFINE e == [state |-> "EMPTY", q |-> NULL, ipaddr |-> NULL, ethaddr |-> NULL,
                   netif |-> FALSE, ctime |-> 0]
  <1>0. e \in Entry
    BY ArpAssumption DEF Entry, Stable
  <1> HIDE DEF e
  <1>a. arp_table \in [Slots -> Entry]
    BY <1>0 DEF Init, e
  <1>b. 0 \in Slots
    BY ArpAssumption DEF Slots
  <1>1. TypeOK
    BY <1>a, <1>b DEF Init, TypeOK
  <1>2. InUse = {} /\ Settled = {}
    BY DEF Init, InUse, Settled
  <1>3. QueueIsHeld
    BY DEF Init, QueueIsHeld
  <1> QED
    BY <1>1, <1>2, <1>3 DEF Init, ArpInv, OneEntryEach, InUseIsNamed, Resolved, SentToOwner

LEMMA StepKeepsInv ==
  ASSUME ArpInv, SentToOwner, [Next]_vars
  PROVE  ArpInv' /\ SentToOwner'
  <1>1. CASE etharp_tmr
    BY <1>1, TickKeepsInv
  <1>2. CASE etharp_cleanup_netif
    BY <1>2, CleanupKeepsInv
  <1>3. CASE \E ip \in IPs, mac \in MACs, for_us \in BOOLEAN : etharp_arp_input(ip, mac, for_us)
    BY <1>3, InputKeepsInv
  <1>4. ASSUME NEW ip \in IPs, etharp_output(ip)
        PROVE  ArpInv' /\ SentToOwner'
    <2>1. CASE CachedHit(ip) /\ SendBy(etharp_cached_entry, ip) /\ UNCHANGED etharp_cached_entry
      <3>1. etharp_cached_entry \in Settled \intersect Matching(ip) /\ etharp_cached_entry' \in Slots
        BY <2>1 DEF CachedHit, ArpInv, TypeOK
      <3> QED
        BY <2>1, <3>1, SendKeepsInv
    <2>2. ASSUME NEW i \in Settled \intersect Matching(ip), SendBy(i, ip), etharp_cached_entry' = i
          PROVE  ArpInv' /\ SentToOwner'
      <3>1. etharp_cached_entry' \in Slots
        BY <2>2 DEF Matching, InUse
      <3> QED
        BY <2>2, <3>1, SendKeepsInv
    <2>3. CASE QueryPending(ip, TRUE)
      BY <2>3, QueryPendingKeepsInv
    <2> QED
      BY <1>4, <2>1, <2>2, <2>3 DEF etharp_output
  <1>5. ASSUME NEW ip \in IPs, NEW packet \in BOOLEAN, etharp_query(ip, packet)
        PROVE  ArpInv' /\ SentToOwner'
    BY <1>5, QueryPendingKeepsInv, QuerySettledKeepsInv DEF etharp_query
  <1>6. CASE UNCHANGED vars
    <2>1. UNCHANGED <<arp_table, etharp_cached_entry, heap, announced, sent>>
      BY <1>6 DEF vars
    <2> QED
      BY <2>1 DEF ArpInv, TypeOK, OneEntryEach, InUseIsNamed, QueueIsHeld, Resolved, Settled,
                  InUse, SentToOwner
  <1> QED
    BY <1>1, <1>2, <1>3, <1>4, <1>5, <1>6 DEF Next

\* For every size of the table, all addresses and all limits: what every call
\* of etharp.c leaves behind.
THEOREM ArpIsSound == Spec => []ArpInv
  <1>1. Init => ArpInv /\ SentToOwner
    BY InitHasInv
  <1>2. ArpInv /\ SentToOwner /\ [Next]_vars => (ArpInv /\ SentToOwner)'
    BY StepKeepsInv
  <1> QED
    BY <1>1, <1>2, PTL DEF Spec

\* No IP frame goes to another host's or to an outdated MAC address.
THEOREM FramesGoToTheirOwner == Spec => []SentToOwner
  <1>1. Init => ArpInv /\ SentToOwner
    BY InitHasInv
  <1>2. ArpInv /\ SentToOwner /\ [Next]_vars => (ArpInv /\ SentToOwner)'
    BY StepKeepsInv
  <1> QED
    BY <1>1, <1>2, PTL DEF Spec

-----------------------------------------------------------------------------

\* The condition LeastDestructive puts on a slot that gets another address.
Expendable(i) ==
  /\ InUse = Slots
  /\ i \notin Settled => Settled = {}
  /\ arp_table[i].q # NULL => Unqueued = {}
  /\ \A j \in Slots :
       /\ j \in Settled <=> i \in Settled
       /\ j \in Unqueued <=> i \in Unqueued
       => arp_table[j].ctime <= arp_table[i].ctime

LEMMA RecycledIsExpendable ==
  ASSUME ArpInv, NEW i \in InUse, Recycles(i)
  PROVE  Expendable(i)
  <1>0. /\ TypeOK /\ QueueIsHeld
        /\ \A j \in Slots : arp_table[j].ctime \in Nat
        /\ \A j \in Slots : arp_table[j].state \in {"EMPTY", "PENDING"} \union Stable
    BY ArpAssumption DEF ArpInv, TypeOK, Entry
  <1>1. i \in Slots /\ ~ IsFirst(i, Slots \ InUse)
    BY DEF InUse, IsFirst
  <1>2. Settled \intersect Unqueued = {} /\ \A j \in Settled : arp_table[j].q = NULL
    BY <1>0 DEF Settled, Unqueued, QueueIsHeld, Stable, InUse
  <1>3. CASE InUse = Slots /\ IsOldest(i, Settled)
    BY <1>0, <1>1, <1>2, <1>3 DEF IsOldest, Expendable
  <1>4. CASE InUse = Slots /\ Settled = {} /\ IsOldest(i, Unqueued)
    <2>1. arp_table[i].q = NULL /\ i \in Unqueued
      BY <1>4 DEF IsOldest, Unqueued
    <2> QED
      BY <1>0, <1>1, <1>2, <1>4, <2>1 DEF IsOldest, Expendable
  <1>5. CASE InUse = Slots /\ Settled = {} /\ Unqueued = {} /\ IsOldest(i, Slots)
    BY <1>0, <1>1, <1>5 DEF IsOldest, Expendable
  <1> QED
    BY <1>1, <1>3, <1>4, <1>5 DEF Recycles

\* A slot whose address changes was recycled.
LEMMA WriteRecycles ==
  ASSUME ArpInv, NEW ip \in IPs, NEW k \in Slots, Finds(k, ip),
         NEW e, e.ipaddr = ip, arp_table' = [arp_table EXCEPT ![k] = e],
         NEW i \in InUse, arp_table'[i].ipaddr # arp_table[i].ipaddr
  PROVE  Expendable(i)
  <1>1. i = k /\ arp_table[i].ipaddr # ip
    BY DEF ArpInv, TypeOK, InUse
  <1>2. Recycles(i)
    BY <1>1 DEF Finds, Matching, IsFirst
  <1> QED
    BY <1>2, RecycledIsExpendable

LEMMA StepIsGentle ==
  ASSUME ArpInv, [Next]_vars,
         NEW i \in InUse, arp_table'[i].ipaddr \in IPs \ {arp_table[i].ipaddr}
  PROVE  Expendable(i)
  <1>0. TypeOK /\ InUseIsNamed /\ AgesInv /\ i \in Slots
    BY DEF ArpInv, AgesInv, InUse
  <1>a. NULL \notin IPs /\ \A e : Freed(e).ipaddr = NULL
    BY ArpAssumption DEF Freed
  <1>1. CASE etharp_tmr
    <2>1. arp_table[i] \in Entry /\ arp_table'[i] = Aged(i)
      BY <1>0, <1>1 DEF etharp_tmr, TypeOK
    <2>2. CASE Overage(i)
      <3>1. arp_table'[i] = Freed(arp_table[i])
        BY <2>1, <2>2 DEF Aged
      <3> QED
        BY <1>a, <3>1
    <2>3. CASE ~ Overage(i)
      <3>1. arp_table'[i] = [arp_table[i] EXCEPT !.ctime = @ + 1,
                               !.state = IF @ = "STABLE_REREQUESTING" THEN "STABLE" ELSE @]
        BY <2>1, <2>3 DEF Aged
      <3> QED
        BY <2>1, <3>1 DEF Entry
    <2> QED
      BY <2>2, <2>3
  <1>2. CASE etharp_cleanup_netif
    BY <1>0, <1>a, <1>2 DEF etharp_cleanup_netif
  <1>3. ASSUME NEW ip \in IPs, NEW mac \in MACs, NEW for_us \in BOOLEAN,
               etharp_arp_input(ip, mac, for_us)
        PROVE  Expendable(i)
    <2>1. PICK k \in Slots, e \in {[state |-> "STABLE", q |-> NULL, ipaddr |-> ip,
                                    ethaddr |-> mac, netif |-> TRUE, ctime |-> 0]} :
            Finds(k, ip) /\ arp_table' = [arp_table EXCEPT ![k] = e]
      BY <1>3 DEF etharp_arp_input
    <2> QED
      BY <2>1, WriteRecycles
  <1>4. ASSUME NEW ip \in IPs, NEW packet \in BOOLEAN, QueryPending(ip, packet)
        PROVE  Expendable(i)
    <2>1. PICK k \in Slots : 
            /\ Finds(k, ip)
            /\ \/ arp_table' = [arp_table EXCEPT ![k] = [Found(k, ip) EXCEPT !.state = "PENDING"]]
               \/ \E p \in {ip} \X Copies : arp_table' = [arp_table EXCEPT ![k] =
                      [Found(k, ip) EXCEPT !.state = "PENDING", !.q = p]]
      BY <1>4 DEF QueryPending
    <2>2. Found(k, ip) \in Entry /\ Found(k, ip).ipaddr = ip
      BY <1>0, <2>1, FoundEntry
    <2>3. PICK e : e.ipaddr = ip /\ arp_table' = [arp_table EXCEPT ![k] = e]
      BY <2>1, <2>2 DEF Entry
    <2> QED
      BY <2>1, <2>3, WriteRecycles
  <1>5. ASSUME NEW ip \in IPs, NEW k \in Slots, SendBy(k, ip)
        PROVE  FALSE
    <2>1. PICK s : arp_table' = [arp_table EXCEPT ![k].state = s]
      BY <1>5 DEF SendBy
    <2> QED
      BY <1>0, <2>1 DEF TypeOK, Entry
  <1>6. ASSUME NEW ip \in IPs, etharp_output(ip)
        PROVE  Expendable(i)
    <2>1. CASE CachedHit(ip) /\ SendBy(etharp_cached_entry, ip)
      BY <1>0, <1>5, <2>1 DEF TypeOK
    <2>2. ASSUME NEW k \in Settled \intersect Matching(ip), SendBy(k, ip)
          PROVE  FALSE
      <3>1. k \in Slots
        BY DEF Matching, InUse
      <3> QED
        BY <1>5, <2>2, <3>1
    <2>3. CASE QueryPending(ip, TRUE)
      BY <1>4, <2>3
    <2> QED
      BY <1>6, <2>1, <2>2, <2>3 DEF etharp_output
  <1>7. ASSUME NEW ip \in IPs, NEW packet \in BOOLEAN, etharp_query(ip, packet)
        PROVE  Expendable(i)
    <2>1. CASE QueryPending(ip, packet)
      BY <1>4, <2>1
    <2>2. CASE QuerySettled(ip, packet)
      BY <2>2 DEF QuerySettled
    <2> QED
      BY <1>7, <2>1, <2>2 DEF etharp_query
  <1>8. CASE UNCHANGED vars
    BY <1>8 DEF vars
  <1> QED
    BY <1>1, <1>2, <1>3, <1>6, <1>7, <1>8 DEF Next

\* No call recycles an entry while a less important one is there.
THEOREM RecyclingIsGentle == Spec => LeastDestructive
  <1>1. ArpInv /\ [Next]_vars =>
          [\A i \in InUse : arp_table'[i].ipaddr \in IPs \ {arp_table[i].ipaddr} => Expendable(i)]_vars
    BY StepIsGentle
  <1>2. Spec => []ArpInv
    BY ArpIsSound
  <1> QED
    BY <1>1, <1>2, PTL DEF Spec, LeastDestructive, Expendable

===============================================================================
