------------------------------ MODULE DhcpProofs ------------------------------
(***************************************************************************)
(* Proofs about DhcpClient, for every set of addresses, leases and replies *)
(* and every size of its counters: a lease that is in use is maintained,   *)
(* retries are bounded, and, when every offer names its server, the client *)
(* never waits without a timeout.  Then, about DhcpWatch: the static       *)
(* address is taken only after requests without an answer.                 *)
(*                                                                         *)
(* The client's functions are operators on a netif, and so are the lemmas: *)
(* what each function does to a netif, then that it keeps it Sound, then   *)
(* the steps.                                                              *)
(***************************************************************************)
EXTENDS DhcpWatch, TLAPS

\* A counter taken modulo its size.
LEMMA Modulo ==
  ASSUME NEW t \in Nat, NEW k \in Nat \ {0}
  PROVE  /\ t % k \in 0 .. (k - 1)
         /\ t < k => t % k = t
  BY SMT

\* A timeout in ticks fits, and is at least one tick if it is at least a millisecond.
LEMMA FineTicksBounded ==
  ASSUME NEW ms \in Nat
  PROVE  FineTicks(ms) \in 0 .. MaxWait /\ (ms > 0 => FineTicks(ms) > 0)
<1> DEFINE t == (ms + 499) \div 500
<1>1. t \in Nat /\ (ms > 0 => t > 0)
  BY SMT
<1>2. FineTicks(ms) = IF t < MaxWait THEN t ELSE MaxWait
  BY DEF FineTicks
<1> HIDE DEF t
<1>3. QED  BY <1>1, <1>2, DhcpAssumption

\* The timeouts dhcp.c computes are positive, but those of dhcp_renew and dhcp_rebind
\* for a tries that has wrapped to 0.
LEMMA Waits ==
  ASSUME NEW t \in Nat
  PROVE  /\ BackOff(t) \in Nat /\ BackOff(t) > 0
         /\ RenewWait(t) \in Nat
         /\ RebindWait(t) \in Nat /\ (t > 0 => RebindWait(t) > 0)
<1>1. BackOff(t) \in Nat /\ BackOff(t) > 0
  <2>1. CASE t >= 6
    BY <2>1 DEF BackOff
  <2>2. CASE t \in {0, 1, 2, 3, 4, 5}
    BY <2>2 DEF BackOff
  <2>3. QED  BY <2>1, <2>2
<1>2. QED  BY <1>1 DEF RenewWait, RebindWait

\* dhcp_set_state, field by field.
LEMMA SetStateDoes ==
  ASSUME NEW n \in Netif, NEW s \in States
  PROVE  LET m == SetState(n, s)
         IN  /\ m \in Netif /\ m.state = s
             /\ m.ip = n.ip /\ m.up = n.up /\ m.offered = n.offered
             /\ m.tries = IF n.state = s THEN n.tries ELSE 0
<1>1. CASE n.state = s
  BY <1>1 DEF SetState
<1>2. CASE n.state # s
  <2> DEFINE m == [n EXCEPT !.state = s, !.tries = 0, !.rt = 0]
  <2>1. SetState(n, s) = m
    BY <1>2 DEF SetState
  <2>2. 0 \in 0 .. (TriesMod - 1) /\ 0 \in 0 .. MaxWait
    BY DhcpAssumption
  <2>3. m \in Netif
    BY <2>2 DEF Netif
  <2>4. /\ m.state = s /\ m.tries = 0
        /\ m.ip = n.ip /\ m.up = n.up /\ m.offered = n.offered
    BY DEF Netif
  <2> HIDE DEF m
  <2>5. QED  BY <1>2, <2>1, <2>3, <2>4
<1>3. QED  BY <1>1, <1>2

\* Sending changes only what may be answered.
LEMMA SendDoes ==
  ASSUME NEW n \in Netif, NEW sent \in BOOLEAN,
         NEW kind \in {"discover", "request", "decline", "release"}
  PROVE  LET m == Send(n, kind, sent)
         IN  /\ m \in Netif /\ m.state = n.state
             /\ m.ip = n.ip /\ m.up = n.up /\ m.offered = n.offered
             /\ m.tries = n.tries
<1>1. CASE sent
  BY <1>1 DEF Netif, Send
<1>2. CASE ~sent
  BY <1>2 DEF Send
<1>3. QED  BY <1>1, <1>2

\* m is n after one more request was made in state s.
Attempted(n, m, s) ==
  /\ m \in Netif /\ m.state = s
  /\ m.ip = n.ip /\ m.up = n.up /\ m.offered = n.offered
  /\ m.tries = ((IF n.state = s THEN n.tries ELSE 0) + 1) % TriesMod

\* It stays in its eight bits.
LEMMA TriesBounded ==
  ASSUME NEW n \in Netif
  PROVE  Tries(n) \in 0 .. (TriesMod - 1)
<1>1. n.tries + 1 \in Nat /\ TriesMod \in Nat \ {0}
  BY DhcpAssumption DEF Netif
<1>2. QED  BY <1>1, Modulo DEF Tries

\* How a request ends, field by field.
LEMMA TriedDoes ==
  ASSUME NEW n \in Netif, NEW ms \in Nat
  PROVE  LET m == Tried(n, ms)
         IN  /\ m \in Netif /\ m.state = n.state
             /\ m.ip = n.ip /\ m.up = n.up /\ m.offered = n.offered
             /\ m.tries = Tries(n)
             /\ ms > 0 => m.rt > 0
<1>1. Tries(n) \in 0 .. (TriesMod - 1)
  BY TriesBounded
<1>2. FineTicks(ms) \in 0 .. MaxWait /\ (ms > 0 => FineTicks(ms) > 0)
  BY FineTicksBounded
<1>3. (IF n.unanswered < 9 THEN n.unanswered + 1 ELSE n.unanswered) \in 0 .. 9
  BY DEF Netif
<1>4. Tried(n, ms) \in Netif
  BY <1>1, <1>2, <1>3 DEF Netif, Tried
<1>5. QED  BY <1>2, <1>4 DEF Netif, Tried

\* dhcp_set_state, a message and a timeout make an attempt.
LEMMA RequestDoes ==
  ASSUME NEW n \in Netif, NEW s \in States, NEW sent \in BOOLEAN, NEW ms \in Nat,
         NEW kind \in {"discover", "request", "decline", "release"}
  PROVE  LET b == Send(SetState(n, s), kind, sent)
         IN  /\ b \in Netif
             /\ Attempted(n, Tried(b, ms), s)
             /\ ms > 0 => Tried(b, ms).rt > 0
<1> DEFINE a == SetState(n, s)
           b == Send(a, kind, sent)
<1>1. /\ a \in Netif /\ a.state = s
      /\ a.ip = n.ip /\ a.up = n.up /\ a.offered = n.offered
      /\ a.tries = IF n.state = s THEN n.tries ELSE 0
  BY SetStateDoes
<1> HIDE DEF a
<1>2. /\ b \in Netif /\ b.state = s
      /\ b.ip = n.ip /\ b.up = n.up /\ b.offered = n.offered
      /\ b.tries = a.tries
  <2>1. a \in Netif /\ a.state = s
        /\ a.ip = n.ip /\ a.up = n.up /\ a.offered = n.offered
    BY <1>1
  <2>2. /\ b \in Netif /\ b.state = a.state
        /\ b.ip = a.ip /\ b.up = a.up /\ b.offered = a.offered
        /\ b.tries = a.tries
    BY <2>1, SendDoes
  <2> HIDE DEF b
  <2>3. QED  BY <2>1, <2>2
<1>3. b \in Netif /\ Attempted(n, Tried(b, ms), s) /\ (ms > 0 => Tried(b, ms).rt > 0)
  <2> DEFINE m == Tried(b, ms)
  <2> HIDE DEF b
  <2>1. /\ m \in Netif /\ m.state = b.state
        /\ m.ip = b.ip /\ m.up = b.up /\ m.offered = b.offered
        /\ m.tries = Tries(b)
        /\ ms > 0 => m.rt > 0
    BY <1>2, TriedDoes
  <2>2. Tries(b) = ((IF n.state = s THEN n.tries ELSE 0) + 1) % TriesMod
    BY <1>1, <1>2 DEF Tries
  <2> HIDE DEF m
  <2>3. Attempted(n, m, s)
    BY <1>1, <1>2, <2>1, <2>2 DEF Attempted
  <2>4. QED  BY <1>2, <2>1, <2>3 DEF m
<1>4. QED  BY <1>3 DEF a

\* The functions of dhcp.c that make requests: each is an attempt in its state, and all
\* but dhcp_renew and a dhcp_rebind with no tries start a timeout.
LEMMA RequestsDo ==
  ASSUME NEW n \in Netif, NEW sent \in BOOLEAN
  PROVE  /\ Attempted(n, Select(n, sent), "REQUESTING") /\ Select(n, sent).rt > 0
         /\ Attempted(n, Check(n), "CHECKING") /\ Check(n).rt > 0
         /\ Attempted(n, Decline(n, sent), "BACKING_OFF") /\ Decline(n, sent).rt > 0
         /\ Attempted(n, Renew(n, sent), "RENEWING")
         /\ Attempted(n, Rebind(n, sent), "REBINDING")
         /\ Rebind(n, sent).tries > 0 => Rebind(n, sent).rt > 0
<1>1. Attempted(n, Select(n, sent), "REQUESTING") /\ Select(n, sent).rt > 0
  <2> DEFINE b == Send(SetState(n, "REQUESTING"), "request", sent)
  <2>1. Select(n, sent) = Tried(b, BackOff(Tries(b)))
    BY DEF Select
  <2>2. \A ms \in Nat : /\ b \in Netif
                        /\ Attempted(n, Tried(b, ms), "REQUESTING")
                        /\ ms > 0 => Tried(b, ms).rt > 0
    BY RequestDoes DEF States
  <2> HIDE DEF b
  <2>3. BackOff(Tries(b)) \in Nat /\ BackOff(Tries(b)) > 0
    BY <2>2, TriesBounded, Waits
  <2>4. QED  BY <2>1, <2>2, <2>3
<1>2. Attempted(n, Check(n), "CHECKING") /\ Check(n).rt > 0
  <2> DEFINE b == Send(SetState(n, "CHECKING"), "request", FALSE)
  <2>1. Check(n) = Tried(b, CheckWait)
    BY DEF Check, Send
  <2>2. \A ms \in Nat : /\ b \in Netif
                        /\ Attempted(n, Tried(b, ms), "CHECKING")
                        /\ ms > 0 => Tried(b, ms).rt > 0
    BY RequestDoes DEF States
  <2> HIDE DEF b
  <2>3. CheckWait \in Nat /\ CheckWait > 0
    BY DEF CheckWait
  <2>4. QED  BY <2>1, <2>2, <2>3
<1>3. Attempted(n, Decline(n, sent), "BACKING_OFF") /\ Decline(n, sent).rt > 0
  <2> DEFINE b == Send(SetState(n, "BACKING_OFF"), "decline", sent)
  <2>1. Decline(n, sent) = Tried(b, DeclineWait)
    BY DEF Decline
  <2>2. \A ms \in Nat : /\ b \in Netif
                        /\ Attempted(n, Tried(b, ms), "BACKING_OFF")
                        /\ ms > 0 => Tried(b, ms).rt > 0
    BY RequestDoes DEF States
  <2> HIDE DEF b
  <2>3. DeclineWait \in Nat /\ DeclineWait > 0
    BY DEF DeclineWait
  <2>4. QED  BY <2>1, <2>2, <2>3
<1>4. Attempted(n, Renew(n, sent), "RENEWING")
  <2> DEFINE b == Send(SetState(n, "RENEWING"), "request", sent)
  <2>1. Renew(n, sent) = Tried(b, RenewWait(Tries(b)))
    BY DEF Renew
  <2>2. \A ms \in Nat : b \in Netif /\ Attempted(n, Tried(b, ms), "RENEWING")
    BY RequestDoes DEF States
  <2> HIDE DEF b
  <2>3. RenewWait(Tries(b)) \in Nat
    BY <2>2, TriesBounded, Waits
  <2>4. QED  BY <2>1, <2>2, <2>3
<1>5. /\ Attempted(n, Rebind(n, sent), "REBINDING")
      /\ Rebind(n, sent).tries > 0 => Rebind(n, sent).rt > 0
  <2> DEFINE b == Send(SetState(n, "REBINDING"), "request", sent)
  <2>1. Rebind(n, sent) = Tried(b, RebindWait(Tries(b)))
    BY DEF Rebind
  <2>2. \A ms \in Nat : /\ b \in Netif
                        /\ Attempted(n, Tried(b, ms), "REBINDING")
                        /\ ms > 0 => Tried(b, ms).rt > 0
    BY RequestDoes DEF States
  <2> HIDE DEF b
  <2>3. RebindWait(Tries(b)) \in Nat /\ (Tries(b) > 0 => RebindWait(Tries(b)) > 0)
    BY <2>2, TriesBounded, Waits
  <2>4. Tried(b, RebindWait(Tries(b))).tries = Tries(b)
    BY <2>2, <2>3, TriedDoes
  <2>5. QED  BY <2>1, <2>2, <2>3, <2>4
<1>6. QED  BY <1>1, <1>2, <1>3, <1>4, <1>5

-----------------------------------------------------------------------------

\* The inductive invariant, of one netif.  LeaseIsMaintained and RetriesAreBounded are not
\* inductive: dhcp_bind uses the offered address, so it must be known to be there from the
\* first offer on.
Sound(n) ==
  /\ n \in Netif
  /\ n.state \in {"NONE", "OFF"} => n.rt = 0 /\ n.asked = {}
  /\ n.ip \in Addr =>
       /\ n.state \in {"BOUND", "RENEWING", "REBINDING"}
       /\ n.ip = n.offered
       /\ n.up
  /\ n.state = "BOUND" => n.ip \in Addr
  /\ n.state \in {"REQUESTING", "CHECKING", "BOUND", "RENEWING", "REBINDING"} =>
       n.offered \in Addr
  /\ n.state = "REQUESTING" => n.tries <= 6
  /\ n.state = "REBINDING" => n.tries <= 9
  /\ n.state = "CHECKING" => n.tries <= 2

\* WaitingIsTimed, of one netif.
Timed(n) ==
  n.state \in {"SELECTING", "REQUESTING", "CHECKING", "BACKING_OFF", "REBINDING"} => n.rt > 0

\* The first attempt in a state counts 1, and the next ones go up to 9 without a wrap.
LEMMA AttemptCounts ==
  ASSUME NEW n \in Netif, NEW m \in Netif, NEW s \in States, Attempted(n, m, s)
  PROVE  /\ n.state # s => m.tries = 1
         /\ n.state = s /\ n.tries < 9 => m.tries = n.tries + 1
<1>1. 1 % TriesMod = 1
  BY Modulo, DhcpAssumption
<1>2. ASSUME n.tries < 9 PROVE (n.tries + 1) % TriesMod = n.tries + 1
  <2>1. n.tries + 1 \in Nat /\ n.tries + 1 < TriesMod /\ TriesMod \in Nat \ {0}
    BY <1>2, DhcpAssumption DEF Netif
  <2>2. QED  BY <2>1, Modulo
<1>3. CASE n.state # s
  BY <1>1, <1>3 DEF Attempted
<1>4. CASE n.state = s
  BY <1>2, <1>4 DEF Attempted
<1>5. QED  BY <1>3, <1>4

\* dhcp_select, for an offer or as one of the first six requests.
LEMMA SelectSound ==
  ASSUME NEW n \in Netif, NEW sent \in BOOLEAN, n.ip = NoAddr, n.offered \in Addr,
         n.state = "REQUESTING" => n.tries <= 5
  PROVE  Sound(Select(n, sent)) /\ Timed(Select(n, sent))
<1> DEFINE m == Select(n, sent)
<1>1. Attempted(n, m, "REQUESTING") /\ m.rt > 0
  BY RequestsDo
<1> HIDE DEF m
<1>2. m.tries <= 6
  <2>1. n.tries \in Nat
    BY DEF Netif
  <2>2. QED  BY <1>1, <2>1, AttemptCounts DEF Attempted, States
<1>3. QED  BY <1>1, <1>2, DhcpAssumption DEF Sound, Timed, Attempted, m

\* dhcp_check, for an ACK or as the second probe.
LEMMA CheckSound ==
  ASSUME NEW n \in Netif, n.ip = NoAddr, n.offered \in Addr,
         n.state = "CHECKING" => n.tries <= 1
  PROVE  Sound(Check(n)) /\ Timed(Check(n))
<1> DEFINE m == Check(n)
<1>1. Attempted(n, m, "CHECKING") /\ m.rt > 0
  BY RequestsDo
<1> HIDE DEF m
<1>2. m.tries <= 2
  <2>1. n.tries \in Nat
    BY DEF Netif
  <2>2. QED  BY <1>1, <2>1, AttemptCounts DEF Attempted, States
<1>3. QED  BY <1>1, <1>2, DhcpAssumption DEF Sound, Timed, Attempted, m

\* dhcp_decline.
LEMMA DeclineSound ==
  ASSUME NEW n \in Netif, NEW sent \in BOOLEAN, n.ip = NoAddr
  PROVE  Sound(Decline(n, sent)) /\ Timed(Decline(n, sent))
<1> DEFINE m == Decline(n, sent)
<1>1. Attempted(n, m, "BACKING_OFF") /\ m.rt > 0
  BY RequestsDo
<1> HIDE DEF m
<1>2. QED  BY <1>1, DhcpAssumption DEF Sound, Timed, Attempted, m

\* dhcp_renew.
LEMMA RenewSound ==
  ASSUME NEW n, NEW sent \in BOOLEAN, Sound(n), MayRenew(n)
  PROVE  Sound(Renew(n, sent)) /\ Timed(Renew(n, sent))
<1> DEFINE m == Renew(n, sent)
<1>1. Attempted(n, m, "RENEWING")
  BY RequestsDo DEF Sound
<1> HIDE DEF m
<1>2. QED  BY <1>1 DEF Sound, Timed, Attempted, MayRenew, m

\* Where dhcp_rebind is called: by dhcp_t2_timeout, or by dhcp_timeout for a retry.
MayRebind(n) == MayRenew(n) \/ (n.state = "REBINDING" /\ n.tries <= 8)

\* dhcp_rebind.
LEMMA RebindSound ==
  ASSUME NEW n, NEW sent \in BOOLEAN, Sound(n), MayRebind(n)
  PROVE  Sound(Rebind(n, sent)) /\ Timed(Rebind(n, sent))
<1> DEFINE m == Rebind(n, sent)
<1>1. Attempted(n, m, "REBINDING") /\ (m.tries > 0 => m.rt > 0)
  BY RequestsDo DEF Sound
<1> HIDE DEF m
<1>2. m.tries \in 1 .. 9
  <2>1. n \in Netif /\ n.tries \in Nat
    BY DEF Sound, Netif
  <2>2. QED  BY <1>1, <2>1, AttemptCounts DEF Attempted, States, MayRenew, MayRebind
<1>3. QED  BY <1>1, <1>2 DEF Sound, Timed, Attempted, MayRenew, MayRebind, m

\* dhcp_discover, on an interface without an address.
LEMMA DiscoverSound ==
  ASSUME NEW n \in Netif, NEW sent \in BOOLEAN, n.ip = NoAddr
  PROVE  /\ Sound(Discover(n, sent)) /\ Timed(Discover(n, sent))
         /\ Discover(n, sent).state = "SELECTING"
<1> DEFINE o == [n EXCEPT !.offered = NoAddr]
           b == Send(SetState(o, "SELECTING"), "discover", sent)
           m == Discover(n, sent)
<1>1. o \in Netif /\ o.ip = NoAddr
  BY DEF Netif
<1>2. m = Tried(b, BackOff(Tries(b)))
  BY DEF Discover
<1> HIDE DEF o
<1>3. \A ms \in Nat : /\ b \in Netif
                      /\ Attempted(o, Tried(b, ms), "SELECTING")
                      /\ ms > 0 => Tried(b, ms).rt > 0
  BY <1>1, RequestDoes DEF States
<1> HIDE DEF b, m
<1>4. BackOff(Tries(b)) \in Nat /\ BackOff(Tries(b)) > 0
  BY <1>3, TriesBounded, Waits
<1>5. Attempted(o, m, "SELECTING") /\ m.rt > 0
  BY <1>2, <1>3, <1>4
<1>6. QED  BY <1>1, <1>5, DhcpAssumption DEF Sound, Timed, Attempted, m

\* An interface that lost its address.
LEMMA UnconfigureDoes ==
  ASSUME NEW n \in Netif
  PROVE  /\ Unconfigure(n) \in Netif /\ Unconfigure(n).ip = NoAddr
         /\ Unconfigure(n).state = n.state
  BY DEF Netif, Unconfigure

\* dhcp_release takes the address away.
LEMMA ReleaseDoes ==
  ASSUME NEW n \in Netif, NEW sent \in BOOLEAN
  PROVE  Release(n, sent) \in Netif /\ Release(n, sent).ip = NoAddr
<1> DEFINE b == Send(SetState(n, "OFF"), "release", sent)
           a == Tried(b, RebindWait(Tries(b)))
           o == [a EXCEPT !.offered = NoAddr, !.lease = NoLease]
<1>1. Release(n, sent) = Unconfigure(o)
  BY DEF Release
<1>2. \A ms \in Nat : b \in Netif /\ Attempted(n, Tried(b, ms), "OFF")
  BY RequestDoes DEF States
<1> HIDE DEF b
<1>3. RebindWait(Tries(b)) \in Nat
  BY <1>2, TriesBounded, Waits
<1>4. a \in Netif
  BY <1>2, <1>3 DEF Attempted
<1> HIDE DEF a
<1>5. o \in Netif
  BY <1>4 DEF Netif
<1> HIDE DEF o
<1>6. QED  BY <1>1, <1>5, UnconfigureDoes

\* dhcp_handle_nak, in any state.
LEMMA NakSound ==
  ASSUME NEW n \in Netif, NEW sent \in BOOLEAN
  PROVE  Sound(HandleNak(n, sent)) /\ Timed(HandleNak(n, sent))
<1> DEFINE m == SetState(Unconfigure(n), "BACKING_OFF")
<1>1. m \in Netif /\ m.ip = NoAddr
  BY UnconfigureDoes, SetStateDoes DEF States
<1>2. HandleNak(n, sent) = Discover(m, sent)
  BY DEF HandleNak
<1> HIDE DEF m
<1>3. QED  BY <1>1, <1>2, DiscoverSound

\* A lease time in ticks fits its counter and is at least one.
LEMMA CoarseTicksBounded ==
  ASSUME NEW secs \in Nat
  PROVE  CoarseTicks(secs) \in 1 .. (TimerMod - 1)
<1> DEFINE m == (secs + 30) \div 60
<1>1. m \in Nat
  BY SMT
<1>2. CoarseTicks(secs) = IF m = 0 THEN 1 ELSE IF m < TimerMod THEN m ELSE TimerMod - 1
  BY DEF CoarseTicks
<1> HIDE DEF m
<1>3. QED  BY <1>1, <1>2, DhcpAssumption

\* dhcp_bind, once an address was offered.
LEMMA BindSound ==
  ASSUME NEW n \in Netif, n.offered \in Addr, n.state # "BOUND"
  PROVE  Sound(Bind(n)) /\ Timed(Bind(n))
<1> DEFINE t1 == IF n.lease.t1 = Forever THEN n.t1 ELSE CoarseTicks(n.lease.t1)
           t2 == IF n.lease.t2 = Forever THEN n.t2 ELSE CoarseTicks(n.lease.t2)
           u1 == IF t1 >= t2 /\ t2 > 0 THEN 0 ELSE t1
           b == [n EXCEPT !.t1 = u1, !.t2 = t2, !.ip = n.offered, !.up = TRUE]
           m == SetState(b, "BOUND")
<1>1. Bind(n) = m
  BY DEF Bind
<1>2. n.lease.t1 \in Nat \cup {Forever} /\ n.lease.t2 \in Nat \cup {Forever}
  BY DhcpAssumption DEF Netif, NoLease
<1>3. n.t1 \in 0 .. (TimerMod - 1) /\ n.t2 \in 0 .. (TimerMod - 1) /\ 0 \in 0 .. (TimerMod - 1)
  BY DhcpAssumption DEF Netif
<1>4. t1 \in 0 .. (TimerMod - 1) /\ t2 \in 0 .. (TimerMod - 1)
  <2>1. \A secs \in Nat : CoarseTicks(secs) \in 0 .. (TimerMod - 1)
    BY CoarseTicksBounded
  <2>2. QED  BY <1>2, <1>3, <2>1
<1> HIDE DEF t1, t2
<1>5. u1 \in 0 .. (TimerMod - 1)
  BY <1>3, <1>4
<1> HIDE DEF u1
<1>6. /\ b \in Netif /\ b.state = n.state /\ b.offered = n.offered
      /\ b.ip = n.offered /\ b.up
  BY <1>4, <1>5 DEF Netif
<1> HIDE DEF b
<1>7. /\ m \in Netif /\ m.state = "BOUND" /\ m.offered = n.offered
      /\ m.ip = n.offered /\ m.up
  BY <1>6, SetStateDoes DEF States
<1> HIDE DEF m
<1>8. QED  BY <1>1, <1>7 DEF Sound, Timed

-----------------------------------------------------------------------------

\* Outside the three states that hold a lease there is no address.
LEMMA NotHeldIsNoAddr ==
  ASSUME NEW n, Sound(n), n.state \notin {"BOUND", "RENEWING", "REBINDING"}
  PROVE  n \in Netif /\ n.ip = NoAddr
  BY DEF Sound, Netif

\* dhcp_timeout: whatever it does, it leaves a timeout running where one is needed.
LEMMA TimeoutSound ==
  ASSUME NEW n, NEW sent \in BOOLEAN, Sound(n)
  PROVE  Sound(Timeout(n, sent)) /\ Timed(Timeout(n, sent))
<1>1. n \in Netif /\ n.state \in States /\ n.tries \in Nat
  BY DEF Sound, Netif
<1>2. CASE GivenUp(n)
  <2>1. Timeout(n, sent) = Discover(Release(n, sent), sent)
    BY <1>2 DEF Timeout
  <2>2. QED  BY <1>1, <2>1, ReleaseDoes, DiscoverSound
<1>3. CASE ~GivenUp(n) /\ n.state \in Discovering
  <2>1. Timeout(n, sent) = Discover(n, sent)
    BY <1>3 DEF Timeout, Discovering
  <2>2. QED  BY <1>3, <2>1, NotHeldIsNoAddr, DiscoverSound DEF Discovering
<1>4. CASE ~GivenUp(n) /\ n.state = "REQUESTING"
  <2>1. Timeout(n, sent) = Select(n, sent)
    BY <1>4 DEF Timeout, Discovering
  <2>2. n.tries <= 5 /\ n.offered \in Addr
    BY <1>1, <1>4 DEF GivenUp, Sound
  <2>3. QED  BY <1>4, <2>1, <2>2, NotHeldIsNoAddr, SelectSound
<1>5. CASE ~GivenUp(n) /\ n.state = "CHECKING"
  <2>1. Timeout(n, sent) = IF n.tries <= 1 THEN Check(n) ELSE Bind(n)
    BY <1>5 DEF Timeout, Discovering
  <2>2. n.offered \in Addr
    BY <1>5 DEF Sound
  <2>3. QED  BY <1>5, <2>1, <2>2, NotHeldIsNoAddr, CheckSound, BindSound
<1>6. CASE ~GivenUp(n) /\ n.state = "RENEWING"
  <2>1. Timeout(n, sent) = Renew(n, sent)
    BY <1>6 DEF Timeout, Discovering
  <2>2. QED  BY <1>6, <2>1, RenewSound DEF MayRenew
<1>7. CASE ~GivenUp(n) /\ n.state = "REBINDING"
  <2>1. Timeout(n, sent) = Rebind(n, sent)
    BY <1>7 DEF Timeout, Discovering
  <2>2. n.tries <= 8
    BY <1>1, <1>7 DEF GivenUp
  <2>3. QED  BY <1>7, <2>1, <2>2, RebindSound DEF MayRebind
<1>8. CASE n.state \in {"NONE", "OFF", "BOUND"}
  <2>1. Timeout(n, sent) = n
    BY <1>8 DEF Timeout, GivenUp, Discovering
  <2>2. QED  BY <1>8, <2>1 DEF Timed
<1>9. QED  BY <1>1, <1>2, <1>3, <1>4, <1>5, <1>6, <1>7, <1>8 DEF States, Discovering

\* dhcp_fine_tmr.
LEMMA FineTmrSound ==
  ASSUME NEW n, NEW sent \in BOOLEAN, Sound(n)
  PROVE  Sound(FineTmr(n, sent)) /\ (Timed(n) => Timed(FineTmr(n, sent)))
<1>1. n \in Netif /\ n.rt \in 0 .. MaxWait
  BY DEF Sound, Netif
<1>2. ASSUME n.rt > 0
      PROVE  LET o == [n EXCEPT !.rt = n.rt - 1]
             IN  Sound(o) /\ o.state = n.state /\ o.rt = n.rt - 1
  <2>1. n.rt - 1 \in 0 .. MaxWait
    BY <1>1, <1>2, DhcpAssumption
  <2>2. [n EXCEPT !.rt = n.rt - 1] \in Netif
    BY <1>1, <2>1 DEF Netif
  <2>3. QED  BY <1>1, <1>2, <2>2 DEF Sound, Netif
<1>3. CASE n.rt > 1
  <2>1. FineTmr(n, sent) = [n EXCEPT !.rt = n.rt - 1]
    BY <1>3 DEF FineTmr
  <2>2. QED  BY <1>1, <1>2, <1>3, <2>1 DEF Timed
<1>4. CASE n.rt = 1
  <2>1. FineTmr(n, sent) = Timeout([n EXCEPT !.rt = 0], sent)
    BY <1>4 DEF FineTmr
  <2>2. Sound([n EXCEPT !.rt = 0])
    BY <1>2, <1>4
  <2>3. QED  BY <2>1, <2>2, TimeoutSound
<1>5. CASE n.rt = 0
  BY <1>5 DEF FineTmr
<1>6. QED  BY <1>1, <1>3, <1>4, <1>5

\* dhcp_coarse_tmr.
LEMMA CoarseTmrSound ==
  ASSUME NEW n, NEW sent \in BOOLEAN, Sound(n)
  PROVE  Sound(CoarseTmr(n, sent)) /\ (Timed(n) => Timed(CoarseTmr(n, sent)))
<1> DEFINE Less(t) == (t - 1) % TimerMod
           m == [n EXCEPT !.t2 = Less(n.t2)]
           o == [m EXCEPT !.t1 = Less(m.t1)]
<1>1. n \in Netif /\ n.t1 \in Int /\ n.t2 \in Int
  BY DEF Sound, Netif
<1>2. \A t \in Int : Less(t) \in 0 .. (TimerMod - 1)
  BY DhcpAssumption
<1> HIDE DEF Less
<1>3. /\ m \in Netif /\ m.state = n.state /\ m.rt = n.rt /\ m.asked = n.asked /\ m.ip = n.ip
      /\ m.offered = n.offered /\ m.up = n.up /\ m.tries = n.tries /\ m.t1 = n.t1
  BY <1>1, <1>2 DEF Netif
<1>4. CoarseTmr(n, sent) = CASE n.state = "NONE" -> n
                             [] n.state # "NONE" /\ n.t2 = 1 -> T2Timeout(m, sent)
                             [] OTHER -> IF n.t1 = 1 THEN T1Timeout(o, sent) ELSE o
  BY <1>3 DEF CoarseTmr, Less
<1> HIDE DEF m
<1>5. /\ o \in Netif /\ o.state = n.state /\ o.rt = n.rt /\ o.asked = n.asked /\ o.ip = n.ip
      /\ o.offered = n.offered /\ o.up = n.up /\ o.tries = n.tries
  BY <1>1, <1>2, <1>3 DEF Netif
<1> HIDE DEF o
<1>6. Sound(m) /\ Sound(o) /\ (Timed(n) => Timed(m) /\ Timed(o))
  BY <1>3, <1>5 DEF Sound, Timed
<1>7. Sound(T2Timeout(m, sent)) /\ (Timed(n) => Timed(T2Timeout(m, sent)))
  <2>1. CASE MayRenew(m)
    <3>1. MayRebind(m)
      BY <2>1 DEF MayRebind
    <3>2. Sound(Rebind(m, sent)) /\ Timed(Rebind(m, sent))
      BY <1>6, <3>1, RebindSound
    <3>3. QED  BY <2>1, <3>2 DEF T2Timeout
  <2>2. CASE ~MayRenew(m)
    BY <1>6, <2>2 DEF T2Timeout
  <2>3. QED  BY <2>1, <2>2
<1>8. Sound(T1Timeout(o, sent)) /\ (Timed(n) => Timed(T1Timeout(o, sent)))
  BY <1>6, RenewSound DEF T1Timeout
<1>9. QED  BY <1>4, <1>6, <1>7, <1>8

\* dhcp_start, on an interface without an address, whether it finds memory or not.
LEMMA StartSound ==
  ASSUME NEW n \in Netif, n.ip = NoAddr, Sound(n), Timed(n), NEW m \in DhcpStart(n)
  PROVE  Sound(m) /\ Timed(m)
<1> DEFINE z == Zeroed(n)
           d == Discover(z, FALSE)
           t == SetState(d, "OFF")
           e == [t EXCEPT !.asked = {}]
<1>1. z \in Netif /\ z.ip = NoAddr /\ z.state = "OFF" /\ z.rt = 0 /\ z.asked = {}
  <2>1. /\ 0 \in 0 .. (TriesMod - 1) /\ 0 \in 0 .. MaxWait
        /\ 0 \in 0 .. (TimerMod - 1) /\ 0 \in 0 .. 9
    BY DhcpAssumption
  <2>2. z \in Netif
    BY <2>1 DEF Netif, Zeroed, States
  <2>3. z.ip = NoAddr /\ z.state = "OFF" /\ z.rt = 0 /\ z.asked = {}
    BY DEF Netif, Zeroed
  <2>4. QED  BY <2>2, <2>3
<1> HIDE DEF z
<1>2. Sound(z) /\ Timed(z)
  BY <1>1, DhcpAssumption DEF Sound, Timed
<1>3. Sound(Discover(z, TRUE)) /\ Timed(Discover(z, TRUE))
  BY <1>1, DiscoverSound
<1>4. Sound(e) /\ Timed(e)
  <2>1. d \in Netif /\ d.state = "SELECTING" /\ d.ip = NoAddr
    <3>1. Sound(d) /\ d.state = "SELECTING"
      BY <1>1, DiscoverSound
    <3> HIDE DEF d
    <3>2. QED  BY <3>1, NotHeldIsNoAddr
  <2> HIDE DEF d
  <2>2. t = [d EXCEPT !.state = "OFF", !.tries = 0, !.rt = 0]
    BY <2>1 DEF SetState
  <2>3. t \in Netif /\ t.state = "OFF" /\ t.ip = NoAddr /\ t.rt = 0
    <3>1. "OFF" \in States
      BY DEF States
    <3>2. t \in Netif /\ t.state = "OFF" /\ t.ip = d.ip
      BY <2>1, <3>1, SetStateDoes
    <3>3. t.rt = 0
      <4> HIDE DEF t
      <4>1. QED  BY <2>1, <2>2 DEF Netif
    <3> HIDE DEF t
    <3>4. QED  BY <2>1, <3>2, <3>3
  <2> HIDE DEF t
  <2>4. e \in Netif /\ e.state = "OFF" /\ e.ip = NoAddr /\ e.rt = 0 /\ e.asked = {}
    BY <2>3 DEF Netif
  <2> HIDE DEF e
  <2>5. QED  BY <2>4, DhcpAssumption DEF Sound, Timed
<1>5. m = Discover(z, TRUE) \/ m = e \/ m = z \/ m = n
  BY DEF DhcpStart, Stop, z
<1>6. QED  BY <1>2, <1>3, <1>4, <1>5

\* The interface netif_add leaves.
LEMMA AddedSound == Added \in Netif /\ Added.ip = NoAddr /\ Sound(Added) /\ Timed(Added)
<1>1. Added \in Netif
  BY DhcpAssumption DEF Added, Netif, States
<1>2. Added.ip = NoAddr /\ Added.state = "NONE" /\ Added.rt = 0 /\ Added.asked = {}
  BY DEF Added
<1>3. QED  BY <1>1, <1>2, DhcpAssumption DEF Sound, Timed

-----------------------------------------------------------------------------

\* The inductive invariant of the specification.
ClientInv == Sound(netif) /\ server \in {"up", "down"}

\* A started client.
LEMMA InitSound == Init => ClientInv /\ Timed(netif)
  BY AddedSound, StartSound DEF Init, ClientInv

\* The history field does not matter.
LEMMA AnsweredSound ==
  ClientInv => /\ Sound(Answered) /\ Answered.state = netif.state /\ Answered.ip = netif.ip
               /\ Answered.offered = netif.offered
<1> SUFFICES ASSUME ClientInv
             PROVE  /\ Sound(Answered) /\ Answered.state = netif.state
                    /\ Answered.ip = netif.ip /\ Answered.offered = netif.offered
  OBVIOUS
<1> DEFINE a == Answered
<1>1. netif \in Netif /\ Sound(netif)
  BY DEF ClientInv, Sound
<1>2. /\ a \in Netif /\ a.state = netif.state /\ a.rt = netif.rt /\ a.asked = netif.asked
      /\ a.ip = netif.ip /\ a.offered = netif.offered /\ a.up = netif.up
      /\ a.tries = netif.tries
  BY <1>1 DEF Netif, Answered
<1> HIDE DEF a
<1>3. Sound(a)
  BY <1>1, <1>2 DEF Sound
<1>4. QED  BY <1>2, <1>3 DEF a

\* An offer is taken up by dhcp_select.
LEMMA OfferSound == ClientInv /\ RecvOffer => Sound(netif') /\ Timed(netif')
<1> SUFFICES ASSUME ClientInv, RecvOffer PROVE Sound(netif') /\ Timed(netif')
  OBVIOUS
<1>1. PICK a \in Addr, sent \in BOOLEAN :
        netif' = Select([Answered EXCEPT !.rt = 0, !.offered = a], sent)
  BY DEF RecvOffer
<1> DEFINE o == [Answered EXCEPT !.rt = 0, !.offered = a]
<1>2. Answered \in Netif /\ Answered.state = "SELECTING" /\ Answered.ip = NoAddr
  BY AnsweredSound, NotHeldIsNoAddr DEF RecvOffer
<1>3. o \in Netif /\ o.state = "SELECTING" /\ o.ip = NoAddr /\ o.offered \in Addr
  <2>1. 0 \in 0 .. MaxWait
    BY DhcpAssumption
  <2>2. QED  BY <1>2, <2>1 DEF Netif
<1> HIDE DEF o
<1>4. Sound(Select(o, sent)) /\ Timed(Select(o, sent))
  BY <1>3, SelectSound
<1>5. QED  BY <1>1, <1>4 DEF o

\* An offer without a server leaves the client sound, but without its timeout.
LEMMA BareOfferSound == ClientInv /\ RecvBareOffer => Sound(netif')
<1> SUFFICES ASSUME ClientInv, RecvBareOffer PROVE Sound(netif')
  OBVIOUS
<1>1. netif \in Netif /\ netif.ip = NoAddr /\ netif.state = "SELECTING"
  BY NotHeldIsNoAddr DEF ClientInv, RecvBareOffer
<1>2. netif' \in Netif /\ netif'.ip = NoAddr /\ netif'.state = "SELECTING"
  BY <1>1, DhcpAssumption DEF RecvBareOffer, Netif
<1>3. QED  BY <1>2, DhcpAssumption DEF Sound

\* A first ACK has the address checked; a later one is bound.
LEMMA AckSound == ClientInv /\ RecvAck => Sound(netif') /\ Timed(netif')
<1> SUFFICES ASSUME ClientInv, RecvAck PROVE Sound(netif') /\ Timed(netif')
  OBVIOUS
<1>1. CASE /\ netif.state = "REQUESTING"
           /\ \E a \in Addr, l \in Leases :
                netif' = Check([Answered EXCEPT !.offered = a, !.lease = l])
  <2>1. PICK a \in Addr, l \in Leases :
          netif' = Check([Answered EXCEPT !.offered = a, !.lease = l])
    BY <1>1
  <2> DEFINE o == [Answered EXCEPT !.offered = a, !.lease = l]
  <2>2. Answered \in Netif /\ Answered.state = "REQUESTING" /\ Answered.ip = NoAddr
    BY <1>1, AnsweredSound, NotHeldIsNoAddr
  <2>3. o \in Netif /\ o.state = "REQUESTING" /\ o.ip = NoAddr /\ o.offered \in Addr
    BY <2>2 DEF Netif
  <2> HIDE DEF o
  <2>4. Sound(Check(o)) /\ Timed(Check(o))
    BY <2>3, CheckSound
  <2>5. QED  BY <2>1, <2>4 DEF o
<1>2. CASE netif.state \in {"RENEWING", "REBINDING"} /\ netif' = Bind(Answered)
  <2>1. Answered \in Netif /\ Answered.offered \in Addr /\ Answered.state # "BOUND"
    BY <1>2, AnsweredSound DEF Sound
  <2>2. QED  BY <1>2, <2>1, BindSound
<1>3. QED  BY <1>1, <1>2 DEF RecvAck

\* Every step keeps the invariant, and every step but an offer without a server keeps
\* the timeout.
LEMMA NextSound ==
  ClientInv /\ [Next]_vars =>
    ClientInv' /\ (Timed(netif) /\ ~RecvBareOffer => Timed(netif'))
<1> SUFFICES ASSUME ClientInv, [Next]_vars
             PROVE  /\ Sound(netif') /\ server' \in {"up", "down"}
                    /\ Timed(netif) /\ ~RecvBareOffer => Timed(netif')
  BY DEF ClientInv, Sound
<1>1. CASE FineTick
  BY <1>1, FineTmrSound DEF FineTick, ClientInv
<1>2. CASE CoarseTick
  BY <1>2, CoarseTmrSound DEF CoarseTick, ClientInv
<1>3. CASE Receive
  <2>1. server' \in {"up", "down"}
    BY <1>3 DEF Receive, ClientInv
  <2>2. CASE RecvOffer
    BY <2>1, <2>2, OfferSound
  <2>3. CASE RecvBareOffer
    BY <2>1, <2>3, BareOfferSound
  <2>4. CASE RecvAck
    BY <2>1, <2>4, AckSound
  <2>5. CASE RecvNak
    BY <2>1, <2>5, AnsweredSound, NakSound DEF RecvNak, Sound
  <2>6. CASE ArpReply
    BY <2>1, <2>6, NotHeldIsNoAddr, DeclineSound DEF ArpReply, ClientInv
  <2>7. QED  BY <1>3, <2>2, <2>3, <2>4, <2>5, <2>6 DEF Receive
<1>4. CASE ServerDies
  BY <1>4 DEF ServerDies, ClientInv
<1>5. CASE UNCHANGED vars
  BY <1>5 DEF vars, ClientInv
<1>6. QED  BY <1>1, <1>2, <1>3, <1>4, <1>5 DEF Next

\* The inductive invariant holds.
THEOREM ClientSound == Spec => []ClientInv
<1>1. Init => ClientInv
  BY InitSound
<1>2. ClientInv /\ [Next]_vars => ClientInv'
  BY NextSound
<1>3. QED  BY <1>1, <1>2, PTL DEF Spec

\* The client's fields keep their types and widths, and a client that is off waits for
\* nothing.
THEOREM ClientType == Spec => []TypeOK
<1>1. ClientInv => TypeOK
  BY DEF ClientInv, Sound, TypeOK
<1>2. QED  BY <1>1, ClientSound, PTL

\* dhcp_start's promise: an interface that has an address is up, and its client is bound
\* to that address or extends it; and a bound client has configured the interface.
THEOREM ClientLeaseIsMaintained == Spec => []LeaseIsMaintained
<1>1. ClientInv => LeaseIsMaintained
  BY DEF ClientInv, Sound, LeaseIsMaintained
<1>2. QED  BY <1>1, ClientSound, PTL

\* dhcp_timeout gives requests up after six, nine and two tries.
THEOREM ClientRetriesAreBounded == Spec => []RetriesAreBounded
<1>1. ClientInv => RetriesAreBounded
  BY DEF ClientInv, Sound, RetriesAreBounded
<1>2. QED  BY <1>1, ClientSound, PTL

\* If every offer names its server (dhcp_handle_offer), the client never waits for an
\* answer, a probe or the end of a back-off without a timeout running.
THEOREM ClientWaitingIsTimed ==
  ASSUME "bare_offer" \notin Replies
  PROVE  Spec => []WaitingIsTimed
<1> DEFINE Inv == ClientInv /\ WaitingIsTimed
<1>1. Timed(netif) <=> WaitingIsTimed
  BY DEF Timed, WaitingIsTimed
<1>2. Timed(netif') <=> WaitingIsTimed'
  BY DEF Timed, WaitingIsTimed
<1>3. Init => Inv
  BY <1>1, InitSound
<1>4. ~RecvBareOffer
  BY DEF RecvBareOffer
<1>5. Inv /\ [Next]_vars => Inv'
  BY <1>1, <1>2, <1>4, NextSound
<1>6. QED  BY <1>3, <1>5, PTL DEF Spec

-----------------------------------------------------------------------------
(* FallbackIsJustified.  The watch tests tries, and the promise is about   *)
(* the requests nobody answered: tries is reset more often than they are,  *)
(* and never counts what they do not.  This goes through every function    *)
(* once more, because it also holds of an interface with the static        *)
(* address.                                                                *)

\* Netif, with the static address too.
Watched ==
  [ip : Addr \cup {NoAddr, Static}, up : BOOLEAN, state : States,
   tries : 0 .. (TriesMod - 1), rt : 0 .. MaxWait,
   t1 : 0 .. (TimerMod - 1), t2 : 0 .. (TimerMod - 1),
   offered : Addr \cup {NoAddr}, lease : Leases \cup {NoLease},
   asked : SUBSET {"discover", "request", "decline", "release"},
   unanswered : 0 .. 9]

\* As long as unanswered is not cut, it counts what tries counts.
Counted(n) == n.unanswered < 9 => n.tries <= n.unanswered

\* A function of dhcp.c leads from n to m: it answers nothing.
Leads(n, m) ==
  /\ m \in Watched
  /\ m.unanswered >= n.unanswered
  /\ Counted(n) => Counted(m)
  /\ n.state # "NONE" => m.state # "NONE"

LEMMA LeadsStays == ASSUME NEW n \in Watched PROVE Leads(n, n)
  BY DEF Leads, Watched

LEMMA LeadsOn ==
  ASSUME NEW n \in Watched, NEW m, NEW o, Leads(n, m), Leads(m, o)
  PROVE  Leads(n, o)
  BY DEF Leads, Watched

\* dhcp_set_state: a new state starts to count.
LEMMA SetStateLeads ==
  ASSUME NEW n \in Watched, NEW s \in States \ {"NONE"}
  PROVE  LET m == SetState(n, s)
         IN  /\ Leads(n, m) /\ m.state = s /\ m.ip = n.ip
             /\ n.state # s => m.tries = 0 /\ Counted(m)
<1>1. CASE n.state = s
  BY <1>1, LeadsStays DEF SetState
<1>2. CASE n.state # s
  <2> DEFINE m == [n EXCEPT !.state = s, !.tries = 0, !.rt = 0]
  <2>1. SetState(n, s) = m
    BY <1>2 DEF SetState
  <2>2. 0 \in 0 .. (TriesMod - 1) /\ 0 \in 0 .. MaxWait
    BY DhcpAssumption
  <2>3. m \in Watched /\ m.state = s /\ m.ip = n.ip /\ m.tries = 0 /\ m.unanswered = n.unanswered
    BY <2>2 DEF Watched
  <2> HIDE DEF m
  <2>4. QED  BY <1>2, <2>1, <2>3 DEF Leads, Counted, Watched
<1>3. QED  BY <1>1, <1>2

\* A message leads nowhere.
LEMMA SendLeads ==
  ASSUME NEW n \in Watched, NEW sent \in BOOLEAN,
         NEW kind \in {"discover", "request", "decline", "release"}
  PROVE  LET m == Send(n, kind, sent)
         IN  /\ Leads(n, m) /\ m.state = n.state /\ m.ip = n.ip /\ m.tries = n.tries
             /\ m.unanswered = n.unanswered
<1>1. CASE sent
  <2> DEFINE q == IF n.tries = 0 THEN {kind} ELSE n.asked \cup {kind}
             m == [n EXCEPT !.asked = q]
  <2>1. Send(n, kind, sent) = m
    BY <1>1 DEF Send
  <2>2. q \in SUBSET {"discover", "request", "decline", "release"}
    BY DEF Watched
  <2> HIDE DEF q
  <2>3. /\ m \in Watched /\ m.state = n.state /\ m.ip = n.ip /\ m.tries = n.tries
        /\ m.unanswered = n.unanswered
    BY <2>2 DEF Watched
  <2> HIDE DEF m
  <2>4. QED  BY <2>1, <2>3 DEF Leads, Counted, Watched
<1>2. CASE ~sent
  BY <1>2, LeadsStays DEF Send
<1>3. QED  BY <1>1, <1>2

\* tries++ with its new timeout.
LEMMA TriedLeads ==
  ASSUME NEW n \in Watched, NEW ms \in Nat
  PROVE  LET m == Tried(n, ms)
         IN  /\ Leads(n, m) /\ m.state = n.state /\ m.ip = n.ip
             /\ n.tries = 0 => m.tries = 1 /\ Counted(m)
<1> DEFINE u == IF n.unanswered < 9 THEN n.unanswered + 1 ELSE n.unanswered
           m == [n EXCEPT !.tries = Tries(n), !.rt = FineTicks(ms), !.unanswered = u]
<1>1. Tried(n, ms) = m
  BY DEF Tried
<1>2. n.tries + 1 \in Nat /\ n.tries + 1 <= TriesMod /\ TriesMod \in Nat \ {0}
  BY DhcpAssumption DEF Watched
<1>3. /\ Tries(n) \in 0 .. (TriesMod - 1) /\ Tries(n) <= n.tries + 1
      /\ n.tries = 0 => Tries(n) = 1
  <2>1. (n.tries + 1) % TriesMod \in 0 .. (TriesMod - 1)
    BY <1>2, Modulo
  <2>2. CASE n.tries + 1 < TriesMod
    <3>1. (n.tries + 1) % TriesMod = n.tries + 1
      BY <1>2, <2>2, Modulo
    <3>2. QED  BY <1>2, <2>1, <3>1 DEF Tries, Watched
  <2>3. CASE n.tries + 1 = TriesMod
    BY <1>2, <2>1, <2>3, DhcpAssumption DEF Tries, Watched
  <2>4. QED  BY <1>2, <2>2, <2>3
<1>4. FineTicks(ms) \in 0 .. MaxWait
  BY FineTicksBounded
<1>5. /\ u \in 0 .. 9 /\ u >= n.unanswered /\ u > 0
      /\ u < 9 => u = n.unanswered + 1 /\ n.unanswered < 9
  BY DEF Watched
<1> HIDE DEF u
<1>6. /\ m \in Watched /\ m.state = n.state /\ m.ip = n.ip /\ m.tries = Tries(n)
      /\ m.unanswered = u
  BY <1>3, <1>4, <1>5 DEF Watched
<1> HIDE DEF m
<1>7. n.tries \in Nat /\ n.unanswered \in Nat
  BY DEF Watched
<1>8. Leads(n, m)
  BY <1>3, <1>5, <1>6, <1>7 DEF Leads, Counted
<1>9. n.tries = 0 => m.tries = 1 /\ Counted(m)
  BY <1>3, <1>5, <1>6 DEF Counted
<1>10. QED  BY <1>1, <1>6, <1>8, <1>9

\* dhcp_set_state, a message and a timeout.
LEMMA RequestLeads ==
  ASSUME NEW n \in Watched, NEW s \in States \ {"NONE"}, NEW sent \in BOOLEAN,
         NEW kind \in {"discover", "request", "decline", "release"}
  PROVE  LET b == Send(SetState(n, s), kind, sent)
         IN  /\ Tries(b) \in Nat
             /\ \A ms \in Nat : LET m == Tried(b, ms)
                                IN  /\ Leads(n, m) /\ m.state = s /\ m.ip = n.ip
                                    /\ n.state # s => m.tries = 1 /\ Counted(m)
<1> DEFINE a == SetState(n, s)
           b == Send(a, kind, sent)
<1>1. Leads(n, a) /\ a.state = s /\ a.ip = n.ip /\ (n.state # s => a.tries = 0)
  BY SetStateLeads
<1> HIDE DEF a
<1>2. Leads(a, b) /\ b.state = a.state /\ b.ip = a.ip /\ b.tries = a.tries
  <2>1. a \in Watched
    BY <1>1 DEF Leads
  <2>2. QED  BY <2>1, SendLeads
<1> HIDE DEF b
<1>3. b \in Watched /\ Leads(n, b)
  BY <1>1, <1>2, LeadsOn DEF Leads
<1>4. Tries(b) \in Nat
  <2>1. b.tries + 1 \in Nat /\ TriesMod \in Nat \ {0}
    BY <1>3, DhcpAssumption DEF Watched
  <2>2. QED  BY <2>1, Modulo DEF Tries
<1>5. ASSUME NEW ms \in Nat
      PROVE  LET m == Tried(b, ms)
             IN  /\ Leads(n, m) /\ m.state = s /\ m.ip = n.ip
                 /\ n.state # s => m.tries = 1 /\ Counted(m)
  <2> DEFINE m == Tried(b, ms)
  <2>1. /\ Leads(b, m) /\ m.state = b.state /\ m.ip = b.ip
        /\ b.tries = 0 => m.tries = 1 /\ Counted(m)
    BY <1>3, TriedLeads
  <2> HIDE DEF m
  <2>2. Leads(n, m)
    BY <1>3, <2>1, LeadsOn
  <2>3. QED  BY <1>1, <1>2, <2>1, <2>2 DEF m
<1>6. QED  BY <1>4, <1>5 DEF a, b

\* The functions that make requests.
LEMMA RequestsLead ==
  ASSUME NEW n \in Watched, NEW sent \in BOOLEAN
  PROVE  /\ Leads(n, Select(n, sent)) /\ Select(n, sent).ip = n.ip
         /\ n.state # "REQUESTING" => Counted(Select(n, sent))
         /\ Leads(n, Check(n)) /\ Check(n).ip = n.ip
         /\ n.state # "CHECKING" => Counted(Check(n))
         /\ Leads(n, Decline(n, sent))
         /\ Leads(n, Renew(n, sent)) /\ Renew(n, sent).ip = n.ip
         /\ Leads(n, Rebind(n, sent)) /\ Rebind(n, sent).ip = n.ip
<1>1. /\ Leads(n, Select(n, sent)) /\ Select(n, sent).ip = n.ip
      /\ n.state # "REQUESTING" => Counted(Select(n, sent))
  <2> DEFINE b == Send(SetState(n, "REQUESTING"), "request", sent)
  <2>1. Select(n, sent) = Tried(b, BackOff(Tries(b)))
    BY DEF Select
  <2>2. /\ Tries(b) \in Nat
        /\ \A ms \in Nat : LET m == Tried(b, ms)
                           IN  /\ Leads(n, m) /\ m.ip = n.ip
                               /\ n.state # "REQUESTING" => Counted(m)
    BY RequestLeads DEF States
  <2> HIDE DEF b
  <2>3. BackOff(Tries(b)) \in Nat
    BY <2>2, Waits
  <2>4. QED  BY <2>1, <2>2, <2>3
<1>2. /\ Leads(n, Check(n)) /\ Check(n).ip = n.ip
      /\ n.state # "CHECKING" => Counted(Check(n))
  <2> DEFINE a == SetState(n, "CHECKING")
             m == Tried(a, CheckWait)
  <2>1. Leads(n, a) /\ a.ip = n.ip /\ (n.state # "CHECKING" => a.tries = 0)
    BY SetStateLeads DEF States
  <2>2. Check(n) = m
    BY DEF Check
  <2> HIDE DEF a
  <2>3. a \in Watched /\ CheckWait \in Nat
    BY <2>1 DEF Leads, CheckWait
  <2>4. Leads(a, m) /\ m.ip = a.ip /\ (a.tries = 0 => Counted(m))
    BY <2>3, TriedLeads
  <2> HIDE DEF m
  <2>5. Leads(n, m)
    BY <2>1, <2>3, <2>4, LeadsOn
  <2>6. QED  BY <2>1, <2>2, <2>4, <2>5
<1>3. Leads(n, Decline(n, sent))
  <2> DEFINE b == Send(SetState(n, "BACKING_OFF"), "decline", sent)
  <2>1. Decline(n, sent) = Tried(b, DeclineWait)
    BY DEF Decline
  <2>2. \A ms \in Nat : Leads(n, Tried(b, ms))
    BY RequestLeads DEF States
  <2> HIDE DEF b
  <2>3. DeclineWait \in Nat
    BY DEF DeclineWait
  <2>4. QED  BY <2>1, <2>2, <2>3
<1>4. Leads(n, Renew(n, sent)) /\ Renew(n, sent).ip = n.ip
  <2> DEFINE b == Send(SetState(n, "RENEWING"), "request", sent)
  <2>1. Renew(n, sent) = Tried(b, RenewWait(Tries(b)))
    BY DEF Renew
  <2>2. /\ Tries(b) \in Nat
        /\ \A ms \in Nat : LET m == Tried(b, ms) IN Leads(n, m) /\ m.ip = n.ip
    BY RequestLeads DEF States
  <2> HIDE DEF b
  <2>3. RenewWait(Tries(b)) \in Nat
    BY <2>2, Waits
  <2>4. QED  BY <2>1, <2>2, <2>3
<1>5. Leads(n, Rebind(n, sent)) /\ Rebind(n, sent).ip = n.ip
  <2> DEFINE b == Send(SetState(n, "REBINDING"), "request", sent)
  <2>1. Rebind(n, sent) = Tried(b, RebindWait(Tries(b)))
    BY DEF Rebind
  <2>2. /\ Tries(b) \in Nat
        /\ \A ms \in Nat : LET m == Tried(b, ms) IN Leads(n, m) /\ m.ip = n.ip
    BY RequestLeads DEF States
  <2> HIDE DEF b
  <2>3. RebindWait(Tries(b)) \in Nat
    BY <2>2, Waits
  <2>4. QED  BY <2>1, <2>2, <2>3
<1>6. QED  BY <1>1, <1>2, <1>3, <1>4, <1>5

\* dhcp_discover.
LEMMA DiscoverLeads ==
  ASSUME NEW n \in Watched, NEW sent \in BOOLEAN
  PROVE  LET m == Discover(n, sent)
         IN  /\ Leads(n, m) /\ m.ip = n.ip /\ m.state = "SELECTING"
             /\ n.state # "SELECTING" => m.tries = 1 /\ Counted(m)
<1> DEFINE o == [n EXCEPT !.offered = NoAddr]
           b == Send(SetState(o, "SELECTING"), "discover", sent)
           m == Discover(n, sent)
<1>1. /\ o \in Watched /\ o.ip = n.ip /\ o.state = n.state
      /\ o.tries = n.tries /\ o.unanswered = n.unanswered
  BY DEF Watched
<1>2. m = Tried(b, BackOff(Tries(b)))
  BY DEF Discover
<1> HIDE DEF o
<1>3. /\ Tries(b) \in Nat
      /\ \A ms \in Nat : LET k == Tried(b, ms)
                         IN  /\ Leads(o, k) /\ k.state = "SELECTING" /\ k.ip = o.ip
                             /\ o.state # "SELECTING" => k.tries = 1 /\ Counted(k)
  BY <1>1, RequestLeads DEF States
<1> HIDE DEF b, m
<1>4. BackOff(Tries(b)) \in Nat
  BY <1>3, Waits
<1>5. /\ Leads(o, m) /\ m.state = "SELECTING" /\ m.ip = o.ip
      /\ o.state # "SELECTING" => m.tries = 1 /\ Counted(m)
  BY <1>2, <1>3, <1>4
<1>6. Leads(n, m)
  BY <1>1, <1>5 DEF Leads, Counted
<1>7. QED  BY <1>1, <1>5, <1>6 DEF m

\* The interface loses its address.
LEMMA UnconfigureLeads ==
  ASSUME NEW n \in Watched
  PROVE  Leads(n, Unconfigure(n)) /\ Unconfigure(n).state = n.state
<1> DEFINE m == Unconfigure(n)
<1>1. m \in Watched /\ m.state = n.state /\ m.tries = n.tries /\ m.unanswered = n.unanswered
  BY DEF Unconfigure, Watched
<1> HIDE DEF m
<1>2. Leads(n, m)
  BY <1>1 DEF Leads, Counted, Watched
<1>3. QED  BY <1>1, <1>2 DEF m

\* dhcp_release.
LEMMA ReleaseLeads ==
  ASSUME NEW n \in Watched, NEW sent \in BOOLEAN
  PROVE  Leads(n, Release(n, sent)) /\ Release(n, sent).state = "OFF"
<1> DEFINE b == Send(SetState(n, "OFF"), "release", sent)
           a == Tried(b, RebindWait(Tries(b)))
           o == [a EXCEPT !.offered = NoAddr, !.lease = NoLease]
<1>1. Release(n, sent) = Unconfigure(o)
  BY DEF Release
<1>2. /\ Tries(b) \in Nat
      /\ \A ms \in Nat : LET m == Tried(b, ms) IN Leads(n, m) /\ m.state = "OFF"
  BY RequestLeads DEF States
<1> HIDE DEF b
<1>3. RebindWait(Tries(b)) \in Nat
  BY <1>2, Waits
<1>4. Leads(n, a) /\ a.state = "OFF"
  BY <1>2, <1>3
<1> HIDE DEF a
<1>5. a \in Watched
  BY <1>4 DEF Leads
<1>6. o \in Watched /\ o.state = "OFF" /\ o.tries = a.tries /\ o.unanswered = a.unanswered
  BY <1>4, <1>5 DEF Watched
<1> HIDE DEF o
<1>7. Leads(n, o)
  BY <1>4, <1>6 DEF Leads, Counted
<1>8. Leads(o, Unconfigure(o)) /\ Unconfigure(o).state = "OFF"
  BY <1>6, UnconfigureLeads
<1>9. QED  BY <1>1, <1>7, <1>8, LeadsOn

\* dhcp_handle_nak starts to count.
LEMMA NakLeads ==
  ASSUME NEW n \in Watched, NEW sent \in BOOLEAN
  PROVE  Leads(n, HandleNak(n, sent)) /\ Counted(HandleNak(n, sent))
<1> DEFINE u == Unconfigure(n)
           m == SetState(u, "BACKING_OFF")
<1>1. Leads(n, u)
  BY UnconfigureLeads
<1> HIDE DEF u
<1>2. u \in Watched
  BY <1>1 DEF Leads
<1>3. Leads(u, m) /\ m.state = "BACKING_OFF"
  BY <1>2, SetStateLeads DEF States
<1>4. HandleNak(n, sent) = Discover(m, sent)
  BY DEF HandleNak, u
<1> HIDE DEF m
<1>5. Leads(n, m) /\ m \in Watched
  <2>1. Leads(n, m)
    BY <1>1, <1>3, LeadsOn
  <2>2. QED  BY <2>1 DEF Leads
<1>6. Leads(m, Discover(m, sent)) /\ Counted(Discover(m, sent))
  BY <1>3, <1>5, DiscoverLeads
<1>7. QED  BY <1>4, <1>5, <1>6, LeadsOn

\* dhcp_bind starts to count.
LEMMA BindLeads ==
  ASSUME NEW n \in Watched
  PROVE  LET m == Bind(n)
         IN  Leads(n, m) /\ (n.state # "BOUND" => m.tries = 0 /\ Counted(m))
<1> DEFINE t1 == IF n.lease.t1 = Forever THEN n.t1 ELSE CoarseTicks(n.lease.t1)
           t2 == IF n.lease.t2 = Forever THEN n.t2 ELSE CoarseTicks(n.lease.t2)
           u1 == IF t1 >= t2 /\ t2 > 0 THEN 0 ELSE t1
           b == [n EXCEPT !.t1 = u1, !.t2 = t2, !.ip = n.offered, !.up = TRUE]
           m == SetState(b, "BOUND")
<1>1. Bind(n) = m
  BY DEF Bind
<1>2. n.lease.t1 \in Nat \cup {Forever} /\ n.lease.t2 \in Nat \cup {Forever}
  BY DhcpAssumption DEF Watched, NoLease
<1>3. n.t1 \in 0 .. (TimerMod - 1) /\ n.t2 \in 0 .. (TimerMod - 1) /\ 0 \in 0 .. (TimerMod - 1)
  BY DhcpAssumption DEF Watched
<1>4. t1 \in 0 .. (TimerMod - 1) /\ t2 \in 0 .. (TimerMod - 1)
  <2>1. \A secs \in Nat : CoarseTicks(secs) \in 0 .. (TimerMod - 1)
    BY CoarseTicksBounded
  <2>2. QED  BY <1>2, <1>3, <2>1
<1> HIDE DEF t1, t2
<1>5. u1 \in 0 .. (TimerMod - 1)
  BY <1>3, <1>4
<1> HIDE DEF u1
<1>6. /\ b \in Watched /\ b.state = n.state /\ b.tries = n.tries
      /\ b.unanswered = n.unanswered
  BY <1>4, <1>5 DEF Watched
<1> HIDE DEF b
<1>7. Leads(b, m) /\ (b.state # "BOUND" => m.tries = 0 /\ Counted(m))
  BY <1>6, SetStateLeads DEF States
<1> HIDE DEF m
<1>8. Leads(n, m)
  BY <1>6, <1>7 DEF Leads, Counted
<1>9. QED  BY <1>1, <1>6, <1>7, <1>8

-----------------------------------------------------------------------------

\* dhcp_timeout, which takes or gives an address only where it starts to count.
LEMMA TimeoutLeads ==
  ASSUME NEW n \in Watched, NEW sent \in BOOLEAN
  PROVE  LET m == Timeout(n, sent)
         IN  Leads(n, m) /\ (m.ip = n.ip \/ m.tries <= 1)
<1>1. CASE GivenUp(n)
  <2> DEFINE r == Release(n, sent)
  <2>1. Timeout(n, sent) = Discover(r, sent)
    BY <1>1 DEF Timeout
  <2>2. Leads(n, r) /\ r.state = "OFF"
    BY ReleaseLeads
  <2> HIDE DEF r
  <2>3. r \in Watched
    BY <2>2 DEF Leads
  <2>4. Leads(r, Discover(r, sent)) /\ Discover(r, sent).tries = 1
    BY <2>2, <2>3, DiscoverLeads
  <2>5. Leads(n, Discover(r, sent))
    BY <2>2, <2>4, LeadsOn
  <2>6. QED  BY <2>1, <2>4, <2>5
<1>2. CASE ~GivenUp(n) /\ n.state \in Discovering
  <2>1. Timeout(n, sent) = Discover(n, sent)
    BY <1>2 DEF Timeout, Discovering
  <2>2. QED  BY <2>1, DiscoverLeads
<1>3. CASE ~GivenUp(n) /\ n.state = "REQUESTING"
  <2>1. Timeout(n, sent) = Select(n, sent)
    BY <1>3 DEF Timeout, Discovering
  <2>2. QED  BY <2>1, RequestsLead
<1>4. CASE ~GivenUp(n) /\ n.state = "CHECKING"
  <2>1. Timeout(n, sent) = IF n.tries <= 1 THEN Check(n) ELSE Bind(n)
    BY <1>4 DEF Timeout, Discovering
  <2>2. Leads(n, Check(n)) /\ Check(n).ip = n.ip
    BY RequestsLead
  <2>3. Leads(n, Bind(n)) /\ Bind(n).tries = 0
    BY <1>4, BindLeads
  <2>4. QED  BY <2>1, <2>2, <2>3
<1>5. CASE ~GivenUp(n) /\ n.state = "RENEWING"
  <2>1. Timeout(n, sent) = Renew(n, sent)
    BY <1>5 DEF Timeout, Discovering
  <2>2. QED  BY <2>1, RequestsLead
<1>6. CASE ~GivenUp(n) /\ n.state = "REBINDING"
  <2>1. Timeout(n, sent) = Rebind(n, sent)
    BY <1>6 DEF Timeout, Discovering
  <2>2. QED  BY <2>1, RequestsLead
<1>7. CASE n.state \in {"NONE", "OFF", "BOUND"}
  <2>1. Timeout(n, sent) = n
    BY <1>7 DEF Timeout, GivenUp, Discovering
  <2>2. QED  BY <2>1, LeadsStays
<1>8. n.state \in States
  BY DEF Watched
<1>9. QED  BY <1>1, <1>2, <1>3, <1>4, <1>5, <1>6, <1>7, <1>8 DEF States, Discovering

\* dhcp_fine_tmr.
LEMMA FineTmrLeads ==
  ASSUME NEW n \in Watched, NEW m \in FineTmrs(n)
  PROVE  Leads(n, m) /\ (m.ip = n.ip \/ m.tries <= 1)
<1>1. PICK sent \in BOOLEAN : m = FineTmr(n, sent)
  BY DEF FineTmrs
<1>2. n.rt \in 0 .. MaxWait
  BY DEF Watched
<1>3. ASSUME n.rt > 0
      PROVE  LET o == [n EXCEPT !.rt = n.rt - 1]
             IN  o \in Watched /\ Leads(n, o) /\ o.ip = n.ip
  <2> DEFINE o == [n EXCEPT !.rt = n.rt - 1]
  <2>1. n.rt - 1 \in 0 .. MaxWait
    BY <1>2, <1>3, DhcpAssumption
  <2>2. /\ o \in Watched /\ o.state = n.state /\ o.ip = n.ip /\ o.tries = n.tries
        /\ o.unanswered = n.unanswered
    BY <2>1 DEF Watched
  <2> HIDE DEF o
  <2>3. Leads(n, o)
    BY <2>2 DEF Leads, Counted, Watched
  <2>4. QED  BY <2>2, <2>3 DEF o
<1>4. CASE n.rt > 1
  <2>1. m = [n EXCEPT !.rt = n.rt - 1]
    BY <1>1, <1>4 DEF FineTmr
  <2>2. QED  BY <1>2, <1>3, <1>4, <2>1
<1>5. CASE n.rt = 1
  <2> DEFINE o == [n EXCEPT !.rt = 0]
  <2>1. m = Timeout(o, sent)
    BY <1>1, <1>5 DEF FineTmr
  <2>2. o \in Watched /\ Leads(n, o) /\ o.ip = n.ip
    BY <1>3, <1>5
  <2> HIDE DEF o
  <2>3. Leads(o, m) /\ (m.ip = o.ip \/ m.tries <= 1)
    BY <2>1, <2>2, TimeoutLeads
  <2>4. Leads(n, m)
    BY <2>2, <2>3, LeadsOn
  <2>5. QED  BY <2>2, <2>3, <2>4
<1>6. CASE n.rt = 0
  <2>1. m = n
    BY <1>1, <1>6 DEF FineTmr
  <2>2. QED  BY <2>1, LeadsStays
<1>7. QED  BY <1>2, <1>4, <1>5, <1>6

\* dhcp_coarse_tmr.
LEMMA CoarseTmrLeads ==
  ASSUME NEW n \in Watched, NEW k \in CoarseTmrs(n)
  PROVE  Leads(n, k)
<1>1. PICK sent \in BOOLEAN : k = CoarseTmr(n, sent)
  BY DEF CoarseTmrs
<1> DEFINE Less(t) == (t - 1) % TimerMod
           m == [n EXCEPT !.t2 = Less(n.t2)]
           o == [m EXCEPT !.t1 = Less(m.t1)]
<1>2. n.t1 \in Int /\ n.t2 \in Int
  BY DEF Watched
<1>3. \A t \in Int : Less(t) \in 0 .. (TimerMod - 1)
  BY DhcpAssumption
<1> HIDE DEF Less
<1>4. /\ m \in Watched /\ m.state = n.state /\ m.tries = n.tries /\ m.t1 = n.t1
      /\ m.unanswered = n.unanswered
  BY <1>2, <1>3 DEF Watched
<1>5. CoarseTmr(n, sent) = CASE n.state = "NONE" -> n
                             [] n.state # "NONE" /\ n.t2 = 1 -> T2Timeout(m, sent)
                             [] OTHER -> IF n.t1 = 1 THEN T1Timeout(o, sent) ELSE o
  BY <1>4 DEF CoarseTmr, Less
<1> HIDE DEF m
<1>6. /\ o \in Watched /\ o.state = n.state /\ o.tries = n.tries
      /\ o.unanswered = n.unanswered
  BY <1>2, <1>3, <1>4 DEF Watched
<1> HIDE DEF o
<1>7. Leads(n, m) /\ Leads(n, o)
  BY <1>4, <1>6 DEF Leads, Counted, Watched
<1>8. Leads(m, T2Timeout(m, sent))
  BY <1>4, RequestsLead, LeadsStays DEF T2Timeout
<1>9. Leads(o, T1Timeout(o, sent))
  BY <1>6, RequestsLead, LeadsStays DEF T1Timeout
<1>10. Leads(n, T2Timeout(m, sent)) /\ Leads(n, T1Timeout(o, sent))
  BY <1>7, <1>8, <1>9, LeadsOn
<1>11. Leads(n, n)
  BY LeadsStays
<1>12. QED  BY <1>1, <1>5, <1>7, <1>10, <1>11
\* dhcp_start, if it finds memory.
LEMMA StartLeads ==
  ASSUME ~StartMayFail, NEW n \in Watched, NEW m \in Start(n)
  PROVE  m \in Watched /\ Counted(m) /\ m.state # "NONE"
<1> DEFINE z == Zeroed(n)
<1>1. /\ 0 \in 0 .. (TriesMod - 1) /\ 0 \in 0 .. MaxWait
      /\ 0 \in 0 .. (TimerMod - 1) /\ 0 \in 0 .. 9
  BY DhcpAssumption
<1>2. z \in Watched
  BY <1>1 DEF Watched, Zeroed, States
<1>3. z.state = "OFF"
  BY DEF Watched, Zeroed
<1>4. m = Discover(z, TRUE)
  BY DEF Start
<1> HIDE DEF z
<1>5. Leads(z, m) /\ Counted(m)
  BY <1>2, <1>3, <1>4, DiscoverLeads
<1>6. QED  BY <1>3, <1>5 DEF Leads

\* Until the static address is taken, there is a client and it counts.
WatchInv ==
  /\ lwipdev \in [dhcpstatus : {0, 1, 2, 255}, ip : Addr \cup {NoAddr, Static}]
  /\ lwipdev.dhcpstatus # 255 => netif \in Watched /\ Counted(netif) /\ netif.state # "NONE"

LEMMA WatchInit == ~StartMayFail /\ WInit => WatchInv
<1> SUFFICES ASSUME ~StartMayFail, WInit PROVE WatchInv
  OBVIOUS
<1>1. Added \in Watched
  BY DhcpAssumption DEF Added, Watched, States
<1>2. QED  BY <1>1, StartLeads DEF WInit, WatchInv

\* A message: it resets what the history counts only together with tries.
LEMMA ReceiveLeads ==
  ASSUME netif \in Watched, Counted(netif), netif.state # "NONE", Receive
  PROVE  netif' \in Watched /\ Counted(netif') /\ netif'.state # "NONE"
<1> DEFINE a == Answered
<1>1. a \in Watched /\ a.state = netif.state
  BY DEF Answered, Watched
<1>2. CASE RecvOffer
  <2>1. PICK x \in Addr, sent \in BOOLEAN :
          netif' = Select([Answered EXCEPT !.rt = 0, !.offered = x], sent)
    BY <1>2 DEF RecvOffer
  <2> DEFINE o == [a EXCEPT !.rt = 0, !.offered = x]
  <2>2. netif' = Select(o, sent)
    BY <2>1
  <2> HIDE DEF a
  <2>3. netif.state = "SELECTING" /\ 0 \in 0 .. MaxWait
    BY <1>2, DhcpAssumption DEF RecvOffer
  <2>4. o \in Watched /\ o.state = "SELECTING"
    BY <1>1, <2>3 DEF Watched
  <2> HIDE DEF o
  <2>5. Leads(o, Select(o, sent)) /\ Counted(Select(o, sent))
    BY <2>4, RequestsLead
  <2>6. QED  BY <2>2, <2>4, <2>5 DEF Leads
<1>3. CASE RecvBareOffer
  <2>1. netif' = [netif EXCEPT !.rt = 0] /\ 0 \in 0 .. MaxWait
    BY <1>3, DhcpAssumption DEF RecvBareOffer
  <2>2. /\ netif' \in Watched /\ netif'.state = netif.state /\ netif'.tries = netif.tries
        /\ netif'.unanswered = netif.unanswered
    BY <2>1 DEF Watched
  <2>3. QED  BY <2>2 DEF Counted
<1>4. CASE RecvAck
  <2>1. CASE /\ netif.state = "REQUESTING"
             /\ \E x \in Addr, l \in Leases :
                  netif' = Check([Answered EXCEPT !.offered = x, !.lease = l])
    <3>1. PICK x \in Addr, l \in Leases :
            netif' = Check([Answered EXCEPT !.offered = x, !.lease = l])
      BY <2>1
    <3> DEFINE o == [a EXCEPT !.offered = x, !.lease = l]
    <3>2. netif' = Check(o)
      BY <3>1
    <3> HIDE DEF a
    <3>3. o \in Watched /\ o.state = "REQUESTING"
      BY <1>1, <2>1 DEF Watched
    <3> HIDE DEF o
    <3>4. Leads(o, Check(o)) /\ Counted(Check(o))
      BY <3>3, RequestsLead
    <3>5. QED  BY <3>2, <3>3, <3>4 DEF Leads
  <2>2. CASE netif.state \in {"RENEWING", "REBINDING"} /\ netif' = Bind(Answered)
    <3>1. Leads(a, Bind(a)) /\ Counted(Bind(a))
      BY <1>1, <2>2, BindLeads
    <3>2. QED  BY <1>1, <2>2, <3>1 DEF Leads
  <2>3. QED  BY <1>4, <2>1, <2>2 DEF RecvAck
<1>5. CASE RecvNak
  <2>1. PICK sent \in BOOLEAN : netif' = HandleNak(a, sent)
    BY <1>5 DEF RecvNak
  <2>2. Leads(a, netif') /\ Counted(netif')
    BY <1>1, <2>1, NakLeads
  <2>3. QED  BY <1>1, <2>2 DEF Leads
<1>6. CASE ArpReply
  <2>1. PICK sent \in BOOLEAN : netif' = Decline(netif, sent)
    BY <1>6 DEF ArpReply
  <2>2. Leads(netif, netif')
    BY <2>1, RequestsLead
  <2>3. QED  BY <2>2 DEF Leads
<1>7. QED  BY <1>2, <1>3, <1>4, <1>5, <1>6 DEF Receive

\* The end of lwip_periodic_handle.
LEMMA MaybeCoarseLeads ==
  ASSUME NEW n \in Watched, NEW m \in MaybeCoarse(n)
  PROVE  Leads(n, m)
  BY CoarseTmrLeads, LeadsStays DEF MaybeCoarse

\* PollDue, which is where the status may change: the watch takes the static address only
\* after more than four requests in a row without an answer, by an interface that has
\* no address.
LEMMA PollDueStep ==
  ASSUME ~StartMayFail, WatchInv, PollDue
  PROVE  /\ WatchInv'
         /\ lwipdev.dhcpstatus # 255 /\ lwipdev'.dhcpstatus = 255 =>
              netif'.unanswered > LWIP_MAX_DHCP_TRIES /\ netif.ip = NoAddr
<1>1. PICK m \in FineTmrs(netif) :
        \E p \in Process(m, lwipdev) : netif' \in MaybeCoarse(p[1]) /\ lwipdev' = p[2]
  BY DEF PollDue
<1>2. PICK p \in Process(m, lwipdev) : netif' \in MaybeCoarse(p[1]) /\ lwipdev' = p[2]
  BY <1>1
<1>3. lwipdev \in [dhcpstatus : {0, 1, 2, 255}, ip : Addr \cup {NoAddr, Static}]
  BY DEF WatchInv
<1>4. CASE lwipdev.dhcpstatus = 255
  <2>1. p = <<m, lwipdev>>
    BY <1>2, <1>4 DEF Process
  <2>2. QED  BY <1>2, <1>3, <1>4, <2>1 DEF WatchInv
<1>5. CASE lwipdev.dhcpstatus # 255
  <2>1. netif \in Watched /\ Counted(netif) /\ netif.state # "NONE"
    BY <1>5 DEF WatchInv
  <2>2. Leads(netif, m) /\ (m.ip = netif.ip \/ m.tries <= 1)
    BY <2>1, FineTmrLeads
  <2>3. m \in Watched /\ Counted(m) /\ m.state # "NONE"
    BY <2>1, <2>2 DEF Leads
  <2>4. \/ lwipdev.dhcpstatus = 0
        \/ lwipdev.dhcpstatus = 1 /\ m.ip # NoAddr
        \/ lwipdev.dhcpstatus = 1 /\ m.ip = NoAddr
        \/ lwipdev.dhcpstatus = 2
    BY <1>3, <1>5
  <2>5. CASE lwipdev.dhcpstatus = 0
    <3>1. PICK n \in Start(m) : p = <<n, [lwipdev EXCEPT !.dhcpstatus = 1]>>
      BY <1>2, <2>5 DEF Process
    <3>2. n \in Watched /\ Counted(n) /\ n.state # "NONE"
      BY <2>3, StartLeads
    <3>3. Leads(n, netif')
      BY <1>2, <3>1, <3>2, MaybeCoarseLeads
    <3>4. lwipdev' \in [dhcpstatus : {0, 1, 2, 255}, ip : Addr \cup {NoAddr, Static}]
          /\ lwipdev'.dhcpstatus = 1
      BY <1>2, <1>3, <3>1
    <3>5. QED  BY <3>2, <3>3, <3>4 DEF WatchInv, Leads
  <2>6. CASE lwipdev.dhcpstatus = 1 /\ m.ip # NoAddr
    <3>1. p = <<m, [lwipdev EXCEPT !.dhcpstatus = 2, !.ip = m.ip]>>
      BY <1>2, <2>6 DEF Process
    <3>2. Leads(m, netif')
      BY <1>2, <2>3, <3>1, MaybeCoarseLeads
    <3>3. m.ip \in Addr \cup {NoAddr, Static}
      BY <2>3 DEF Watched
    <3>4. lwipdev' \in [dhcpstatus : {0, 1, 2, 255}, ip : Addr \cup {NoAddr, Static}]
          /\ lwipdev'.dhcpstatus = 2
      BY <1>2, <1>3, <3>1, <3>3
    <3>5. QED  BY <2>3, <3>2, <3>4 DEF WatchInv, Leads
  <2>7. CASE lwipdev.dhcpstatus = 1 /\ m.ip = NoAddr
    <3>1. CASE p = <<m, lwipdev>>
      <4>1. Leads(m, netif')
        BY <1>2, <2>3, <3>1, MaybeCoarseLeads
      <4>2. lwipdev' = lwipdev
        BY <1>2, <3>1
      <4>3. QED  BY <1>3, <1>5, <2>3, <4>1, <4>2 DEF WatchInv, Leads
    <3>2. CASE /\ m.tries > LWIP_MAX_DHCP_TRIES
               /\ p = <<[m EXCEPT !.ip = lwipdev.ip], [lwipdev EXCEPT !.dhcpstatus = 255]>>
      <4> DEFINE n == [m EXCEPT !.ip = lwipdev.ip]
      <4>1. lwipdev.ip \in Addr \cup {NoAddr, Static}
        BY <1>3
      <4>2. n \in Watched /\ n.unanswered = m.unanswered
        BY <2>3, <4>1 DEF Watched
      <4>3. p[1] = n
        BY <3>2
      <4> HIDE DEF n
      <4>4. Leads(n, netif')
        BY <1>2, <4>2, <4>3, MaybeCoarseLeads
      <4>5. m.unanswered > LWIP_MAX_DHCP_TRIES
        BY <2>3, <3>2 DEF Counted, LWIP_MAX_DHCP_TRIES, Watched
      <4>6. netif.ip = NoAddr
        BY <2>2, <2>3, <2>7, <3>2 DEF Watched, LWIP_MAX_DHCP_TRIES
      <4>7. netif'.unanswered > LWIP_MAX_DHCP_TRIES
        BY <4>2, <4>4, <4>5 DEF Leads, Watched, LWIP_MAX_DHCP_TRIES
      <4>8. lwipdev' \in [dhcpstatus : {0, 1, 2, 255}, ip : Addr \cup {NoAddr, Static}]
            /\ lwipdev'.dhcpstatus = 255
        BY <1>2, <1>3, <3>2
      <4>9. QED  BY <4>6, <4>7, <4>8 DEF WatchInv
    <3>3. TooManyTries(m) = {m.tries > LWIP_MAX_DHCP_TRIES}
      BY <2>3 DEF TooManyTries
    <3>4. Process(m, lwipdev) =
            {IF many THEN <<[m EXCEPT !.ip = lwipdev.ip], [lwipdev EXCEPT !.dhcpstatus = 255]>>
             ELSE <<m, lwipdev>> : many \in TooManyTries(m)}
      BY <2>7 DEF Process
    <3>5. PICK many \in TooManyTries(m) :
            p = IF many THEN <<[m EXCEPT !.ip = lwipdev.ip], [lwipdev EXCEPT !.dhcpstatus = 255]>>
                ELSE <<m, lwipdev>>
      BY <1>2, <3>4, Zenon
    <3>6. many => m.tries > LWIP_MAX_DHCP_TRIES
      BY <3>3, Zenon
    <3>7. CASE many
      BY <3>2, <3>5, <3>6, <3>7, Zenon
    <3>8. CASE ~many
      BY <3>1, <3>5, <3>8, Zenon
    <3>9. QED  BY <3>7, <3>8
  <2>8. CASE lwipdev.dhcpstatus = 2
    <3>1. p = <<m, lwipdev>>
      BY <1>2, <2>8 DEF Process
    <3>2. Leads(m, netif')
      BY <1>2, <2>3, <3>1, MaybeCoarseLeads
    <3>3. lwipdev' = lwipdev
      BY <1>2, <3>1
    <3>4. QED  BY <1>3, <1>5, <2>3, <3>2, <3>3 DEF WatchInv, Leads
  <2>9. QED  BY <2>4, <2>5, <2>6, <2>7, <2>8
<1>6. QED  BY <1>4, <1>5

\* Only PollDue changes the status.
LEMMA WatchNext ==
  ASSUME ~StartMayFail, WatchInv, [WNext]_wvars
  PROVE  /\ WatchInv'
         /\ lwipdev.dhcpstatus # 255 /\ lwipdev'.dhcpstatus = 255 =>
              netif'.unanswered > LWIP_MAX_DHCP_TRIES /\ netif.ip = NoAddr
<1>1. CASE PollDue
  BY <1>1, PollDueStep
<1>2. CASE lwipdev' = lwipdev /\ (lwipdev.dhcpstatus # 255 =>
             netif' \in Watched /\ Counted(netif') /\ netif'.state # "NONE")
  BY <1>2 DEF WatchInv
<1>3. CASE SysTimeout
  <2>1. ASSUME lwipdev.dhcpstatus # 255 PROVE Leads(netif, netif')
    BY <1>3, <2>1, FineTmrLeads, CoarseTmrLeads DEF SysTimeout, WatchInv
  <2>2. QED  BY <1>2, <1>3, <2>1 DEF SysTimeout, WatchInv, Leads
<1>4. CASE PollTooEarly
  <2>1. ASSUME lwipdev.dhcpstatus # 255 PROVE Leads(netif, netif')
    BY <1>4, <2>1, MaybeCoarseLeads DEF PollTooEarly, WatchInv
  <2>2. QED  BY <1>2, <1>4, <2>1 DEF PollTooEarly, WatchInv, Leads
<1>5. CASE Receive /\ UNCHANGED lwipdev
  BY <1>2, <1>5, ReceiveLeads DEF WatchInv
<1>6. CASE ServerDies /\ UNCHANGED lwipdev
  BY <1>2, <1>6 DEF ServerDies, WatchInv
<1>7. CASE UNCHANGED wvars
  BY <1>2, <1>7 DEF wvars, vars, WatchInv
<1>8. QED  BY <1>1, <1>3, <1>4, <1>5, <1>6, <1>7 DEF WNext

\* If dhcp_start finds memory, the watch takes the static address only when more than
\* LWIP_MAX_DHCP_TRIES requests in a row had no answer and the interface has no address:
\* for any number of timeouts between two polls, and any replies.
THEOREM WatchFallbackIsJustified ==
  ASSUME ~StartMayFail
  PROVE  WSpec => FallbackIsJustified
<1>1. WInit => WatchInv
  BY WatchInit
<1>2. WatchInv /\ [WNext]_wvars => WatchInv'
  BY WatchNext
<1>3. WatchInv /\ [WNext]_wvars =>
        [lwipdev.dhcpstatus # 255 /\ lwipdev'.dhcpstatus = 255 =>
           netif'.unanswered > LWIP_MAX_DHCP_TRIES /\ netif.ip = NoAddr]_wvars
  BY WatchNext
<1>4. QED  BY <1>1, <1>2, <1>3, PTL DEF WSpec, FallbackIsJustified

=============================================================================
