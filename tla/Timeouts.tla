------------------------------- MODULE Timeouts -------------------------------
(***************************************************************************)
(* The timeouts of lwIP (core/timers.c), NO_SYS: a list in which every     *)
(* entry holds the time after the one before it, whose entries come from   *)
(* the pool MEMP_SYS_TIMEOUT.  sys_check_timeouts is modelled one expiry   *)
(* at a time; a handler may register and remove TCP connections before it  *)
(* sets itself again.  sys_now (arch/sys_arch.c) returns nothing, so that  *)
(* diff, the difference of two readings, is any u32_t at every call, and   *)
(* timeouts_last_time and sys_restart_timeouts make no difference.         *)
(***************************************************************************)
EXTENDS Integers, SequencesExt

CONSTANTS Periodic,   \* the handlers sys_timeouts_init starts, in its order
          App,        \* handlers of the application, which it sets and cancels
          Interval,   \* the interval of each periodic handler and of TCP
          AppTimes,   \* the times the application asks for
          AppMax,     \* bound: timeouts the application has at a time
          MEMP_NUM_SYS_TIMEOUT, U32

Tcp == "tcpip_tcp_timer"
Handlers == Range(Periodic) \union {Tcp} \union App

ASSUME TimeoutsAssumption ==
  /\ Interval \in [DOMAIN Interval -> 1 .. (U32 - 1)] /\ Tcp \in DOMAIN Interval
  \* The handlers are different functions, and none is a name of at.
  /\ Periodic \in Seq(DOMAIN Interval \ {Tcp}) /\ IsInjective(Periodic)
  /\ App \cap DOMAIN Interval = {}
  /\ {"main", "check"} \cap Handlers = {}
  /\ U32 \in Nat /\ AppTimes \subseteq 0 .. (U32 - 1)
  /\ AppMax \in Nat /\ MEMP_NUM_SYS_TIMEOUT \in Nat
  \* lwip/init.c refuses to compile a pool too small for lwIP's own timers.
  /\ MEMP_NUM_SYS_TIMEOUT >= Len(Periodic) + 1 + AppMax

VARIABLES next_timeout,            \* sequence of [h, time]
          tcpip_tcp_timer_active,
          pcbs,                    \* are there active or TIME-WAIT connections?
          diff,                    \* of sys_check_timeouts
          at                       \* "main", "check", or the handler that runs

vars == <<next_timeout, tcpip_tcp_timer_active, pcbs, diff, at>>

\* The time left of entry i: its own and those of the entries before it.
Before(list, i) ==
  LET sum[k \in 0 .. Len(list)] == IF k = 0 THEN 0 ELSE sum[k - 1] + list[k].time
  IN sum[i]

\* Mutant: a new timeout comes before those due at the same time.
IsPlace_Ties(list, ms, i) ==
  /\ i = Len(list) \/ list[i + 1].time >= ms - Before(list, i)
  /\ \A j \in 0 .. (i - 1) : list[j + 1].time < ms - Before(list, j)

\* The loop of sys_timeout stops after i entries.
IsPlace(list, ms, i) ==
  /\ i = Len(list) \/ list[i + 1].time > ms - Before(list, i)
  /\ \A j \in 0 .. (i - 1) : list[j + 1].time <= ms - Before(list, j)

\* Mutant: the entry that follows keeps its time.
Linked_NotReduced(list, h, ms, i) ==
  InsertAt(list, i + 1, [h |-> h, time |-> ms - Before(list, i)])

Linked(list, h, ms, i) ==
  LET e == [h |-> h, time |-> ms - Before(list, i)]
  IN IF i = Len(list) THEN Append(list, e)
     ELSE InsertAt([list EXCEPT ![i + 1].time = @ - e.time], i + 1, e)

\* sys_untimeout takes entry i out; the one after it gets its time.
Unlinked(list, i) ==
  RemoveAt(IF i = Len(list) THEN list ELSE [list EXCEPT ![i + 1].time = @ + list[i].time], i)

\* Mutant: the entry of the handler that runs has not been freed yet.
PoolHasRoom_FreedLate(list) ==
  Len(list) + (IF at \in Handlers THEN 1 ELSE 0) < MEMP_NUM_SYS_TIMEOUT

\* memp_malloc(MEMP_SYS_TIMEOUT) succeeds.
PoolHasRoom(list) == Len(list) < MEMP_NUM_SYS_TIMEOUT

\* sys_timeout: the list it leaves; the request is dropped if the pool is empty.
sys_timeout(list, ms, h) ==
  IF ~ PoolHasRoom(list) THEN list
  ELSE Linked(list, h, ms, CHOOSE i \in 0 .. Len(list) : IsPlace(list, ms, i))

Of(h) == {i \in DOMAIN next_timeout : next_timeout[i].h = h}

-----------------------------------------------------------------------------

\* What sys_timeouts_init leaves.
sys_timeouts_init ==
  LET list[k \in 0 .. Len(Periodic)] ==
        IF k = 0 THEN <<>> ELSE sys_timeout(list[k - 1], Interval[Periodic[k]], Periodic[k])
  IN list[Len(Periodic)]

\* Before there is a connection.
Init ==
  /\ at = "main"
  /\ next_timeout = sys_timeouts_init
  /\ tcpip_tcp_timer_active = FALSE
  /\ pcbs = FALSE
  /\ diff = 0

\* sys_check_timeouts, up to its loop.
sys_check_timeouts ==
  /\ at = "main" /\ next_timeout # <<>>
  /\ at' = "check" /\ diff' \in 0 .. (U32 - 1)
  /\ UNCHANGED <<next_timeout, tcpip_tcp_timer_active, pcbs>>

IsDue == next_timeout # <<>> /\ Head(next_timeout).time <= diff

\* The loop finds a timeout that has expired, frees it and calls its handler.
Expire ==
  /\ at = "check" /\ IsDue
  /\ diff' = diff - Head(next_timeout).time
  /\ next_timeout' = Tail(next_timeout)
  /\ at' = Head(next_timeout).h
  /\ UNCHANGED <<tcpip_tcp_timer_active, pcbs>>

\* had_one stays 0.
Done ==
  /\ at = "check" /\ ~ IsDue
  /\ at' = "main" /\ diff' = 0
  /\ UNCHANGED <<next_timeout, tcpip_tcp_timer_active, pcbs>>

\* ip_reass_timer, arp_timer, dhcp_timer_coarse and dhcp_timer_fine.
PeriodicReturns ==
  /\ at \in Range(Periodic)
  /\ next_timeout' = sys_timeout(next_timeout, Interval[at], at)
  /\ at' = "check"
  /\ UNCHANGED <<tcpip_tcp_timer_active, pcbs, diff>>

\* Mutant: the flag stays set when the last connection has gone.
TcpReturns_KeepsFlag ==
  /\ at = Tcp
  /\ next_timeout' = IF pcbs THEN sys_timeout(next_timeout, Interval[Tcp], Tcp) ELSE next_timeout
  /\ at' = "check"
  /\ UNCHANGED <<tcpip_tcp_timer_active, pcbs, diff>>

\* tcpip_tcp_timer, after tcp_tmr.
TcpReturns ==
  /\ at = Tcp
  /\ \/ pcbs /\ next_timeout' = sys_timeout(next_timeout, Interval[Tcp], Tcp)
             /\ UNCHANGED tcpip_tcp_timer_active
     \/ ~ pcbs /\ tcpip_tcp_timer_active' = FALSE /\ UNCHANGED next_timeout
  /\ at' = "check"
  /\ UNCHANGED <<pcbs, diff>>

\* A handler of the application returns.
AppReturns ==
  /\ at \in App /\ at' = "check"
  /\ UNCHANGED <<next_timeout, tcpip_tcp_timer_active, pcbs, diff>>

HandlerReturns == PeriodicReturns \/ TcpReturns \/ AppReturns

-----------------------------------------------------------------------------

\* TCP_REG with tcp_timer_needed: from main, or from what a handler calls.
Register ==
  /\ at # "check"
  /\ pcbs' = TRUE
  /\ tcpip_tcp_timer_active' = TRUE
  /\ next_timeout' = IF tcpip_tcp_timer_active THEN next_timeout
                     ELSE sys_timeout(next_timeout, Interval[Tcp], Tcp)
  /\ UNCHANGED <<diff, at>>

\* TCP_RMV of the last connection.
Unregister ==
  /\ at # "check" /\ pcbs
  /\ pcbs' = FALSE
  /\ UNCHANGED <<next_timeout, tcpip_tcp_timer_active, diff, at>>

\* The application sets a timeout, bounded by AppMax.
AppTimeout(h, ms) ==
  /\ at = "main"
  /\ Cardinality(UNION {Of(g) : g \in App}) < AppMax
  /\ next_timeout' = sys_timeout(next_timeout, ms, h)
  /\ UNCHANGED <<tcpip_tcp_timer_active, pcbs, diff, at>>

\* The application cancels one: the first of that handler.
sys_untimeout(h) ==
  /\ at = "main" /\ Of(h) # {}
  /\ next_timeout' = Unlinked(next_timeout, CHOOSE i \in Of(h) : \A j \in Of(h) : i <= j)
  /\ UNCHANGED <<tcpip_tcp_timer_active, pcbs, diff, at>>

Next ==
  \/ sys_check_timeouts \/ Expire \/ Done \/ HandlerReturns \/ Register \/ Unregister
  \/ \E h \in App : sys_untimeout(h) \/ \E ms \in AppTimes : AppTimeout(h, ms)

\* A handler returns, and the loop goes on.
Spec == Init /\ [][Next]_vars /\ WF_vars(Expire \/ Done \/ HandlerReturns)

-----------------------------------------------------------------------------

Entries(h) == Cardinality(Of(h)) + (IF at = h THEN 1 ELSE 0)

\* A timer of lwIP never falls out of the list and never gets in twice: each of
\* those sys_timeouts_init starts is set or about to set itself again, and that
\* of TCP exactly while its flag says so, as it does while there is a
\* connection.  It needs the pool to keep a place for every one of them.
EveryTimerIsSet ==
  /\ \A h \in Range(Periodic) : Entries(h) = 1
  /\ Entries(Tcp) = IF tcpip_tcp_timer_active THEN 1 ELSE 0
  /\ pcbs => tcpip_tcp_timer_active

\* The times that anything is set for.
Times == AppTimes \union {Interval[h] : h \in Range(Periodic) \union {Tcp}}

A == INSTANCE Agenda WITH
  agenda <- [i \in DOMAIN next_timeout |->
               [h |-> next_timeout[i].h, left |-> Before(next_timeout, i)]],
  credit <- diff,
  mode <- CASE at = "main" -> "idle" [] at = "check" -> "checking" [] OTHER -> "running"

\* The list of differences keeps the time of every timeout, whatever is set,
\* cancelled and expires before it; timeouts expire in the order they are due,
\* equal ones in the order they were set, and sys_check_timeouts comes to an
\* end although handlers set themselves again.
AgendaSpec == A!Spec

===============================================================================
