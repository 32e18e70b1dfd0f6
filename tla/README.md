# Verification of the STM32F429 firmware

TLA+ models of this repository's own code (about 800 lines under
`src/STM32F429/APP`, `BSP`, `Core`, `LWIP/lwip_app` and the adapted files of
lwIP), TLC configurations that check them on small instances, and TLAPS proofs of
the main results for every value of the constants. Despite the repository's name
no FreeRTOS code is in it: the firmware is an endless loop in `main` plus
interrupt handlers, and lwIP is configured with `NO_SYS 1`.

## The system

| part | state | operations | interacts with |
|---|---|---|---|
| memory manager, `APP/src/malloc.c` | `mem1mapbase` (one number per 64-byte block), `memrdy` | `mymalloc`, `myfree`, `my_mem_init`, `my_mem_perused` | called by the network bring-up; its regions are used by the Ethernet DMA and lwIP |
| keys, `BSP/src/key.c` and the loop of `Core/Src/main.c` | `sky_keymode`, one `count` per key | `TIM3_IRQHandler` and its four scans, `main`'s switch | share `sky_keymode` with no protection |
| console, `BSP/src/uart.c` | USART1 registers | `uart1_init`, `fputc` | an enabled receive interrupt without a handler |
| network bring-up, `LWIP/lwip_app/lwip_comm.c` and `BSP/src/lan8720.c` | six buffer pointers, `lwipdev` | `lwip_comm_init`, `ETH_Mem_Malloc`, `LAN8720_Init` | memory manager, PHY, lwIP core |
| PHY registers, `BSP/src/lan8720.c` | the PHY's registers, the HAL handle's state | `LAN8720_ReadPHY`, `_WritePHY`, `_Get_Speed` | HAL |
| receive and transmit path, `netif/ethernetif.c`, `ETH_IRQHandler` | two rings of four descriptors, `RxFrameInfos`, the HAL lock | `low_level_input`, `low_level_output`, `HAL_ETH_GetReceivedFrame`, `HAL_ETH_TransmitFrame` | DMA, interrupt, lwIP |
| DHCP client, `dhcp.c` | state, `tries`, `request_timeout`, two lease timers, the offered address | `dhcp_start`, `dhcp_fine_tmr`, `dhcp_coarse_tmr`, `dhcp_recv`, `dhcp_arp_reply` | the network, the interface's address |
| DHCP supervision, `lwip_comm.c` | `lwipdev.dhcpstatus`, two timers, `lwip_localtime` | `lwip_periodic_handle`, `lwip_dhcp_process_handle` | lwIP's DHCP client and timeouts |
| ARP cache, `etharp.c` | `arp_table`, queued packets, `etharp_cached_entry` | `etharp_output`, `etharp_query`, `etharp_arp_input`, `etharp_tmr`, `etharp_cleanup_netif` | frames to and from the paths above, the heap, the interface |
| lwIP heap, `mem.c` (adapted) | a linked list of `struct mem` over `ram`, `lfree` | `mem_init`, `mem_malloc`, `mem_free`, `mem_trim` | lies in a region of `mymalloc`; pbufs, TCP, `struct dhcp` come from it |
| lwIP pools, `memp.c` (adapted) | one free list per kind of object | `memp_malloc`, `memp_free` | lie in a region of `mymalloc`; timeouts come from one |
| lwIP timeouts, `timers.c` | `next_timeout` (differences), `tcpip_tcp_timer_active` | `sys_timeout`, `sys_untimeout`, `sys_check_timeouts`, `tcp_timer_needed` | the timers of DHCP, ARP, IP and TCP; `sys_now` of `LWIP/arch/sys_arch.c`, which returns nothing |
| delay, `BSP/src/delay.c` | SysTick | `delay_us` | called by nothing (`LAN8720_Init` calls `delay_ms`, which nothing defines) |

What is hard here: interrupt handlers and `main` share variables with neither
`volatile` nor protection; the DMA shares rings with the driver; the memory
manager keeps so little (a length per block) that its correctness rests on an
invariant nobody wrote down; bring-up may fail half-way, and is retried; 16-bit
and 32-bit counters wrap. What makes each part correct is listed with its module
below; every hazard, with its line, is in `PROJECT.json`.

## Modules

`BlockPool` is the promise of the memory manager, `Malloc` the manager one call at
a time, `MallocLoop` the manager one loop iteration at a time. `BlockTable` holds
what the two say of the table with the same words: its gaps, the highest of them,
what a fill leaves behind, what it means for a table to describe the regions handed
out.

    MallocLoop  --implements-->  Malloc  --implements-->  BlockPool
         \                      /   ^
          extends   BlockTable       | extends, calls mymalloc / myfree
                                  LwipComm

    EthTx     --implements-->  FrameQueue         DhcpWatch  --extends-->  DhcpClient
    Timeouts  --implements-->  Agenda             EthRx   KeyScan   Mem   ArpCache

* **BlockPool.** `live[b]` is the size of the region handed out at block `b`, `req`
  and `ret` the size last asked for and what was returned (without `req` a refusal
  of one size could pass for that of another). `Grant` may take any place with room; `Refuse`
  is allowed only if no place has room (or nothing was asked for); `Release` gives
  a region back. `NoOverlap`: no byte belongs to two regions.
* **Malloc.** Adds `memmap` and `memrdy`, the code's own state. `mymalloc` takes the
  highest gap, as the downward scan does, and writes the length into each block;
  `myfree` clears as many entries as the number it finds says. `MallocInv` says that
  the table holds, inside every region and only there, that region's length.
  Pointers are offsets from `membase`; a pointer below it is, in unsigned
  arithmetic, an offset beyond the pool. Callers (`MayFree`) free what they hold,
  what is already free, or something outside the pool. A stale pointer into a
  region that was handed out again would free it from under its new owner: the
  code cannot notice, and the model does not let callers do it.
* **MallocLoop.** `CallMalloc`, `Scan` (one turn of the `for` loop), `NoGap`, `Mark`,
  `Granted`, `CallFree`, `Clear`, `Freed`. The refinement mapping undoes, in the
  table, what the call in progress has done so far (`TableAtCall`), so a call takes
  effect where it returns. `wasrdy` is a history variable for the mapping. `LoopInv`
  is the type, the invariant of the scan (no gap has been passed, `cmemb` is the run of
  free blocks behind the index) and the bounds of the two writing loops.
* **KeyScan.** One tick of TIM3 samples every key and is one step, because `main`
  cannot run inside it; `main` is `EnterLoop`, `Poll`, `PrintAndReset`, with the
  handler between any two. `hoisted` is chosen once: `sky_keymode` is not
  `volatile`, a build may read it on every turn or never (the object file
  `MDK-ARM/STM32F429/main.o` kept in the repository does not read it). A byte on
  USART1 sends the processor into the start-up file's default handler for ever.
  `pins`, `seen` and `pending` are history variables.
* **LwipComm.** `lwip_comm_init` request by request on top of `Malloc`, with a PHY
  that may fail at each try, and other code using the pool between calls. The
  checks for missing memory test addresses of variables and cannot fire, so the
  error paths behind them are unreachable and have no action; neither has the
  return of 4.
* **EthRx.** The receive ring. Three actors: the DMA, the handler (which runs to its
  end before `main` goes on) and `main`, if it polls. Both call the same code, in
  the steps between which the others can act: `Enter` (the HAL lock), `Take`
  (`HAL_ETH_GetReceivedFrame`, one descriptor), `Copy`, `Release`, `Resume` (the
  RBUS check, then `netif->input`). `IsrTests` is the handler's loop condition,
  `IsrClears` the clearing of its flags after the loop. The DMA is modelled from how
  the driver uses it: it fills what it owns, suspends when it owns nothing, and waits
  for `DMARPDR`. The handler calls `lwip_pkt_hanle`, a name nothing defines;
  `lwip_pkt_handle` is meant. The variable `use`, chosen once, says how the firmware is
  used: whether `main` polls, and whether a frame may take two descriptors.
* **EthTx.** `low_level_output` as `Call`, `Copy`, `Transmit` (the part of
  `HAL_ETH_TransmitFrame` that hands the descriptor over), `Poll` (its look at TBUS)
  and `Error` (the label: the look at TUS), with a DMA that sends, runs dry and
  underflows in between. A frame takes one descriptor (lwIP's MTU is 1500, a buffer
  has 1524 bytes), so the loops over several descriptors are not modelled. Only the
  foreground sends: the handler gives lwIP no frame it could answer.
* **FrameQueue.** What the transmit path promises: first in, first out, unchanged,
  except for a frame spoilt by an underflow.
* **DhcpClient.** lwIP's DHCP client as this firmware builds it. `netif` holds what
  `struct netif` and its `struct dhcp` hold; every function of `dhcp.c` is an operator
  from a netif to a netif, because callers chain them (`dhcp_timeout` releases and
  discovers, `lwip_periodic_handle` runs two timers). The steps are the two timers and
  the five things that may arrive. `asked` holds the messages sent under the present
  transaction identifier: a reply counts only if one of them asked for it, may come
  never, late or several times, and old identifiers are dead. One choice of `sent` per
  step says whether `dhcp_create_msg` found memory; `unanswered` is a history field. A
  lease is the pair of times `dhcp_handle_ack` computes, and is not read again when it
  is renewed, as in the code. REBOOTING is left out: it is entered from
  `dhcp_network_changed` only, which nothing here leads to.
* **DhcpWatch.** `lwip_periodic_handle` over that client. The application is
  assumed to call it and to count `lwip_localtime`; nothing in the repository does.
  `PollTooEarly` and `PollDue` are a call less and at least 500 ms after the last one
  that ran `dhcp_fine_tmr`. Before that each calls `sys_check_timeouts`, which runs the
  client's timers too: it asks `sys_now`, which returns nothing, so that any number of
  them may be due. One is a step, `SysTimeout`. `Process` is `lwip_dhcp_process_handle`, from
  which `dhcp_start` is called a second time.
* **Timeouts.** The list of `timers.c`, each entry with the time after the one before
  it. `sys_check_timeouts` starts a check with any `diff`, since `sys_now` may answer
  anything; `Expire` takes the head out, frees it and enters its handler; the handler's
  end (`PeriodicReturns`, `TcpReturns`, `AppReturns`) sets its timer again, or TCP's
  only while there are connections; `Done` ends the loop. Connections come and go
  outside a check and inside any handler (`Register`, `Unregister`). The application sets
  (`AppTimeout`, at most `AppMax` at once) and cancels (`sys_untimeout`) timeouts of its
  own. A `sys_timeout` outside a handler counts from the last check and not from the
  present, so that a timeout may come early: time left between checks is not part of
  what is modelled, as no reading of the clock is.
* **Agenda.** What the list promises: entries with the time each has left, in that order
  and first come first served among equals; a check spends its time on them and ends.
* **Mem.** The heap: `ram[o]` is the `struct mem` at offset `o`, `lfree` the lowest free
  one. The call's first part (`mem_malloc`), one turn of the scan (`Scan`), the taking of the block (`Take`), one
  step of the search for the next `lfree` (`Seek`); `mem_free` and `mem_trim` have no
  loops and are one step each. `live` and `blocks` are history: what was handed out, and
  where a `struct mem` lies. `Contexts` are the callers: nothing locks in this build, so
  with two of them every step of one may fall between two of the other.
* **ArpCache.** Table, hint, the packets held and the frames sent, one step per function.
  `Announce` and `etharp_tmr` stand for the network and the time; requests for any next
  hop, with several packets to one of them (`Copies`), and the interface going down
  (`etharp_cleanup_netif`) come in any order. What an entry keeps of its old life is
  kept where it is read again (`netif`) and cleared where it is not.
* **MallocProofs** (of BlockPool, BlockTable, Malloc, MallocLoop and LwipComm), **EthRxProofs,
  EthTxProofs, DhcpProofs** (of both DHCP modules), **KeyProofs, MemProofs, TimeoutsProofs,
  ArpProofs**: the proofs. **MC...**: instances for TLC.

## Runs

| run | question | bounds |
|---|---|---|
| `malloc` | is the table always what callers hold, and is the promise kept? | 6 blocks of 3 bytes, requests of 0, 1, 3, 4, 6, 9, 18 and 19 bytes: none, part of a block, several, all, too much. Six blocks give every pattern of up to six neighbours, of equal and of unequal length |
| `malloc_loop` | do the loops stay inside the table, find the highest gap, return, and do what `Malloc` does? | 5 blocks of 2 bytes |
| `keys` | what can the handler do to `main`, and what can be missed? | three keys, one of each polarity and one counted while idle; counters that wrap at 4 instead of 65536, so that wrapping happens |
| `lwip_comm` | what does repeated bring-up do to the pool? | the real proportions at about 1:45 (36 blocks; 2, 2, 96, 96, 212 and 251 blocks of 1600 become 1, 1, 2, 2, 4 and 5 blocks of two bytes), four calls; two suffice to lose memory, three to run short |
| `eth_rx` | two uses: `main` polls, the handler interrupts it anywhere and every frame fits one buffer; or the handler is alone and frames take one or two. Are frames delivered once, in order and whole, is every descriptor given back, does reception go on, does the handler's loop end? | 4 descriptors (as in the firmware), 9 frames: the ring goes round twice; any frame may find no pbuf. In the second use the ring fills and nothing is left to do, so that deadlock is not checked |
| `eth_tx` | do frames leave in order and unchanged, is one refused only by a full ring, is a wake-up lost, is a full ring drained, whatever stopped the DMA? | 4 descriptors, 2 different frames, no bound on their number |
| `dhcp_client` | the client against a network that loses and repeats replies, refuses, reports conflicts and may fail for good: does it maintain its lease, end its retries, never wait without a timeout, and give up the lease of a dead server? | two addresses, a lease of one minute and one so short that its two timers coincide; request timeouts cut to 2 ticks, so that there are ticks that do not and ticks that do expire; lease timers that wrap at 4 minutes instead of 65536 and `tries` at 12 instead of 256, so that both wrap |
| `dhcp_watch` | the watch over the client, both sets of timers, every reply: is the static address taken only after five requests without an answer? | as above with one address and one lease; any number of timeouts between two polls (533436 states) |
| `mem` | does the heap's list survive every order of calls, do regions stay apart, is NULL returned only for want of room, do the loops end? | 34 bytes, a `struct mem` of 4, `MIN_SIZE` 3, alignment 2, `mem_size_t` counting to 64: up to three blocks, with rests just long enough and just too short to be split off; requests of 0, 1, 4, 5, 8, 11, 26, 30 and 63 bytes: nothing, rounding, exact fit, whole heap, too much, wrapping when it is aligned (418167 states) |
| `timers` | does the list keep every time and every order, is no timer lost or set twice, does a check end? | lwIP's four periodic timers, TCP's and one of the application, intervals 3, 4, 5, 2 and 1 in the order of the real ones; a pool of 6; `diff` below 8: several expiries of several timers in one check |
| `arp` | is an address in the table once, is a queued packet held once and sent or freed once, does a frame go to the right MAC address, is the gentlest entry recycled, does a queued packet leave? | 2 entries for 3 hosts with 2 packets each and 2 MAC addresses, ages of 4, 2 and 2 instead of 240, 228 and 2: the table is full as soon as two hosts are known (94648 states) |
| `eth_rx_size` | violation: `ETH_GetRxPktSize` is 0 for a complete frame | as `eth_rx`, the handler alone |

The sizes of the lwIP buffers are those of the build kept in the repository: 13563
bytes for the pools (the table in `memp.o`), 16028 for the heap.

### Findings

With a run of its own, `eth_rx_size`: `ETH_GetRxPktSize` tests the last-segment bit the
wrong way round (`lan8720.c:158`). It gives 0 for a complete frame, so the handler
hands none to lwIP. Turning the test round is not enough: if `main` also calls the
HAL, a handler that interrupts the holder of the HAL lock then loops for ever (the
mutant `ETH_GetRxPktSize_LastPart` of the run `eth_rx` is that repair).

Seen with TLC by putting the definition named into the configuration named, as the
INVARIANT or PROPERTY, in place of its own; the definitions are kept as the
specification of a repair:

| definition | configuration | what TLC shows |
|---|---|---|
| `LeaseIsMaintained` | `MCDhcpWatch.cfg`; also with `TimerMod = 65536` and `Replies = {"offer", "ack"}` | the watch starts the DHCP client a second time (`lwip_comm.c:186`, after line 131). A client that was bound by then is cleared while the interface keeps its address, and the watch reports success: nobody renews that lease. `dhcp.c:60-62` describes `dhcp_start` as what starts the negotiation of an interface without one |
| `StaticIsUsed` | `MCDhcpWatch.cfg`; also with `TimerMod = 65536`, `Replies = {"offer", "ack"}`, `SysTimeouts = FALSE` | when the static address is set (`lwip_comm.c:220`) the client is not stopped: a late ACK replaces the address |
| `Settles` | `MCDhcpWatch.cfg` with `TimerMod = 16`, `Replies = {"offer", "nak"}`, `SysTimeouts = FALSE` | the watch tests `dhcp->tries`, which every change of state resets: a server that offers and then refuses keeps it from the static address for ever |
| `StaticOnUpInterface` | `MCDhcpWatch.cfg` | the static address is set on an interface that a NAK took down |
| `WaitingMeansRunning` | `MCDhcpWatch.cfg`, `StartMayFail = TRUE` | `dhcp_start`'s result is ignored: without memory the watch waits for an address nobody asks for, and may read `tries` through a null pointer |
| `WaitingIsTimed` | `MCDhcpClient.cfg`, `"bare_offer"` among `Replies` | an offer without a server identifier stops the client's timeout and is then ignored (`dhcp.c:1624`) |
| `RenewingIsTimed` | `MCDhcpClient.cfg`, `Replies = {"offer", "ack"}`, `Leases <- LateRebind`, `TriesMod = 256`, `TimerMod = 65536`, one address | the 256th renewal in a row computes a timeout of 0 (`dhcp.c:1064`) |
| `BoundAfterCheck` | `MCDhcpClient.cfg` with `TimerMod = 65536`, one address | lease timers outlive a NAK, fire in the next negotiation and lead round the ARP check (`dhcp.c:491`) |
| `NoOverlap` | `MCMem.cfg`, `Contexts = {"main", "isr"}`, `CHECK_DEADLOCK FALSE` | two contexts in `mem_malloc` take the same block. `ETH_IRQHandler` (`lan8720.c:139`) is written to run lwIP, and `doc/rawapi.txt:34-36` demands one thread; what keeps the two apart today is only that the handler finds no frame |
| `CleanupIsComplete` | `MCArpCache.cfg` | "Remove all ARP table entries of the specified netif", says `etharp.c`; an entry made by `etharp_query` names no netif until it is answered, and stays behind with its packet |
| every property of `MCEthRx.cfg` | `MCEthRx.cfg`, `[polls \|-> TRUE, long \|-> TRUE]` added to `BothUses` | with a polling `main` and frames longer than a buffer (the MAC lets up to 2048 bytes through) the handler takes the first part of a frame, and `RxFrameInfos` is shared without protection. On an Ethernet whose frames have at most 1522 bytes that does not occur |

Plain from the code: `lwip_comm_init` can return 0 with NULL buffers, because its
checks test addresses of variables (`lwip_comm.c:41`, `lan8720.c:170`; the run
`lwip_comm` says for how many calls that cannot happen); it returns 3 for a PHY failure
and 4 for a failed `netif_add`, where its comment (lines 94-95) says 2 and 3; and
`low_level_output` returns `ERR_USE` where its comment (`ethernetif.c:33-34`) promises
`ERR_MEM`; `mem_malloc` of 65533 to 65535 bytes wraps when it is aligned and is
granted the smallest block (`NoOverlap` of `Mem` speaks of the sizes that do not,
`Representable`), and `mem_calloc` truncates its product to 16 bits.

### Fairness

`MallocLoop` and `LwipComm`: weak fairness of the steps of a call that has begun
(the processor goes on executing), none for making a call. `KeyScan`: weak
fairness of `main`'s steps; the handler takes microseconds of each 10 ms tick, so
it cannot keep `main` from running. `EthRx`: weak
fairness of the handler and of a polling `main`, nothing for the DMA. `EthTx`: weak
fairness of a call that has begun and of the DMA, which goes on unless it is
suspended; lwIP is not obliged to send. `Mem`: weak fairness of each context's call
that has begun. `Timeouts`: weak fairness of the loop of `sys_check_timeouts` and of
the return of the handlers it calls, none for its being called. `ArpCache`: weak
fairness of `etharp_tmr`, the only fairness that goes beyond running code to its end: it
supposes an application that calls `sys_check_timeouts` and a clock that works. `DhcpClient`: weak fairness of its two timers
(time passes), nothing for replies. `DhcpWatch`: weak fairness of `PollDue`, the
application's polling. Nothing is assumed of the timer, of keys or of
received bytes. `KeyScan` assumes that at most one timer update falls between
`Tim3_init` and the reset of `sky_keymode` a few instructions later: the update
event that `HAL_TIM_Base_Init` generates; the next is 10 ms away.

## Proofs

Every safety property that a run checks is proved, for every value of the constants that
the modules' assumptions allow. Where a theorem has a hypothesis of its own it is named
below, with the reason.

**Memory manager** (`MallocProofs`, from `PoolAssumption` alone: at least one block, blocks
of at least one byte, sizes natural numbers).

1. `PoolNeverOverlaps`: in `BlockPool`, `NoOverlap` always holds. The inductive
   invariant is `PoolInv`: regions lie in the pool and share no block. That disjoint
   blocks are disjoint bytes needs `BlocksForCovers` (a request's blocks cover it).
2. `MallocCorrect`: `MallocInv` is an invariant of `Malloc`. `TableMatchesHeld` by
   itself is not inductive: if two regions could share a block, freeing one would
   clear entries of the other. `PoolInv` is what rules that out, and it is obtained
   from step 3 instead of being proved again; `NotReadyIsEmpty` is needed because
   the first call clears the table.
3. `MallocImplementsPool`: every step of `Malloc` is a step of `BlockPool` or a
   stutter. The heart is `GapsAreRoom`: under `MallocInv` the zero runs of the table
   are exactly the places where the pool has room, so a refusal is justified and a
   grant takes nobody's block; `FreeFindsRegion` is the same for releases.
4. `MallocNeverOverlaps` follows from 1 and 3, `MallocLeavesOthers` from 2.
   `PerusedIsRight`: `my_mem_perused` is the share held, by counting.
5. `LoopsAreSound`, `LoopsImplementMalloc`: the loops of `malloc.c` for every pool. The
   inductive invariant is `LoopInv` with two parts more: `CallInv` (between calls, and
   at each point of one, what the locals say of the argument and of the table) and
   `TableInv` (the table as it will be, or was, is `MallocInv`'s). Without `TableInv`
   nothing says that the number `myfree` finds ends inside the table; without `CallInv`
   the block a call returns need not be the one it marked. A step in the middle of a
   call leaves the mapped table alone (`MarkDescribes`, `ClearDescribes`), the last one
   is `mymalloc` or `myfree` of `Malloc`.
6. `BuffersAreTheirs`, `OnlyFailedCallsLose`: `LwipComm` for every list of buffers, every
   pool and any number of calls (`LwipCommAssumption`: there is a buffer, no size is 0).
   `PointersInv` adds to `BuffersAreHeld` that the pointers are starts of blocks, so that
   two that differ lie in different regions; `LossInv` counts with the lost regions those
   of buffers a running call has not yet replaced (`Astray`), which is the number that
   grows in one step only, the beginning of a call, and by one set of buffers at most.
7. `TwoCallsAreServed`: no buffer is missing in the first two calls. That is about the
   sizes, so it has the hypothesis `RoomForTwo`: twice the buffers and what other code
   holds at a time are no more than the pool. The firmware's 1600 blocks and 659 blocks of
   buffers leave other code 141 blocks, 9 kB; the instance of the run (36 blocks, 15 and 3)
   meets it exactly. The invariant is `ReachInv`: as the highest gap is taken
   (`MallocStaysHigh`), a call comes down from the top by its buffers and by at most one
   region of other code that was in its way, however often that code has taken and freed
   regions. A count of free blocks would not do: it says nothing of the gaps.

**Receive path** (`EthRxProofs`, for every number of descriptors and frames).

8. `RxRingIsCut`, `RxBufferIsStable`, `RxOnceInOrder`, `RxFramesAccounted`, `RxTypesHold`:
   for every use of the path but one, the hypothesis `Apart`: not both a polling `main` and
   frames longer than a buffer. In that use every property of the run is false (Findings, last row).
   `RxInv` is the inductive invariant: `Cut` (the ring by places counted from the first
   segment in hand, instead of by a set, with at most one segment in hand) and one of two
   shapes. `Short`: frames fit one buffer; the processor's descriptors hold the frames after
   `low` in order, and `Passed` says for each point of `main`'s call where frame `low` or
   `low + 1` is. The handler then takes nothing, which is why it cannot disturb the call it
   interrupts. `Long`: `main` does not poll; the handler may take a first part, and then
   stands before a last one for ever.
9. `HandlerAloneDeliversNothing`: if `main` does not poll, which is how the repository uses
   the path, lwIP gets no frame at all, in no order of events. (The test of
   `ETH_GetRxPktSize`, Findings.)

**Transmit path** (`EthTxProofs`, `EthTxAssumption`: at least one descriptor).

10. `EthTxInvariant`: `TxInv` is an invariant of `EthTx`. `NoLostWakeUp` alone is not
   inductive: the DMA suspends when the descriptor at its own position is empty, and
   only `RingIsCut` makes that mean that the whole ring is (`EmptyHeadEmptyRing`);
   `WakeUpInv` says which flag a suspended DMA has left. `NextDescIs` removes the
   division from the ring arithmetic, so that the rest is linear. `EthTxRing`,
   `EthTxNoLostWakeUp` and `EthTxRefusedWhenFull` follow.
11. `EthTxIsAQueue`: it implements `FrameQueue`. What the DMA owns, read off the ring from
   its own position on, is the queue; `HeldInv` says that each of those descriptors holds a
   frame, and `QueueReads` replaces the queue by its length and its places, so that a step
   takes the first, adds behind the last, or changes none (`QueueShrinks`, `QueueGrows`,
   `QueueStays`).

**DHCP** (`DhcpProofs`, for every set of addresses, leases and replies, and every size of the
counters; `DhcpAssumption`: `tries` must count beyond 9, or a wrap would hide the end of the
retries).

12. `ClientLeaseIsMaintained`, `ClientRetriesAreBounded`, `ClientType`. The
   inductive invariant `Sound` adds that from the first offer on there is an offered
   address, which `dhcp_bind` relies on. `ClientWaitingIsTimed` assumes that every offer
   names its server, as it must (Findings, `WaitingIsTimed`); it needs the
   bound on the retries, because `dhcp_rebind` computes no timeout for `tries` 0. The
   lemmas go function by function (`SelectSound`, `BindSound`, ..., `TimeoutSound`,
   `CoarseTmrSound`), like the code.
13. `WatchFallbackIsJustified`: with any number of
   timeouts between polls, the watch takes the static address only after five
   requests without an answer, if `dhcp_start` finds memory (`~StartMayFail`; without
   it the watch counts on a client that does not run). The invariant is `Counted`:
   `tries` is never ahead of `unanswered`, as every answer that is heard resets both.

**Timeouts** (`TimeoutsProofs`; `TimeoutsAssumption`: the handlers are different functions,
intervals fit a `u32_t`, and the pool has an entry for each timer of lwIP and each timeout the
application has at a time, the first of which `lwip/init.c` checks when it is compiled).

14. `ListIsAgenda`: the list of differences implements `Agenda`, its initial states and every
   step (`Safety`); that checks end (`ChecksEnd`) is liveness and stays with TLC. The time left
   of an entry is a sum over the list (`Before`), so the lemmas are inductions over data. They
   are had without an induction theorem: the set of places where a claim fails, if not empty,
   has a least element (`Least`, `Induct`), and with it the recursive function is first shown
   to exist and to be determined (`SumsExist`, `BeforeIsUnique`). `LinkedIs`, `UnlinkedIs` and `TailIs` say what
   `sys_timeout`, `sys_untimeout` and an expiry do to every sum; the rest
   (`InsertionInAgenda`, `RemovalInAgenda`, `ExpiryInAgenda`) reads that off as an agenda.
15. `TimesFit`: no sum exceeds a `u32_t`, so that the code's additions and subtractions
   do not wrap. The model can therefore do without widths.
16. `TimersAreSet`: `EveryTimerIsSet`. It is not inductive by itself: a timer sets itself again only if
   the pool has an entry left. `TimersInv` counts: one entry for each own timer that does not
   run, and at most `AppMax` of the application (`OwnAreFew`, `RoomForOwn`).

**Keys** (`KeyProofs`).

17. `NoKeyOutOfNothing`, `BounceIsFiltered`, from `KeyInv`: for every set of keys, every
   width of the counters and every place the handler may interrupt `main`. Neither
   property is inductive: that a printed key was recognised needs that the key in
   `sky_keymode` was (`KeyIsGenuine`), and that two active samples, not always in a row, suffice needs what a count
   says of the samples behind it (`CountsOrWrapped`).

**Heap** (`MemProofs`).

18. `MemIsSound`, `RegionsAreDisjoint`, `RefusalIsRight`, `HeapComesBack`: for every size of
   the heap, of `struct mem`, of `MIN_SIZE`, of the alignment and of requests
   (`MemAssumption`), if one context calls (`OneCaller`; with two it is false, see
   Findings). `MemInv` says that `next` and `prev` are inverse between neighbouring blocks, that no two free
   ones are neighbours and that `lfree` is the lowest free one. `RefusalIsRight` needs
   in addition that the scan has passed nothing that fits. A heap in which nothing
   is held is one free block (`HeapComesBack`): nothing leaks, whatever the order of calls.

**ARP** (`ArpProofs`).

19. `ArpIsSound`, `FramesGoToTheirOwner`, `RecyclingIsGentle`: for every size of the table and
   every limit of the ages. `ArpInv` is inductive. The three searches of `etharp_find_entry`
   are described by what they find, so the proof goes search by search.

Only model-checked: liveness, and with it what weak fairness enables, which is out of the
prover's reach: `CallsReturn`, `KeyIsPrinted`, `ReceptionResumes`, `RingIsEmptied`,
`IsrReturns`, `RingDrains`, `DeadLeaseIsReleased`, `MallocReturns`, `QueuedLeaves`, and `ChecksEnd` in
`AgendaSpec`. `RxSizeIsFrameLength`, which is false, is shown so by its run.

## Not modelled, and the plan

What could still be done, in this order:

1. Proofs: no safety property of a run is left. What would say more is a measure for the
   loops (`MallocLoop`, `Mem`, the handler of `EthRx`): a number that every turn lowers, the
   safety half of the liveness that TLC checks.
2. `DhcpWatch` over `Timeouts` in place of its own `SysTimeout`.
3. The other pools of `memp.c`: free lists of one shape, without an invariant across them.

Not worth a model: the PHY registers (`LAN8720_ReadPHY`, `_WritePHY`, `_Get_Speed`: one
access after the other; that an initialisation may fail and is retried is in `LwipComm`),
and `delay_us`, which nothing calls and which keeps no state (its `tickcnt` is added to
before it is set).

Kept as definitions, checked by no run: `OthersUntouched` of `Malloc` (proved,
`MallocLeavesOthers`), `NothingLeaks` of `Mem` (proved, `HeapComesBack`), `WatchTypeOK`, and
those named under Findings.

The share of the repository the models cover is small and stays so: of its 880000 lines
all but about 800 of its own, and the few files of lwIP modelled here, are the vendor's
headers, the CMSIS DSP tables, HAL and lwIP as published.

Left out for good: pin, clock and baud-rate set-up (register writes without state
of their own), the unchanged rest of lwIP, HAL and CMSIS, and the empty
directories for esp8266, SPI and I2C.
