-------------------------------- MODULE EthTx --------------------------------
(***************************************************************************)
(* The transmit path: low_level_output of netif/ethernetif.c and           *)
(* HAL_ETH_TransmitFrame, on the ring of descriptors they share with the   *)
(* DMA.  lwIP's frames fit one buffer (the MTU is 1500, a buffer has 1524  *)
(* bytes), so a frame takes one descriptor and bufcount is 1.  Only the    *)
(* foreground sends: ETH_IRQHandler gives lwIP no frame it could answer    *)
(* (see EthRx), so the lock is free when HAL_ETH_TransmitFrame asks for it.*)
(*                                                                         *)
(* The DMA is modelled from how the driver uses it: it sends what it owns, *)
(* suspends with TBUS when it owns nothing, and with TUS when a frame      *)
(* underflows, and goes on when DMATPDR is written.                        *)
(***************************************************************************)
EXTENDS Integers, Sequences

CONSTANTS ETH_TXBUFNB,  \* descriptors of the ring
          Frames        \* what lwIP may send

ASSUME EthTxAssumption == ETH_TXBUFNB \in Nat \ {0}

Ring == 0 .. (ETH_TXBUFNB - 1)

VARIABLES own,      \* own[i]: the OWN bit of descriptor i
          buf,      \* buf[i]: the frame in its buffer; <<>> before the first
          TxDesc,   \* ETH_Handler.TxDesc
          pc,       \* low_level_output: "idle", "copy", "transmit", "poll", "error"
          p,        \* its argument
          errval,   \* what it returned last
          dma,      \* the descriptor the DMA looks at next
          suspended, tbus, tus,  \* the DMA's state and two bits of DMASR
          wire      \* history: the last frame sent

driver == <<TxDesc, pc, p, errval>>
hardware == <<dma, suspended, tbus, tus, wire>>
vars == <<own, buf, driver, hardware>>

-----------------------------------------------------------------------------

\* Mutant: the last descriptor is not linked to the first.
NextDesc_NoWrap(i) == i + 1

\* Buffer2NextDescAddr.
NextDesc(i) == (i + 1) % ETH_TXBUFNB

\* HAL_ETH_DMATxDescListInit and HAL_ETH_Start.
Init ==
  /\ own = [i \in Ring |-> FALSE]
  /\ buf = [i \in Ring |-> <<>>]
  /\ TxDesc = 0
  /\ pc = "idle" /\ p = <<>> /\ errval = "ERR_OK"
  /\ dma = 0 /\ suspended = FALSE /\ tbus = FALSE /\ tus = FALSE
  /\ wire = <<>>

\* lwIP calls netif->linkoutput.
Call(f) ==
  /\ pc = "idle"
  /\ pc' = "copy" /\ p' = <<f>>
  /\ UNCHANGED <<own, buf, TxDesc, errval, hardware>>

\* Mutant: the OWN bit is not looked at.
Copy_Unchecked ==
  /\ pc = "copy"
  /\ pc' = "transmit"
  /\ buf' = [buf EXCEPT ![TxDesc] = p]
  /\ UNCHANGED <<own, TxDesc, p, errval, hardware>>

\* Mutant: the descriptor after TxDesc is looked at.
Copy_ChecksNext ==
  /\ pc = "copy"
  /\ IF own[NextDesc(TxDesc)]
     THEN pc' = "error" /\ errval' = "ERR_USE" /\ UNCHANGED buf
     ELSE pc' = "transmit" /\ buf' = [buf EXCEPT ![TxDesc] = p] /\ UNCHANGED errval
  /\ UNCHANGED <<own, TxDesc, p, hardware>>

\* The pbufs are copied to the buffer of TxDesc, unless the DMA owns it.
Copy ==
  /\ pc = "copy"
  /\ IF own[TxDesc]
     THEN pc' = "error" /\ errval' = "ERR_USE" /\ UNCHANGED buf
     ELSE pc' = "transmit" /\ buf' = [buf EXCEPT ![TxDesc] = p] /\ UNCHANGED errval
  /\ UNCHANGED <<own, TxDesc, p, hardware>>

\* Mutant: the DMA is woken before the descriptor is handed over.
Transmit_PollsFirst ==
  \/ /\ pc = "transmit"
     /\ pc' = "polled"
     /\ tbus' = FALSE
     /\ suspended' = (suspended /\ ~tbus)
     /\ UNCHANGED <<own, buf, TxDesc, p, errval, dma, tus, wire>>
  \/ /\ pc = "polled"
     /\ own' = [own EXCEPT ![TxDesc] = TRUE]
     /\ TxDesc' = NextDesc(TxDesc)
     /\ pc' = "error" /\ errval' = "ERR_OK"
     /\ UNCHANGED <<buf, p, hardware>>

\* HAL_ETH_TransmitFrame, up to the next descriptor.  On its error return (the
\* descriptor is the DMA's) it polls nothing, and its caller does not notice.
Transmit ==
  /\ pc = "transmit"
  /\ IF own[TxDesc]
     THEN pc' = "error" /\ errval' = "ERR_OK" /\ UNCHANGED <<own, TxDesc>>
     ELSE /\ own' = [own EXCEPT ![TxDesc] = TRUE]
          /\ TxDesc' = NextDesc(TxDesc)
          /\ pc' = "poll"
          /\ UNCHANGED errval
  /\ UNCHANGED <<buf, p, hardware>>

\* A DMA that ran out of frames is woken.
Poll ==
  /\ pc = "poll"
  /\ pc' = "error" /\ errval' = "ERR_OK"
  /\ tbus' = FALSE
  /\ suspended' = (suspended /\ ~tbus)
  /\ UNCHANGED <<own, buf, TxDesc, p, dma, tus, wire>>

\* Mutant: TUS is not looked at.
Error_NoLook ==
  /\ pc = "error"
  /\ pc' = "idle" /\ p' = <<>>
  /\ UNCHANGED <<own, buf, TxDesc, errval, hardware>>

\* The label error: a DMA that stopped on an underflow is woken.
Error ==
  /\ pc = "error"
  /\ pc' = "idle" /\ p' = <<>>
  /\ tus' = FALSE
  /\ suspended' = (suspended /\ ~tus)
  /\ UNCHANGED <<own, buf, TxDesc, errval, dma, tbus, wire>>

low_level_output == Copy \/ Transmit \/ Poll \/ Error

-----------------------------------------------------------------------------

DmaSends ==
  /\ ~suspended /\ own[dma]
  /\ own' = [own EXCEPT ![dma] = FALSE]
  /\ wire' = buf[dma]
  /\ dma' = NextDesc(dma)
  /\ UNCHANGED <<buf, driver, suspended, tbus, tus>>

\* The frame is spoilt and its descriptor closed.
DmaUnderflows ==
  /\ ~suspended /\ own[dma]
  /\ own' = [own EXCEPT ![dma] = FALSE]
  /\ dma' = NextDesc(dma)
  /\ suspended' = TRUE /\ tus' = TRUE
  /\ UNCHANGED <<buf, driver, tbus, wire>>

DmaSuspends ==
  /\ ~suspended /\ ~own[dma]
  /\ suspended' = TRUE /\ tbus' = TRUE
  /\ UNCHANGED <<own, buf, driver, dma, tus, wire>>

DMA == DmaSends \/ DmaUnderflows \/ DmaSuspends

Next == (\E f \in Frames : Call(f)) \/ low_level_output \/ DMA

\* The processor and the DMA go on with what they have begun; lwIP keeps sending
\* (its ARP and DHCP timers do) but is not obliged to.
Spec == Init /\ [][Next]_vars /\ WF_vars(low_level_output) /\ WF_vars(DMA)

-----------------------------------------------------------------------------

\* At most one frame.
Contents == {<<>>} \cup {<<f>> : f \in Frames}

TypeOK ==
  /\ own \in [Ring -> BOOLEAN]
  /\ buf \in [Ring -> Contents] /\ p \in Contents
  /\ TxDesc \in Ring /\ dma \in Ring
  /\ suspended \in BOOLEAN /\ tbus \in BOOLEAN /\ tus \in BOOLEAN
  /\ pc \in {"idle", "copy", "transmit", "poll", "error"}
  /\ errval \in {"ERR_OK", "ERR_USE"}

\* Is descriptor i between the DMA's position and TxDesc?  When the two are equal
\* the ring is full or empty.
Waiting(i) ==
  \/ dma < TxDesc /\ dma <= i /\ i < TxDesc
  \/ dma > TxDesc /\ (dma <= i \/ i < TxDesc)
  \/ dma = TxDesc /\ own[dma]

\* The DMA owns exactly the descriptors from its position up to TxDesc: the test of
\* the one descriptor TxDesc says whether there is room in the ring.
RingIsCut == \A i \in Ring : own[i] <=> Waiting(i)

\* A suspended DMA has left a flag, and if there is something to send it is TUS, or
\* HAL_ETH_TransmitFrame is just about to look.
WakeUpInv ==
  /\ suspended => tbus \/ tus
  /\ suspended /\ ~tus /\ pc # "poll" => \A i \in Ring : ~own[i]

\* The inductive invariant: DmaSuspends sees only that its own position is empty,
\* and RingIsCut is what makes that mean that the whole ring is.
TxInv == TypeOK /\ RingIsCut /\ WakeUpInv

\* How many descriptors lie from the DMA's position up to TxDesc.
Queued ==
  CASE dma < TxDesc -> TxDesc - dma
    [] dma > TxDesc -> TxDesc - dma + ETH_TXBUFNB
    [] dma = TxDesc -> IF own[dma] THEN ETH_TXBUFNB ELSE 0

\* The frames handed to the DMA and not yet gone, from its position on.
queue == [k \in 1 .. Queued |-> buf[(dma + k - 1) % ETH_TXBUFNB][1]]

\* Frames leave in the order lwIP sent them, unchanged, none twice: the buffer of
\* a frame that is waiting is not written, although the ring goes round.
Queue == INSTANCE FrameQueue WITH Capacity <- ETH_TXBUFNB
SendsInOrder == Queue!Spec

\* No wake-up is lost: when low_level_output has returned, a DMA with frames to
\* send is running, or stopped by an underflow that came later.
NoLostWakeUp == pc = "idle" /\ (\E i \in Ring : own[i]) => ~suspended \/ tus

\* A frame is refused only when every descriptor holds one.
RefusedWhenFull ==
  [][pc = "copy" /\ pc' = "error" => \A i \in Ring : own[i]]_vars

\* A full ring, which refuses every frame, is drained in the end, whatever stopped
\* the DMA: an underflow closes a descriptor, so the call that filled the ring again
\* ended after it and found TUS.
RingDrains == (\A i \in Ring : own[i]) ~> (\E i \in Ring : ~own[i])

=============================================================================
