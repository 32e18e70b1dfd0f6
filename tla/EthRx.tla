-------------------------------- MODULE EthRx --------------------------------
(***************************************************************************)
(* The receive path: the ring of descriptors shared with the Ethernet DMA, *)
(* HAL_ETH_GetReceivedFrame, low_level_input and ethernetif_input of       *)
(* netif/ethernetif.c, and ETH_IRQHandler of BSP/src/lan8720.c.            *)
(*                                                                         *)
(* Three actors: the DMA, which fills descriptors whose OWN bit is set;    *)
(* the interrupt handler, which runs to its end before main goes on; and   *)
(* main, which may poll lwip_pkt_handle.  (The handler calls it by the     *)
(* name lwip_pkt_hanle, which nothing defines.)  Handler and main run the  *)
(* same code on the same RxDesc, RxFrameInfos and lock.                    *)
(*                                                                         *)
(* The DMA is modelled from how the driver uses it.  A frame is a number,  *)
(* in the order of arrival; data is the frame a buffer holds a part of.    *)
(***************************************************************************)
EXTENDS Integers, Sequences, SequencesExt

CONSTANTS ETH_RXBUFNB,  \* descriptors of the ring
          Uses,         \* ways the path is used: does main poll lwip_pkt_handle, and
                        \* may a frame be longer than one buffer (ETH_RX_BUF_SIZE)?
          MaxFrames     \* bound: frames that arrive

ASSUME EthRxAssumption ==
  /\ ETH_RXBUFNB \in Nat \ {0}
  /\ Uses \subseteq [polls : BOOLEAN, long : BOOLEAN]
  /\ MaxFrames \in Nat

Ring == 0 .. (ETH_RXBUFNB - 1)
Actors == {"main", "isr"}

VARIABLES use,       \* the use at hand, chosen at the start
          desc,      \* the descriptors with the contents of their buffers
          dma,       \* the descriptor the DMA fills next
          midframe,  \* the DMA has closed the first part of a frame, not the last
          rbus,      \* DMASR_RBUS: the DMA is suspended for want of a descriptor
          irq,       \* DMASR_RS: a frame has been closed
          RxDesc,    \* ETH_Handler.RxDesc
          SegCount, FSRxDesc, length,  \* ETH_Handler.RxFrameInfos; length in buffers
          locked,    \* ETH_Handler.Lock
          pc,        \* where each actor is in its call
          p,         \* the pbuf of each actor's call: what was copied; <<>> is NULL
          arrived, delivered, dropped  \* history: frames closed, given to lwIP, without pbuf

dmaVars == <<dma, midframe, rbus, irq, arrived>>
infos == <<SegCount, FSRxDesc, length>>
vars == <<use, desc, dmaVars, RxDesc, infos, locked, pc, p, delivered, dropped>>

-----------------------------------------------------------------------------

\* Buffer2NextDescAddr.
NextDesc(i) == (i + 1) % ETH_RXBUFNB

\* The n descriptors from i on.
Segments(i, n) == {(i + k) % ETH_RXBUFNB : k \in 0 .. (n - 1)}

\* HAL_ETH_DMARxDescListInit and HAL_ETH_Start.
Init ==
  /\ use \in Uses
  /\ desc = [i \in Ring |-> [own |-> TRUE, fs |-> FALSE, ls |-> FALSE, es |-> FALSE,
                             data |-> 0, segs |-> 0]]
  /\ dma = 0 /\ midframe = FALSE /\ rbus = FALSE /\ irq = FALSE
  /\ RxDesc = 0
  /\ SegCount = 0 /\ FSRxDesc = 0 /\ length = 0
  /\ locked = FALSE
  /\ pc = [main |-> "idle", isr |-> "idle"]
  /\ p = [a \in Actors |-> <<>>]
  /\ arrived = 0 /\ delivered = <<>> /\ dropped = {}

-----------------------------------------------------------------------------

\* The DMA closes its descriptor; the status is what the driver will read there.
DmaClose(fs, ls, es, segs) ==
  /\ desc' = [desc EXCEPT ![dma] = [own |-> FALSE, fs |-> fs, ls |-> ls, es |-> es,
                                    data |-> arrived + 1, segs |-> segs]]
  /\ dma' = NextDesc(dma)
  /\ midframe' = ~ls
  /\ irq' = (irq \/ ls)
  /\ arrived' = IF ls THEN arrived + 1 ELSE arrived
  /\ UNCHANGED <<rbus, RxDesc, infos, locked, pc, p, delivered, dropped>>

\* A frame that fits one buffer.
DmaShortFrame ==
  /\ ~rbus /\ desc[dma].own /\ ~midframe /\ arrived < MaxFrames
  /\ DmaClose(TRUE, TRUE, FALSE, 1)

\* The first buffer of a longer one.  If the next descriptor is not the DMA's the
\* frame ends here, with the error bit.
DmaLongFrame ==
  /\ use.long
  /\ ~rbus /\ desc[dma].own /\ ~midframe /\ arrived < MaxFrames
  /\ IF desc[NextDesc(dma)].own /\ ETH_RXBUFNB > 1
     THEN DmaClose(TRUE, FALSE, FALSE, 0)
     ELSE DmaClose(TRUE, TRUE, TRUE, 1)

DmaLastPart ==
  /\ midframe
  /\ DmaClose(FALSE, TRUE, FALSE, 2)

\* A frame that finds no descriptor is lost, and the DMA waits for DMARPDR.
DmaSuspends ==
  /\ ~rbus /\ ~desc[dma].own
  /\ rbus' = TRUE
  /\ UNCHANGED <<desc, dma, midframe, irq, arrived, RxDesc, infos, locked, pc, p,
                 delivered, dropped>>

DMA == DmaShortFrame \/ DmaLongFrame \/ DmaLastPart \/ DmaSuspends

-----------------------------------------------------------------------------

\* Main is interrupted at any point and goes on when the handler has returned.
MayRun(a) == a = "main" => pc["isr"] = "idle"

At(a, here) == MayRun(a) /\ pc[a] = here
Goto(a, there) == pc' = [pc EXCEPT ![a] = there]

\* Where ethernetif_input returns to: the loop of the handler, or of main.
Return(a) == Goto(a, IF a = "isr" THEN "test" ELSE "idle")

\* lwip_pkt_handle, ethernetif_input, low_level_input: the entry of
\* HAL_ETH_GetReceivedFrame takes the lock or returns HAL_BUSY.
Enter(a) ==
  /\ \/ a = "main" /\ use.polls /\ At(a, "idle")
     \/ a = "isr" /\ At(a, "call")
  /\ \/ ~locked /\ locked' = TRUE /\ Goto(a, "locked")
     \/ locked /\ Return(a) /\ UNCHANGED locked
  /\ UNCHANGED <<desc, dmaVars, RxDesc, infos, p, delivered, dropped>>

\* Mutant: the way out without a frame keeps the lock.
Take_KeepsLock(a) ==
  /\ At(a, "locked")
  /\ UNCHANGED <<desc, dmaVars, p, delivered, dropped>>
  /\ \/ /\ ~desc[RxDesc].own /\ desc[RxDesc].ls
        /\ FSRxDesc' = IF SegCount = 0 THEN RxDesc ELSE FSRxDesc
        /\ SegCount' = SegCount + 1 /\ length' = desc[RxDesc].segs
        /\ RxDesc' = NextDesc(RxDesc)
        /\ locked' = FALSE
        /\ Goto(a, "copy")
     \/ /\ desc[RxDesc].own
        /\ UNCHANGED <<RxDesc, infos, locked>>
        /\ Return(a)

\* Mutant: the descriptor is given back before the frame is copied.
Take_GivesBack(a) ==
  /\ At(a, "locked") /\ ~desc[RxDesc].own /\ desc[RxDesc].ls
  /\ locked' = FALSE
  /\ FSRxDesc' = RxDesc /\ SegCount' = SegCount + 1 /\ length' = desc[RxDesc].segs
  /\ RxDesc' = NextDesc(RxDesc)
  /\ desc' = [desc EXCEPT ![RxDesc].own = TRUE]
  /\ Goto(a, "copy")
  /\ UNCHANGED <<dmaVars, p, delivered, dropped>>

\* Mutant: the first part of a frame is not counted.
Take_FirstNotCounted(a) ==
  LET d == desc[RxDesc]
  IN  /\ At(a, "locked") /\ locked' = FALSE
      /\ ~d.own /\ d.fs /\ ~d.ls
      /\ FSRxDesc' = RxDesc
      /\ RxDesc' = NextDesc(RxDesc)
      /\ Return(a)
      /\ UNCHANGED <<desc, dmaVars, SegCount, length, p, delivered, dropped>>

\* The rest of HAL_ETH_GetReceivedFrame: one descriptor per call.  The last part
\* of a frame completes it, the first starts RxFrameInfos afresh, any other is
\* counted.
Take(a) ==
  LET d == desc[RxDesc]
  IN  /\ At(a, "locked")
      /\ locked' = FALSE
      /\ \/ /\ d.own
            /\ UNCHANGED <<RxDesc, infos>>
            /\ Return(a)
         \/ /\ ~d.own
            /\ SegCount' = IF d.fs /\ ~d.ls THEN 1 ELSE SegCount + 1
            /\ FSRxDesc' = IF SegCount' = 1 /\ (d.ls \/ d.fs) THEN RxDesc ELSE FSRxDesc
            /\ length' = IF d.ls THEN d.segs ELSE length
            /\ RxDesc' = NextDesc(RxDesc)
            /\ IF d.ls THEN Goto(a, "copy") ELSE Return(a)
      /\ UNCHANGED <<desc, dmaVars, p, delivered, dropped>>

\* pbuf_alloc, which may fail, and the copy out of the buffers.
Copy(a) ==
  LET parts == [k \in 1 .. length |-> desc[(FSRxDesc + k - 1) % ETH_RXBUFNB].data]
  IN  /\ At(a, "copy")
      /\ \/ p' = [p EXCEPT ![a] = parts] /\ UNCHANGED dropped
         \/ p' = [p EXCEPT ![a] = <<>>] /\ dropped' = dropped \cup {parts[length]}
      /\ Goto(a, "release")
      /\ UNCHANGED <<desc, dmaVars, RxDesc, infos, locked, delivered>>

\* Mutant: the loop that gives descriptors back starts at 1.
Release_OneShort(a) ==
  /\ At(a, "release")
  /\ desc' = [i \in Ring |->
                IF i \in Segments(FSRxDesc, SegCount) \ {FSRxDesc}
                THEN [desc[i] EXCEPT !.own = TRUE] ELSE desc[i]]
  /\ SegCount' = 0
  /\ Goto(a, "resume")
  /\ UNCHANGED <<dmaVars, RxDesc, FSRxDesc, length, locked, p, delivered, dropped>>

\* Mutant: the descriptors given back are those from RxDesc on.
Release_FromHead(a) ==
  /\ At(a, "release")
  /\ desc' = [i \in Ring |->
                IF i \in Segments(RxDesc, SegCount)
                THEN [desc[i] EXCEPT !.own = TRUE] ELSE desc[i]]
  /\ SegCount' = 0
  /\ Goto(a, "resume")
  /\ UNCHANGED <<dmaVars, RxDesc, FSRxDesc, length, locked, p, delivered, dropped>>

\* Mutant: the segment counter is not cleared.
Release_CountKept(a) ==
  /\ At(a, "release")
  /\ desc' = [i \in Ring |->
                IF i \in Segments(FSRxDesc, SegCount)
                THEN [desc[i] EXCEPT !.own = TRUE] ELSE desc[i]]
  /\ Goto(a, "resume")
  /\ UNCHANGED <<dmaVars, RxDesc, infos, locked, p, delivered, dropped>>

\* The SegCount descriptors from FSRxDesc on go back to the DMA.
Release(a) ==
  /\ At(a, "release")
  /\ desc' = [i \in Ring |->
                IF i \in Segments(FSRxDesc, SegCount)
                THEN [desc[i] EXCEPT !.own = TRUE] ELSE desc[i]]
  /\ SegCount' = 0
  /\ Goto(a, "resume")
  /\ UNCHANGED <<dmaVars, RxDesc, FSRxDesc, length, locked, p, delivered, dropped>>

\* Mutant: the DMA is not woken.
Resume_Forgotten(a) ==
  /\ At(a, "resume")
  /\ delivered' = IF p[a] = <<>> THEN delivered ELSE Append(delivered, p[a])
  /\ p' = [p EXCEPT ![a] = <<>>]
  /\ Return(a)
  /\ UNCHANGED <<desc, dmaVars, RxDesc, infos, locked, dropped>>

\* RBUS is cleared and the DMA woken; then netif->input(p) if there is one.
Resume(a) ==
  /\ At(a, "resume")
  /\ rbus' = FALSE
  /\ delivered' = IF p[a] = <<>> THEN delivered ELSE Append(delivered, p[a])
  /\ p' = [p EXCEPT ![a] = <<>>]
  /\ Return(a)
  /\ UNCHANGED <<desc, dma, midframe, irq, arrived, RxDesc, infos, locked, dropped>>

lwip_pkt_handle(a) == Enter(a) \/ Take(a) \/ Copy(a) \/ Release(a) \/ Resume(a)

-----------------------------------------------------------------------------

\* Mutant: the size is that of a last descriptor, as the comment has it.
ETH_GetRxPktSize_LastPart == LET d == desc[RxDesc] IN ~d.own /\ ~d.es /\ d.ls

\* Is the size not 0?  In a descriptor that is not the last of its frame the
\* length field counts the bytes so far.
ETH_GetRxPktSize == LET d == desc[RxDesc] IN ~d.own /\ ~d.es /\ ~d.ls

IsrEnters ==
  /\ pc["isr"] = "idle" /\ irq
  /\ Goto("isr", "test")
  /\ UNCHANGED <<desc, dmaVars, RxDesc, infos, locked, p, delivered, dropped>>

\* while(ETH_GetRxPktSize(ETH_Handler.RxDesc))
IsrTests ==
  /\ pc["isr"] = "test"
  /\ Goto("isr", IF ETH_GetRxPktSize THEN "call" ELSE "clear")
  /\ UNCHANGED <<desc, dmaVars, RxDesc, infos, locked, p, delivered, dropped>>

\* The flags are cleared after the last look at the ring.
IsrClears ==
  /\ pc["isr"] = "clear"
  /\ irq' = FALSE
  /\ Goto("isr", "idle")
  /\ UNCHANGED <<desc, dma, midframe, rbus, arrived, RxDesc, infos, locked, p,
                 delivered, dropped>>

ETH_IRQHandler == IsrEnters \/ IsrTests \/ IsrClears \/ lwip_pkt_handle("isr")

Main == lwip_pkt_handle("main")

Next == (DMA \/ ETH_IRQHandler \/ Main) /\ UNCHANGED use

\* The processor runs: the handler when its flag is set, main otherwise.  The DMA
\* owes nothing.
Spec == Init /\ [][Next]_vars /\ WF_vars(ETH_IRQHandler /\ UNCHANGED use)
                    /\ WF_vars(Main /\ UNCHANGED use)

-----------------------------------------------------------------------------

TypeOK ==
  /\ use \in Uses
  /\ desc \in [Ring -> [own : BOOLEAN, fs : BOOLEAN, ls : BOOLEAN, es : BOOLEAN,
                        data : 0 .. MaxFrames, segs : 0 .. 2]]
  /\ dma \in Ring /\ RxDesc \in Ring /\ FSRxDesc \in Ring
  /\ midframe \in BOOLEAN /\ rbus \in BOOLEAN /\ irq \in BOOLEAN /\ locked \in BOOLEAN
  /\ SegCount \in 0 .. ETH_RXBUFNB /\ length \in 0 .. 2
  /\ pc["main"] \in {"idle", "locked", "copy", "release", "resume"}
  /\ pc["isr"] \in {"idle", "test", "call", "clear", "locked", "copy", "release", "resume"}
  /\ arrived \in 0 .. MaxFrames /\ dropped \subseteq 1 .. MaxFrames

\* The descriptors the DMA does not own.
CpuOwned == {i \in Ring : ~desc[i].own}

\* The ring is cut in two.  From the first segment in hand (SegCount before RxDesc)
\* up to the DMA's position everything is the processor's, the rest is the DMA's:
\* no descriptor is forgotten behind RxDesc, where the DMA would stop for good
\* when it came round, and none is given back before it was read.
RingIsCut ==
  \E n \in 0 .. ETH_RXBUFNB :
    LET first == (RxDesc + ETH_RXBUFNB - SegCount) % ETH_RXBUFNB
    IN  /\ SegCount <= n
        /\ CpuOwned = Segments(first, n)
        /\ dma = (first + n) % ETH_RXBUFNB
        /\ SegCount > 0 => FSRxDesc = first

\* What is about to be copied cannot be overwritten: from HAL_ETH_GetReceivedFrame
\* to the end of the copy the frame's descriptors are the processor's and hold one
\* frame from its first part to its last.
BufferIsStable ==
  \A a \in Actors : pc[a] = "copy" =>
    LET mine == Segments(FSRxDesc, length)
    IN  /\ mine \subseteq CpuOwned
        /\ desc[FSRxDesc].fs
        /\ \A i, j \in mine : desc[i].data = desc[j].data

\* lwIP gets frames in the order of their arrival and none of them twice.
OnceInOrder ==
  \A m, n \in 1 .. Len(delivered) :
    m < n => Last(delivered[m]) < Last(delivered[n])

\* A frame the DMA has stored is in the ring, in the pbuf of a running call, with
\* lwIP, or was dropped because there was no pbuf: none just disappears.
FramesAccounted ==
  1 .. arrived \subseteq
    dropped \cup {Last(delivered[n]) : n \in 1 .. Len(delivered)}
            \cup {desc[i].data : i \in CpuOwned}
            \cup {Last(p[a]) : a \in {b \in Actors : p[b] # <<>>}}

\* A DMA that is suspended for want of a descriptor is woken, where main polls.  (The
\* handler alone takes no complete frame: see RxSizeIsFrameLength.)
ReceptionResumes == use.polls /\ rbus ~> ~rbus

\* Where main polls, a stored frame does not stay in the ring for ever.
RingIsEmptied == use.polls /\ CpuOwned # {} ~> CpuOwned = {}

\* The handler's loop ends, also when it has interrupted the holder of the lock:
\* HAL_ETH_GetReceivedFrame returns HAL_BUSY then and takes nothing out of the
\* ring, and main cannot run to release it.
IsrReturns == pc["isr"] # "idle" ~> pc["isr"] = "idle"

\* lan8720.c:149-151 says that ETH_GetRxPktSize returns the length of the frame
\* received.  It returns 0 for every complete frame: the test of LS is inverted.
RxSizeIsFrameLength ==
  LET d == desc[RxDesc] IN ~d.own /\ ~d.es /\ d.ls => ETH_GetRxPktSize

=============================================================================
