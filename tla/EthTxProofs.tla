----------------------------- MODULE EthTxProofs -----------------------------
(***************************************************************************)
(* Proofs about EthTx, for every number of descriptors and every set of    *)
(* frames: the ring is always cut in two, no wake-up is lost, a frame is   *)
(* refused only by a full ring, and the path is a queue.                   *)
(***************************************************************************)
EXTENDS EthTx, SequenceTheorems, TLAPS

\* The chain of descriptors, without the division.
LEMMA NextDescIs ==
  ASSUME NEW i \in Ring
  PROVE  NextDesc(i) = IF i = ETH_TXBUFNB - 1 THEN 0 ELSE i + 1
  BY EthTxAssumption DEF Ring, NextDesc

LEMMA NextDescInRing ==
  ASSUME NEW i \in Ring
  PROVE  NextDesc(i) \in Ring
  BY NextDescIs, EthTxAssumption DEF Ring

\* The driver hands over TxDesc: the DMA's part of the ring grows by it.
LEMMA HandOverKeepsCut ==
  ASSUME TypeOK, RingIsCut, ~own[TxDesc],
         own' = [own EXCEPT ![TxDesc] = TRUE],
         TxDesc' = NextDesc(TxDesc), UNCHANGED dma
  PROVE  RingIsCut'
<1>1. TxDesc \in Ring /\ dma \in Ring /\ own \in [Ring -> BOOLEAN]
  BY DEF TypeOK
<1>2. TxDesc' = IF TxDesc = ETH_TXBUFNB - 1 THEN 0 ELSE TxDesc + 1
  BY <1>1, NextDescIs
<1>3. ASSUME NEW i \in Ring PROVE own'[i] <=> Waiting(i)'
  <2>1. own'[i] <=> own[i] \/ i = TxDesc
    BY <1>1
  <2>2. own[i] <=> Waiting(i)
    BY DEF RingIsCut
  <2>3. dma' = dma /\ (own'[dma'] <=> own[dma] \/ dma = TxDesc)
    BY <1>1
  <2>4. dma # TxDesc => (own[dma] <=> Waiting(dma))
    BY <1>1 DEF RingIsCut
  <2>5. CASE dma = TxDesc
    <3>1. ~own[i]
      BY <1>1, <2>2, <2>5, EthTxAssumption DEF Waiting, Ring
    <3>2. own'[dma'] /\ (own'[i] <=> i = dma)
      BY <2>1, <2>3, <2>5, <3>1
    <3>3. Waiting(i)' <=> i = dma
      BY <1>1, <1>2, <2>3, <2>5, <3>2, EthTxAssumption DEF Waiting, Ring
    <3>4. QED  BY <3>2, <3>3
  <2>6. CASE dma # TxDesc
    <3>1. /\ own'[dma']
          /\ own[i] <=> (\/ dma < TxDesc /\ dma <= i /\ i < TxDesc
                         \/ dma > TxDesc /\ (dma <= i \/ i < TxDesc))
      BY <1>1, <2>2, <2>3, <2>4, <2>6, EthTxAssumption DEF Waiting, Ring
    <3>2. Waiting(i)' <=> own[i] \/ i = TxDesc
      BY <1>1, <1>2, <2>3, <2>6, <3>1, EthTxAssumption DEF Waiting, Ring
    <3>3. QED  BY <2>1, <3>2
  <2>7. QED  BY <2>5, <2>6
<1>4. QED  BY <1>3 DEF RingIsCut

\* The DMA closes its descriptor: its part shrinks by it.
LEMMA CloseKeepsCut ==
  ASSUME TypeOK, RingIsCut, own[dma],
         own' = [own EXCEPT ![dma] = FALSE],
         dma' = NextDesc(dma), UNCHANGED TxDesc
  PROVE  RingIsCut'
<1>1. TxDesc \in Ring /\ dma \in Ring /\ own \in [Ring -> BOOLEAN]
  BY DEF TypeOK
<1>2. dma' = IF dma = ETH_TXBUFNB - 1 THEN 0 ELSE dma + 1
  BY <1>1, NextDescIs
<1>3. ASSUME NEW i \in Ring PROVE own'[i] <=> Waiting(i)'
  <2>1. own'[i] <=> own[i] /\ i # dma
    BY <1>1
  <2>2. own[i] <=> Waiting(i)
    BY DEF RingIsCut
  <2>3. dma' \in Ring /\ (own'[dma'] <=> own[dma'] /\ dma' # dma)
    BY <1>1, NextDescInRing
  <2>4. own[dma'] <=> (\/ dma < TxDesc /\ dma <= dma' /\ dma' < TxDesc
                       \/ dma > TxDesc /\ (dma <= dma' \/ dma' < TxDesc)
                       \/ dma = TxDesc /\ own[dma])
    BY <2>3 DEF RingIsCut, Waiting
  <2>5. QED
    BY <1>1, <1>2, <2>1, <2>2, <2>3, <2>4, EthTxAssumption DEF Waiting, Ring
<1>4. QED  BY <1>3 DEF RingIsCut

\* An empty position means an empty ring.
LEMMA EmptyHeadEmptyRing ==
  ASSUME TypeOK, RingIsCut, ~own[dma]
  PROVE  \A i \in Ring : ~own[i]
<1>1. dma \in Ring /\ TxDesc \in Ring
  BY DEF TypeOK
<1>2. dma = TxDesc
  <2>1. ~Waiting(dma)
    BY <1>1 DEF RingIsCut
  <2>2. QED  BY <1>1, <2>1, EthTxAssumption DEF Waiting, Ring
<1>3. QED  BY <1>1, <1>2, EthTxAssumption DEF RingIsCut, Waiting, Ring

\* A TxDesc that is the DMA's means a full ring.
LEMMA OwnedHeadFullRing ==
  ASSUME TypeOK, RingIsCut, own[TxDesc]
  PROVE  \A i \in Ring : own[i]
<1>1. dma \in Ring /\ TxDesc \in Ring
  BY DEF TypeOK
<1>2. dma = TxDesc
  <2>1. Waiting(TxDesc)
    BY <1>1 DEF RingIsCut
  <2>2. QED  BY <1>1, <2>1, EthTxAssumption DEF Waiting, Ring
<1>3. QED  BY <1>1, <1>2 DEF RingIsCut, Waiting

-----------------------------------------------------------------------------

LEMMA TxInitInv == Init => TxInv
<1> SUFFICES ASSUME Init PROVE TxInv
  OBVIOUS
<1>1. TypeOK
  BY EthTxAssumption DEF Init, TypeOK, Ring, Contents
<1>2. RingIsCut
  BY EthTxAssumption DEF Init, RingIsCut, Waiting, Ring
<1>3. WakeUpInv
  BY DEF Init, WakeUpInv
<1>4. QED  BY <1>1, <1>2, <1>3 DEF TxInv

\* One step per action; what an action leaves alone follows from UNCHANGED.
LEMMA TxStepInv == TxInv /\ [Next]_vars => TxInv'
<1> SUFFICES ASSUME TxInv, [Next]_vars PROVE TxInv'
  OBVIOUS
<1> USE DEF TxInv
<1>1. ASSUME NEW f \in Frames, Call(f) PROVE TxInv'
  <2>1. TypeOK'
    BY <1>1 DEF Call, TypeOK, hardware, Contents
  <2>2. RingIsCut' /\ WakeUpInv'
    BY <1>1 DEF Call, hardware, RingIsCut, Waiting, WakeUpInv
  <2>3. QED  BY <2>1, <2>2
<1>2. CASE Copy
  <2>1. TypeOK'
    BY <1>2 DEF Copy, TypeOK, hardware
  <2>2. RingIsCut' /\ WakeUpInv'
    BY <1>2 DEF Copy, hardware, RingIsCut, Waiting, WakeUpInv
  <2>3. QED  BY <2>1, <2>2
<1>3. CASE Transmit
  <2>1. CASE own[TxDesc]
    <3>1. TypeOK'
      BY <1>3, <2>1 DEF Transmit, TypeOK, hardware
    <3>2. RingIsCut' /\ WakeUpInv'
      BY <1>3, <2>1 DEF Transmit, hardware, RingIsCut, Waiting, WakeUpInv
    <3>3. QED  BY <3>1, <3>2
  <2>2. CASE ~own[TxDesc]
    <3>1. own' = [own EXCEPT ![TxDesc] = TRUE] /\ TxDesc' = NextDesc(TxDesc)
          /\ pc' = "poll" /\ UNCHANGED <<buf, p, errval, hardware>>
      BY <1>3, <2>2 DEF Transmit
    <3>2. TypeOK'
      BY <3>1, NextDescInRing DEF TypeOK, hardware
    <3>3. RingIsCut'
      BY <2>2, <3>1, HandOverKeepsCut DEF hardware
    <3>4. WakeUpInv'
      BY <3>1 DEF hardware, WakeUpInv
    <3>5. QED  BY <3>2, <3>3, <3>4
  <2>3. QED  BY <2>1, <2>2
<1>4. CASE Poll
  <2>1. TypeOK'
    BY <1>4 DEF Poll, TypeOK
  <2>2. RingIsCut' /\ WakeUpInv'
    BY <1>4 DEF Poll, RingIsCut, Waiting, WakeUpInv, TypeOK
  <2>3. QED  BY <2>1, <2>2
<1>5. CASE Error
  <2>1. TypeOK'
    BY <1>5 DEF Error, TypeOK, Contents
  <2>2. RingIsCut' /\ WakeUpInv'
    BY <1>5 DEF Error, RingIsCut, Waiting, WakeUpInv, TypeOK
  <2>3. QED  BY <2>1, <2>2
<1>6. CASE DmaSends
  <2>1. TypeOK'
    BY <1>6, NextDescInRing DEF DmaSends, TypeOK, driver
  <2>2. RingIsCut'
    BY <1>6, CloseKeepsCut DEF DmaSends, driver
  <2>3. WakeUpInv'
    BY <1>6 DEF DmaSends, driver, WakeUpInv
  <2>4. QED  BY <2>1, <2>2, <2>3
<1>7. CASE DmaUnderflows
  <2>1. TypeOK'
    BY <1>7, NextDescInRing DEF DmaUnderflows, TypeOK, driver
  <2>2. RingIsCut'
    BY <1>7, CloseKeepsCut DEF DmaUnderflows, driver
  <2>3. WakeUpInv'
    BY <1>7 DEF DmaUnderflows, driver, WakeUpInv
  <2>4. QED  BY <2>1, <2>2, <2>3
<1>8. CASE DmaSuspends
  <2>1. TypeOK'
    BY <1>8 DEF DmaSuspends, TypeOK, driver
  <2>2. RingIsCut'
    BY <1>8 DEF DmaSuspends, driver, RingIsCut, Waiting
  <2>3. WakeUpInv'
    BY <1>8, EmptyHeadEmptyRing DEF DmaSuspends, driver, WakeUpInv
  <2>4. QED  BY <2>1, <2>2, <2>3
<1>9. CASE UNCHANGED vars
  BY <1>9 DEF vars, driver, hardware, TypeOK, RingIsCut, Waiting, WakeUpInv
<1>10. QED
  BY <1>1, <1>2, <1>3, <1>4, <1>5, <1>6, <1>7, <1>8, <1>9
  DEF Next, low_level_output, DMA

LEMMA TxAlways == Spec => []TxInv
  BY TxInitInv, TxStepInv, PTL DEF Spec

-----------------------------------------------------------------------------

\* HAL_ETH_TransmitFrame and the DMA keep the ring cut in two whatever the number
\* of descriptors.
THEOREM EthTxInvariant == Spec => []TxInv
  BY TxAlways

\* The DMA owns exactly the descriptors from its position up to TxDesc.
THEOREM EthTxRing == Spec => []RingIsCut
<1>1. TxInv => RingIsCut
  BY DEF TxInv
<1>2. QED  BY <1>1, TxAlways, PTL

\* When low_level_output has returned, a DMA with frames to send is running, or an
\* underflow has stopped it since.
THEOREM EthTxNoLostWakeUp == Spec => []NoLostWakeUp
<1>1. TxInv => NoLostWakeUp
  BY DEF TxInv, WakeUpInv, NoLostWakeUp
<1>2. QED  BY <1>1, TxAlways, PTL

\* low_level_output looks at one OWN bit; that the whole ring is full when it
\* returns ERR_USE follows from the cut.
THEOREM EthTxRefusedWhenFull == Spec => RefusedWhenFull
<1> DEFINE A == pc = "copy" /\ pc' = "error" => \A i \in Ring : own[i]
<1>1. TxInv /\ [Next]_vars => [A]_vars
  <2> SUFFICES ASSUME TxInv, [Next]_vars, pc = "copy", pc' = "error"
               PROVE  \A i \in Ring : own[i]
    OBVIOUS
  <2>1. Copy
    BY DEF Next, Call, low_level_output, Copy, Transmit, Poll, Error, DMA, DmaSends,
           DmaUnderflows, DmaSuspends, vars, driver
  <2>2. own[TxDesc]
    BY <2>1 DEF Copy
  <2>3. QED  BY <2>2, OwnedHeadFullRing DEF TxInv
<1>2. QED  BY <1>1, TxAlways, PTL DEF Spec, RefusedWhenFull

-----------------------------------------------------------------------------
(* EthTx implements FrameQueue.  The queue is what lies in the ring from   *)
(* the DMA's position on.                                                  *)

\* The descriptor k places after the DMA's position.
Place(k) == IF dma + k < ETH_TXBUFNB THEN dma + k ELSE dma + k - ETH_TXBUFNB

LEMMA PlaceIs ==
  ASSUME dma \in Ring, NEW k \in 0 .. (ETH_TXBUFNB - 1)
  PROVE  (dma + k) % ETH_TXBUFNB = Place(k) /\ Place(k) \in Ring
  BY EthTxAssumption DEF Ring, Place

LEMMA QueuedIs ==
  ASSUME TypeOK, RingIsCut
  PROVE  /\ Queued \in 0 .. ETH_TXBUFNB
         /\ \A k \in 0 .. (ETH_TXBUFNB - 1) : k < Queued <=> own[Place(k)]
         /\ ~own[TxDesc] => Queued < ETH_TXBUFNB /\ Place(Queued) = TxDesc
         /\ own[dma] <=> Queued > 0
<1>1. dma \in Ring /\ TxDesc \in Ring
  BY DEF TypeOK
<1>2. own[dma] <=> Waiting(dma)
  BY <1>1 DEF RingIsCut
<1>3. own[TxDesc] <=> Waiting(TxDesc)
  BY <1>1 DEF RingIsCut
<1>4. Queued \in 0 .. ETH_TXBUFNB /\ (own[dma] <=> Queued > 0)
  BY <1>1, <1>2, EthTxAssumption DEF Queued, Waiting, Ring
<1>5. ~own[TxDesc] => Queued < ETH_TXBUFNB /\ Place(Queued) = TxDesc
  BY <1>1, <1>3, EthTxAssumption DEF Queued, Waiting, Ring, Place
<1>6. ASSUME NEW k \in 0 .. (ETH_TXBUFNB - 1) PROVE k < Queued <=> own[Place(k)]
  <2>1. Place(k) \in Ring
    BY <1>1, PlaceIs
  <2>2. own[Place(k)] <=> Waiting(Place(k))
    BY <2>1 DEF RingIsCut
  <2>3. k < Queued <=> Waiting(Place(k))
    BY <1>1, EthTxAssumption DEF Queued, Waiting, Ring, Place
  <2>4. QED  BY <2>2, <2>3
<1>7. QED  BY <1>4, <1>5, <1>6

\* A frame handed to the DMA is in its buffer, and so is the one on its way there.
HeldInv ==
  /\ \A i \in Ring : own[i] => buf[i] # <<>>
  /\ pc \in {"copy", "transmit"} => p # <<>>
  /\ pc = "transmit" => buf[TxDesc] = p /\ ~own[TxDesc]

LEMMA HeldStep == TxInv /\ HeldInv /\ [Next]_vars => HeldInv'
<1> SUFFICES ASSUME TxInv, HeldInv, [Next]_vars PROVE HeldInv'
  OBVIOUS
<1>1. /\ own \in [Ring -> BOOLEAN] /\ buf \in [Ring -> Contents]
      /\ TxDesc \in Ring /\ dma \in Ring
  BY DEF TxInv, TypeOK
<1>2. ASSUME NEW f \in Frames, Call(f) PROVE HeldInv'
  BY <1>2 DEF Call, HeldInv, hardware
<1>3. CASE Copy
  BY <1>1, <1>3 DEF Copy, HeldInv, hardware
<1>4. CASE Transmit
  BY <1>1, <1>4 DEF Transmit, HeldInv, hardware
<1>5. CASE Poll
  BY <1>5 DEF Poll, HeldInv
<1>6. CASE Error
  BY <1>6 DEF Error, HeldInv
<1>7. CASE DmaSends
  BY <1>1, <1>7 DEF DmaSends, HeldInv, driver
<1>8. CASE DmaUnderflows
  BY <1>1, <1>8 DEF DmaUnderflows, HeldInv, driver
<1>9. CASE DmaSuspends
  BY <1>9 DEF DmaSuspends, HeldInv, driver
<1>10. CASE UNCHANGED vars
  BY <1>10 DEF vars, driver, hardware, HeldInv
<1>11. QED
  BY <1>2, <1>3, <1>4, <1>5, <1>6, <1>7, <1>8, <1>9, <1>10 DEF Next, low_level_output, DMA

\* The queue, entry by entry.
QueueReads ==
  /\ queue \in Seq(Frames) /\ Len(queue) = Queued
  /\ \A k \in 1 .. Queued : queue[k] = buf[Place(k - 1)][1]

LEMMA QueueIs == TxInv /\ HeldInv => QueueReads
<1> SUFFICES ASSUME TxInv, HeldInv PROVE QueueReads
  OBVIOUS
<1>1. /\ dma \in Ring /\ buf \in [Ring -> Contents] /\ Queued \in 0 .. ETH_TXBUFNB
      /\ \A k \in 0 .. (ETH_TXBUFNB - 1) : k < Queued <=> own[Place(k)]
  BY QueuedIs DEF TxInv, TypeOK
<1>2. ASSUME NEW k \in 1 .. Queued
      PROVE  /\ (dma + k - 1) % ETH_TXBUFNB = Place(k - 1)
             /\ buf[Place(k - 1)][1] \in Frames
  <2>1. k - 1 \in 0 .. (ETH_TXBUFNB - 1) /\ k - 1 < Queued /\ dma + k - 1 = dma + (k - 1)
    BY <1>1, EthTxAssumption DEF Ring
  <2>2. (dma + (k - 1)) % ETH_TXBUFNB = Place(k - 1) /\ Place(k - 1) \in Ring
    BY <1>1, <2>1, PlaceIs
  <2>3. buf[Place(k - 1)] # <<>>
    BY <1>1, <2>1, <2>2 DEF HeldInv
  <2>4. PICK f \in Frames : buf[Place(k - 1)] = <<f>>
    BY <1>1, <2>2, <2>3 DEF Contents
  <2>5. QED  BY <2>1, <2>2, <2>4
<1>3. queue = [k \in 1 .. Queued |-> buf[Place(k - 1)][1]]
  BY <1>2 DEF queue
<1>4. queue \in [1 .. Queued -> Frames]
  BY <1>2, <1>3
<1>5. queue \in Seq(Frames)
  BY <1>1, <1>4, SeqDef
<1>6. Len(queue) = Queued
  BY <1>1, <1>4, <1>5, LenProperties
<1>7. QED  BY <1>3, <1>5, <1>6 DEF QueueReads

LEMMA QueueIsNext == TxInv' /\ HeldInv' => QueueReads'
  BY QueueIs, PTL

\* While the DMA stays where it is and the number is the same, so is the queue.
LEMMA QueueStays ==
  ASSUME TxInv, HeldInv, TxInv', HeldInv', dma' = dma, Queued' = Queued,
         \A i \in Ring : own[i] => buf'[i] = buf[i]
  PROVE  queue' = queue
<1>1. /\ dma \in Ring /\ Queued \in 0 .. ETH_TXBUFNB
      /\ \A k \in 0 .. (ETH_TXBUFNB - 1) : k < Queued <=> own[Place(k)]
  BY QueuedIs DEF TxInv, TypeOK
<1>2. /\ queue \in Seq(Frames) /\ Len(queue) = Queued
      /\ \A k \in 1 .. Queued : queue[k] = buf[Place(k - 1)][1]
  BY QueueIs DEF QueueReads
<1>3. /\ queue' \in Seq(Frames) /\ Len(queue') = Queued'
      /\ \A k \in 1 .. Queued' : queue'[k] = buf'[Place(k - 1)'][1]
  BY QueueIsNext DEF QueueReads
<1>4. ASSUME NEW k \in 1 .. Queued PROVE queue'[k] = queue[k]
  <2>1. k - 1 \in 0 .. (ETH_TXBUFNB - 1) /\ k - 1 < Queued
    BY <1>1, EthTxAssumption
  <2>2. Place(k - 1)' = Place(k - 1)
    BY DEF Place
  <2>3. own[Place(k - 1)] /\ Place(k - 1) \in Ring
    BY <1>1, <2>1, PlaceIs
  <2>4. QED  BY <1>2, <1>3, <2>2, <2>3
<1>5. QED  BY <1>2, <1>3, <1>4, SeqEqual

\* The DMA closes its descriptor: the first frame leaves the queue.
LEMMA QueueShrinks ==
  ASSUME TxInv, HeldInv, TxInv', HeldInv', own[dma],
         dma' = NextDesc(dma), own' = [own EXCEPT ![dma] = FALSE], UNCHANGED <<buf, TxDesc>>
  PROVE  queue # <<>> /\ queue' = Tail(queue) /\ buf[dma] = <<Head(queue)>>
<1>1. /\ dma \in Ring /\ TxDesc \in Ring /\ own \in [Ring -> BOOLEAN]
      /\ buf \in [Ring -> Contents]
      /\ Queued \in 0 .. ETH_TXBUFNB /\ Queued > 0
  BY QueuedIs DEF TxInv, TypeOK
<1>2. /\ queue \in Seq(Frames) /\ Len(queue) = Queued
      /\ \A k \in 1 .. Queued : queue[k] = buf[Place(k - 1)][1]
  BY QueueIs DEF QueueReads
<1>3. /\ queue' \in Seq(Frames) /\ Len(queue') = Queued'
      /\ \A k \in 1 .. Queued' : queue'[k] = buf'[Place(k - 1)'][1]
  BY QueueIsNext DEF QueueReads
<1>4. dma' = IF dma = ETH_TXBUFNB - 1 THEN 0 ELSE dma + 1
  BY <1>1, NextDescIs
<1>5. Queued' = Queued - 1
  <2>1. own[TxDesc] => dma = TxDesc
    BY <1>1 DEF TxInv, RingIsCut, Waiting, Ring
  <2>2. own'[dma'] <=> own[dma'] /\ dma' # dma
    BY <1>1, NextDescInRing
  <2>3. dma' = TxDesc' => (own'[dma'] <=> own[TxDesc] /\ TxDesc # dma)
    BY <2>2
  <2>4. dma' = TxDesc' => ~own'[dma']
    BY <2>1, <2>3
  <2>5. dma \in Int /\ TxDesc \in Int /\ dma' \in Int /\ TxDesc' = TxDesc /\ ETH_TXBUFNB \in Int
    BY <1>1, <1>4, EthTxAssumption DEF Ring
  <2>6. Queued = IF dma < TxDesc THEN TxDesc - dma
                 ELSE IF dma > TxDesc THEN TxDesc - dma + ETH_TXBUFNB ELSE ETH_TXBUFNB
    BY <2>5 DEF Queued
  <2>7. Queued' = IF dma' < TxDesc THEN TxDesc - dma'
                  ELSE IF dma' > TxDesc THEN TxDesc - dma' + ETH_TXBUFNB ELSE 0
    BY <2>4, <2>5 DEF Queued
  <2>8. QED  BY <1>1, <1>4, <2>6, <2>7, EthTxAssumption DEF Ring
<1>6. queue # <<>>
  BY <1>1, <1>2, EmptySeq
<1>7. /\ Tail(queue) \in Seq(Frames) /\ Len(Tail(queue)) = Queued - 1
      /\ \A k \in 1 .. (Queued - 1) : Tail(queue)[k] = queue[k + 1]
  BY <1>2, <1>6, HeadTailProperties
<1>8. ASSUME NEW k \in 1 .. (Queued - 1) PROVE queue'[k] = Tail(queue)[k]
  <2>1. Place(k - 1)' = Place(k)
    BY <1>1, <1>4, EthTxAssumption DEF Place, Ring
  <2>2. k \in 1 .. Queued' /\ k + 1 \in 1 .. Queued /\ (k + 1) - 1 = k
    BY <1>1, <1>5
  <2>3. queue'[k] = buf[Place(k)][1]
    BY <1>3, <2>1, <2>2
  <2>4. queue[k + 1] = buf[Place(k)][1]
    BY <1>2, <2>2
  <2>5. QED  BY <1>7, <2>3, <2>4
<1>9. queue' = Tail(queue)
  BY <1>1, <1>3, <1>5, <1>7, <1>8, SeqEqual
<1>10. buf[dma] = <<Head(queue)>>
  <2>1. Place(0) = dma
    BY <1>1, EthTxAssumption DEF Place, Ring
  <2>2. 1 \in 1 .. Queued /\ 1 - 1 = 0
    BY <1>1
  <2>3. queue[1] = buf[dma][1]
    BY <1>2, <2>1, <2>2
  <2>4. PICK f \in Frames : buf[dma] = <<f>>
    BY <1>1 DEF HeldInv, Contents
  <2>5. Head(queue) = queue[1]
    BY <1>2, <1>6
  <2>6. QED  BY <2>3, <2>4, <2>5
<1>11. QED  BY <1>6, <1>9, <1>10

\* HAL_ETH_TransmitFrame hands the frame over: it joins the queue at its end.
LEMMA QueueGrows ==
  ASSUME TxInv, HeldInv, TxInv', HeldInv', ~own[TxDesc], NEW f \in Frames, buf[TxDesc] = <<f>>,
         TxDesc' = NextDesc(TxDesc), own' = [own EXCEPT ![TxDesc] = TRUE],
         UNCHANGED <<buf, dma>>
  PROVE  Len(queue) < ETH_TXBUFNB /\ queue' = Append(queue, f)
<1>1. /\ dma \in Ring /\ TxDesc \in Ring /\ own \in [Ring -> BOOLEAN]
      /\ Queued \in 0 .. ETH_TXBUFNB /\ Queued < ETH_TXBUFNB /\ Place(Queued) = TxDesc
      /\ own[dma] <=> Queued > 0
  BY QueuedIs DEF TxInv, TypeOK
<1>2. /\ queue \in Seq(Frames) /\ Len(queue) = Queued
      /\ \A k \in 1 .. Queued : queue[k] = buf[Place(k - 1)][1]
  BY QueueIs DEF QueueReads
<1>3. /\ queue' \in Seq(Frames) /\ Len(queue') = Queued'
      /\ \A k \in 1 .. Queued' : queue'[k] = buf'[Place(k - 1)'][1]
  BY QueueIsNext DEF QueueReads
<1>4. TxDesc' = IF TxDesc = ETH_TXBUFNB - 1 THEN 0 ELSE TxDesc + 1
  BY <1>1, NextDescIs
<1>5. Queued' = Queued + 1
  <2>1. own'[dma'] <=> own[dma] \/ dma = TxDesc
    BY <1>1
  <2>2. own'[dma']
    BY <1>1, <2>1, EthTxAssumption DEF Queued, Ring
  <2>3. QED  BY <1>1, <1>4, <2>2, EthTxAssumption DEF Queued, Ring
<1>6. ASSUME NEW k \in 1 .. (Queued + 1) PROVE queue'[k] = Append(queue, f)[k]
  <2>1. queue'[k] = buf[Place(k - 1)][1]
    BY <1>3, <1>5 DEF Place
  <2>2. CASE k = Queued + 1
    <3>1. k - 1 = Queued
      BY <1>1, <2>2
    <3>2. queue'[k] = f
      BY <1>1, <2>1, <3>1
    <3>3. Append(queue, f)[k] = f
      BY <1>2, <2>2
    <3>4. QED  BY <3>2, <3>3
  <2>3. CASE k # Queued + 1
    <3>1. k \in 1 .. Queued
      BY <1>1, <2>3
    <3>2. Append(queue, f)[k] = queue[k]
      BY <1>2, <3>1
    <3>3. QED  BY <1>2, <2>1, <3>1, <3>2
  <2>4. QED  BY <2>2, <2>3
<1>7. Append(queue, f) \in Seq(Frames) /\ Len(Append(queue, f)) = Queued + 1
  BY <1>2
<1>8. queue' = Append(queue, f)
  BY <1>1, <1>3, <1>5, <1>6, <1>7, SeqEqual
<1>9. QED  BY <1>1, <1>2, <1>8

\* Every step of the transmit path is a step of the queue or leaves it alone.
LEMMA StepIsQueueStep ==
  TxInv /\ HeldInv /\ [Next]_vars => [Queue!Next]_<<queue, wire>>
<1> SUFFICES ASSUME TxInv, HeldInv, [Next]_vars
             PROVE  Queue!Next \/ (queue' = queue /\ wire' = wire)
  OBVIOUS
<1>1. TxInv' /\ HeldInv'
  BY TxStepInv, HeldStep
<1>2. /\ own \in [Ring -> BOOLEAN] /\ buf \in [Ring -> Contents] /\ p \in Contents
      /\ TxDesc \in Ring /\ dma \in Ring
  BY DEF TxInv, TypeOK
<1>3. CASE /\ own' = own /\ dma' = dma /\ TxDesc' = TxDesc /\ wire' = wire
           /\ \A i \in Ring : own[i] => buf'[i] = buf[i]
  <2>1. Queued' = Queued
    BY <1>3 DEF Queued
  <2>2. QED  BY <1>1, <1>3, <2>1, QueueStays
<1>4. ASSUME NEW f \in Frames, Call(f)
      PROVE  Queue!Next \/ (queue' = queue /\ wire' = wire)
  BY <1>3, <1>4 DEF Call, hardware
<1>5. CASE Copy
  BY <1>2, <1>3, <1>5 DEF Copy, hardware
<1>6. CASE Transmit
  <2>1. ~own[TxDesc] /\ buf[TxDesc] = p /\ p # <<>>
    BY <1>6 DEF Transmit, HeldInv
  <2>2. PICK f \in Frames : buf[TxDesc] = <<f>>
    BY <1>2, <2>1 DEF Contents
  <2>3. /\ TxDesc' = NextDesc(TxDesc) /\ own' = [own EXCEPT ![TxDesc] = TRUE]
        /\ UNCHANGED <<buf, dma, wire>>
    BY <1>6, <2>1 DEF Transmit, hardware
  <2>4. Len(queue) < ETH_TXBUFNB /\ queue' = Append(queue, f)
    BY <1>1, <2>1, <2>2, <2>3, QueueGrows
  <2>5. QED  BY <2>3, <2>4 DEF Queue!Next, Queue!Accept
<1>7. CASE Poll
  BY <1>3, <1>7 DEF Poll
<1>8. CASE Error
  BY <1>3, <1>8 DEF Error
<1>9. CASE DmaSends
  <2>1. queue # <<>> /\ queue' = Tail(queue) /\ buf[dma] = <<Head(queue)>>
    BY <1>1, <1>9, QueueShrinks DEF DmaSends, driver
  <2>2. QED  BY <1>9, <2>1 DEF DmaSends, Queue!Next, Queue!Leave
<1>10. CASE DmaUnderflows
  <2>1. queue # <<>> /\ queue' = Tail(queue)
    BY <1>1, <1>10, QueueShrinks DEF DmaUnderflows, driver
  <2>2. QED  BY <1>10, <2>1 DEF DmaUnderflows, Queue!Next, Queue!Spoil
<1>11. CASE DmaSuspends
  BY <1>3, <1>11 DEF DmaSuspends, driver
<1>12. CASE UNCHANGED vars
  BY <1>3, <1>12 DEF vars, driver, hardware
<1>13. QED
  BY <1>4, <1>5, <1>6, <1>7, <1>8, <1>9, <1>10, <1>11, <1>12 DEF Next, low_level_output, DMA

\* The ring and its driver are a queue of as many places as there are descriptors:
\* what HAL_ETH_TransmitFrame accepts leaves in order and unchanged, or is spoilt by an
\* underflow.
THEOREM EthTxIsAQueue == Spec => SendsInOrder
<1>1. Init => Queue!Init
  <2> SUFFICES ASSUME Init PROVE Queue!Init
    OBVIOUS
  <2>1. TxInv /\ HeldInv
    BY TxInitInv, EthTxAssumption DEF Init, HeldInv, Ring
  <2>2. Queued = 0
    BY EthTxAssumption DEF Init, Queued, Ring
  <2>3. queue \in Seq(Frames) /\ Len(queue) = 0
    BY <2>1, <2>2, QueueIs DEF QueueReads
  <2>4. queue = <<>>
    BY <2>3, EmptySeq
  <2>5. QED  BY <2>4 DEF Init, Queue!Init
<1>2. Init => HeldInv
  BY EthTxAssumption DEF Init, HeldInv, Ring
<1>3. TxInv /\ HeldInv /\ [Next]_vars => HeldInv'
  BY HeldStep
<1>4. TxInv /\ HeldInv /\ [Next]_vars => [Queue!Next]_<<queue, wire>>
  BY StepIsQueueStep
<1>5. QED  BY <1>1, <1>2, <1>3, <1>4, TxAlways, PTL DEF Spec, SendsInOrder, Queue!Spec

=============================================================================
