----------------------------- MODULE EthRxProofs -----------------------------
(***************************************************************************)
(* Proofs about EthRx, for every number of descriptors and of frames, and  *)
(* for every use in which main does not poll while frames may take two     *)
(* buffers: the ring is cut in two, what is copied cannot be overwritten,  *)
(* and lwIP gets the frames once and in order, with none disappearing.     *)
(* Where main does not poll, nothing ever reaches lwIP.                    *)
(***************************************************************************)
EXTENDS EthRx, SequenceTheorems, TLAPS

\* The uses the proofs are about.  In the others every property can fail.
Apart == ~(use.polls /\ use.long)

\* The descriptor k places after i.
Place(i, k) == (i + k) % ETH_RXBUFNB

LEMMA PlaceIs ==
  ASSUME NEW i \in Ring, NEW k \in 0 .. ETH_RXBUFNB
  PROVE  /\ Place(i, k) = IF i + k < ETH_RXBUFNB THEN i + k ELSE i + k - ETH_RXBUFNB
         /\ Place(i, k) \in Ring
<1>1. ETH_RXBUFNB \in Nat \ {0} /\ i \in 0 .. (ETH_RXBUFNB - 1)
  BY EthRxAssumption DEF Ring
<1>2. ASSUME NEW x \in 0 .. (2 * ETH_RXBUFNB - 1)
      PROVE  x % ETH_RXBUFNB = IF x < ETH_RXBUFNB THEN x ELSE x - ETH_RXBUFNB
  BY <1>1
<1>3. i + k \in 0 .. (2 * ETH_RXBUFNB - 1)
  BY <1>1
<1>4. Place(i, k) = IF i + k < ETH_RXBUFNB THEN i + k ELSE i + k - ETH_RXBUFNB
  <2>1. PICK x \in 0 .. (2 * ETH_RXBUFNB - 1) : x = i + k
    BY <1>3
  <2>2. x % ETH_RXBUFNB = IF x < ETH_RXBUFNB THEN x ELSE x - ETH_RXBUFNB
    BY <1>2
  <2>3. Place(i, k) = x % ETH_RXBUFNB
    BY <2>1 DEF Place
  <2>4. QED  BY <1>1, <2>1, <2>2, <2>3
<1>5. QED  BY <1>1, <1>4 DEF Ring

LEMMA NextDescIs ==
  ASSUME NEW i \in Ring
  PROVE  NextDesc(i) = Place(i, 1) /\ NextDesc(i) \in Ring
<1>1. 1 \in 0 .. ETH_RXBUFNB
  BY EthRxAssumption
<1>2. NextDesc(i) = Place(i, 1)
  BY DEF NextDesc, Place
<1>3. QED  BY <1>1, <1>2, PlaceIs

\* Once round the ring every descriptor has its place, and only one.
LEMMA PlaceOnce ==
  ASSUME NEW i \in Ring
  PROVE  /\ \A j, k \in 0 .. (ETH_RXBUFNB - 1) : Place(i, j) = Place(i, k) => j = k
         /\ \A d \in Ring : \E k \in 0 .. (ETH_RXBUFNB - 1) : d = Place(i, k)
         /\ Place(i, 0) = i /\ Place(i, ETH_RXBUFNB) = i
<1>1. ETH_RXBUFNB \in Nat \ {0} /\ i \in 0 .. (ETH_RXBUFNB - 1)
  BY EthRxAssumption DEF Ring
<1>2. \A k \in 0 .. ETH_RXBUFNB :
        Place(i, k) = IF i + k < ETH_RXBUFNB THEN i + k ELSE i + k - ETH_RXBUFNB
  BY PlaceIs
<1>3. \A j, k \in 0 .. (ETH_RXBUFNB - 1) : Place(i, j) = Place(i, k) => j = k
  BY <1>1, <1>2
<1>4. ASSUME NEW d \in Ring PROVE \E k \in 0 .. (ETH_RXBUFNB - 1) : d = Place(i, k)
  <2>1. d \in 0 .. (ETH_RXBUFNB - 1)
    BY DEF Ring
  <2>2. CASE d >= i
    <3>1. d - i \in 0 .. (ETH_RXBUFNB - 1) /\ d - i \in 0 .. ETH_RXBUFNB
      BY <1>1, <2>1, <2>2
    <3>2. d = Place(i, d - i)
      BY <1>1, <1>2, <2>1, <3>1
    <3>3. QED  BY <3>1, <3>2
  <2>3. CASE ~ (d >= i)
    <3>1. /\ d - i + ETH_RXBUFNB \in 0 .. (ETH_RXBUFNB - 1)
          /\ d - i + ETH_RXBUFNB \in 0 .. ETH_RXBUFNB
      BY <1>1, <2>1, <2>3
    <3>2. d = Place(i, d - i + ETH_RXBUFNB)
      BY <1>1, <1>2, <2>1, <3>1
    <3>3. QED  BY <3>1, <3>2
  <2>4. QED  BY <2>2, <2>3
<1>5. Place(i, 0) = i /\ Place(i, ETH_RXBUFNB) = i
  BY <1>1, <1>2
<1>6. QED  BY <1>3, <1>4, <1>5

\* The one after a place, and the places counted from the next descriptor on.
LEMMA PlaceNext ==
  ASSUME NEW i \in Ring, NEW k \in 0 .. (ETH_RXBUFNB - 1)
  PROVE  /\ NextDesc(Place(i, k)) = Place(i, k + 1)
         /\ Place(NextDesc(i), k) = Place(i, k + 1)
<1>1. ETH_RXBUFNB \in Nat \ {0} /\ i \in 0 .. (ETH_RXBUFNB - 1)
  BY EthRxAssumption DEF Ring
<1>2. \A j \in Ring, l \in 0 .. ETH_RXBUFNB :
        /\ Place(j, l) = IF j + l < ETH_RXBUFNB THEN j + l ELSE j + l - ETH_RXBUFNB
        /\ Place(j, l) \in Ring
  BY PlaceIs
<1>3. k \in 0 .. ETH_RXBUFNB /\ k + 1 \in 0 .. ETH_RXBUFNB /\ 1 \in 0 .. ETH_RXBUFNB
  BY <1>1
<1>4. /\ Place(i, k) \in Ring /\ NextDesc(i) \in Ring
      /\ NextDesc(i) = Place(i, 1) /\ NextDesc(Place(i, k)) = Place(Place(i, k), 1)
  BY <1>2, <1>3, NextDescIs
<1>5. \A j \in Ring : j \in 0 .. (ETH_RXBUFNB - 1)
  BY DEF Ring
<1>6. NextDesc(Place(i, k)) = Place(i, k + 1)
  <2>1. /\ Place(i, k) = IF i + k < ETH_RXBUFNB THEN i + k ELSE i + k - ETH_RXBUFNB
        /\ Place(Place(i, k), 1) = IF Place(i, k) + 1 < ETH_RXBUFNB THEN Place(i, k) + 1
                                   ELSE Place(i, k) + 1 - ETH_RXBUFNB
        /\ Place(i, k + 1) = IF i + (k + 1) < ETH_RXBUFNB THEN i + (k + 1)
                             ELSE i + (k + 1) - ETH_RXBUFNB
    BY <1>2, <1>3, <1>4
  <2>2. QED  BY <1>1, <1>4, <2>1
<1>7. Place(NextDesc(i), k) = Place(i, k + 1)
  <2>1. /\ NextDesc(i) = IF i + 1 < ETH_RXBUFNB THEN i + 1 ELSE i + 1 - ETH_RXBUFNB
        /\ Place(NextDesc(i), k) = IF NextDesc(i) + k < ETH_RXBUFNB THEN NextDesc(i) + k
                                   ELSE NextDesc(i) + k - ETH_RXBUFNB
        /\ Place(i, k + 1) = IF i + (k + 1) < ETH_RXBUFNB THEN i + (k + 1)
                             ELSE i + (k + 1) - ETH_RXBUFNB
    BY <1>2, <1>3, <1>4
  <2>2. QED  BY <1>1, <1>4, <2>1
<1>8. QED  BY <1>6, <1>7


-----------------------------------------------------------------------------

Cells == [own : BOOLEAN, fs : BOOLEAN, ls : BOOLEAN, es : BOOLEAN,
          data : 0 .. MaxFrames, segs : 0 .. 2]

\* TypeOK, and that pc and p are functions.
RxTypes ==
  /\ TypeOK
  /\ pc = [a \in Actors |-> pc[a]] /\ p = [a \in Actors |-> p[a]]

\* From first on n descriptors are the processor's, SegCount of them in hand.
Cut(first, n) ==
  /\ SegCount \in {0, 1} /\ SegCount <= n /\ RxDesc = Place(first, SegCount)
  /\ SegCount = 1 => FSRxDesc = first
  /\ dma = Place(first, n)
  /\ \A k \in 0 .. (ETH_RXBUFNB - 1) : desc[Place(first, k)].own <=> k >= n

\* Where frame f can be.
InHand(f) ==
  \/ f \in dropped
  \/ \E n \in 1 .. Len(delivered) : Last(delivered[n]) = f
  \/ \E i \in Ring : ~desc[i].own /\ desc[i].data = f
  \/ \E a \in Actors : p[a] # <<>> /\ Last(p[a]) = f

LEMMA AccountedIs == FramesAccounted <=> \A f \in 1 .. arrived : InHand(f)
  BY DEF FramesAccounted, InHand, CpuOwned

LEMMA AccountedNext == (\A f \in 1 .. arrived' : InHand(f)') => FramesAccounted'
  BY DEF FramesAccounted, InHand, CpuOwned

\* The part of the ring that is the processor's is that of RingIsCut.
LEMMA CutIsCut ==
  ASSUME NEW first \in Ring, NEW n \in 0 .. ETH_RXBUFNB, Cut(first, n)
  PROVE  /\ RingIsCut /\ CpuOwned = Segments(first, n)
<1>1. /\ ETH_RXBUFNB \in Nat \ {0} /\ first \in 0 .. (ETH_RXBUFNB - 1)
  BY EthRxAssumption DEF Ring
<1>2. CpuOwned = Segments(first, n)
  <2>1. ASSUME NEW d \in CpuOwned PROVE d \in Segments(first, n)
    <3>1. d \in Ring /\ ~desc[d].own
      BY DEF CpuOwned
    <3>2. PICK k \in 0 .. (ETH_RXBUFNB - 1) : d = Place(first, k)
      BY <3>1, PlaceOnce
    <3>3. k \in 0 .. (n - 1)
      BY <1>1, <3>1, <3>2 DEF Cut
    <3>4. QED  BY <3>2, <3>3 DEF Segments, Place
  <2>2. ASSUME NEW d \in Segments(first, n) PROVE d \in CpuOwned
    <3>1. PICK k \in 0 .. (n - 1) : d = Place(first, k)
      BY DEF Segments, Place
    <3>2. k \in 0 .. (ETH_RXBUFNB - 1) /\ k \in 0 .. ETH_RXBUFNB /\ ~(k >= n)
      BY <1>1
    <3>3. ~desc[d].own /\ d \in Ring
      BY <3>1, <3>2, PlaceIs DEF Cut
    <3>4. QED  BY <3>3 DEF CpuOwned
  <2>3. QED  BY <2>1, <2>2
<1>3. first = (RxDesc + ETH_RXBUFNB - SegCount) % ETH_RXBUFNB
  <2>1. RxDesc \in 0 .. (ETH_RXBUFNB - 1) /\ SegCount \in 0 .. ETH_RXBUFNB
        /\ RxDesc = IF first + SegCount < ETH_RXBUFNB THEN first + SegCount
                    ELSE first + SegCount - ETH_RXBUFNB
    <3>1. SegCount \in 0 .. ETH_RXBUFNB /\ RxDesc = Place(first, SegCount)
      BY <1>1 DEF Cut
    <3>2. QED  BY <3>1, PlaceIs DEF Ring
  <2>2. PICK x \in 0 .. (2 * ETH_RXBUFNB - 1) : x = RxDesc + ETH_RXBUFNB - SegCount
    BY <1>1, <2>1
  <2>3. x % ETH_RXBUFNB = IF x < ETH_RXBUFNB THEN x ELSE x - ETH_RXBUFNB
    BY <1>1
  <2>4. x % ETH_RXBUFNB = first
    BY <1>1, <2>1, <2>2, <2>3
  <2>5. QED  BY <2>2, <2>4
<1>4. SegCount <= n /\ dma = (first + n) % ETH_RXBUFNB /\ (SegCount > 0 => FSRxDesc = first)
  BY DEF Cut, Place
<1>5. QED  BY <1>2, <1>3, <1>4 DEF RingIsCut

\* The DMA closes its descriptor: the processor's part grows by it, and whatever
\* frame was in hand stays in hand.
LEMMA CloseInRing ==
  ASSUME RxTypes, FramesAccounted, NEW first \in Ring, NEW n \in 0 .. ETH_RXBUFNB,
         Cut(first, n), desc[dma].own, arrived < MaxFrames,
         NEW fs \in BOOLEAN, NEW ls \in BOOLEAN, NEW es \in BOOLEAN, NEW segs \in 0 .. 2,
         DmaClose(fs, ls, es, segs), UNCHANGED use
  PROVE  /\ n < ETH_RXBUFNB /\ n + 1 \in 0 .. ETH_RXBUFNB /\ Cut(first, n + 1)'
         /\ RxTypes' /\ FramesAccounted'
         /\ arrived' = (IF ls THEN arrived + 1 ELSE arrived) /\ midframe' = ~ls
         /\ \A k \in 0 .. (n - 1) : desc'[Place(first, k)] = desc[Place(first, k)]
         /\ LET d == desc'[Place(first, n)]
            IN  d.fs = fs /\ d.ls = ls /\ d.data = arrived + 1 /\ d.segs = segs
<1> DEFINE c == [own |-> FALSE, fs |-> fs, ls |-> ls, es |-> es, data |-> arrived + 1, segs |-> segs]
<1>1. /\ ETH_RXBUFNB \in Nat \ {0} /\ MaxFrames \in Nat
      /\ arrived \in 0 .. MaxFrames /\ dma \in Ring /\ desc \in [Ring -> Cells]
      /\ TypeOK
  BY EthRxAssumption DEF RxTypes, TypeOK, Cells
<1>2. /\ desc' = [desc EXCEPT ![dma] = c] /\ dma' = NextDesc(dma)
      /\ midframe' = ~ls /\ irq' = (irq \/ ls)
      /\ arrived' = (IF ls THEN arrived + 1 ELSE arrived)
      /\ UNCHANGED <<rbus, RxDesc, SegCount, FSRxDesc, length, locked, pc, p, delivered, dropped, use>>
  BY DEF DmaClose, infos
<1>3. c \in Cells
  BY <1>1 DEF Cells
<1>4. /\ SegCount \in {0, 1} /\ SegCount <= n /\ RxDesc = Place(first, SegCount)
      /\ SegCount = 1 => FSRxDesc = first
      /\ dma = Place(first, n)
      /\ \A k \in 0 .. (ETH_RXBUFNB - 1) : desc[Place(first, k)].own <=> k >= n
  BY DEF Cut
<1>5. n < ETH_RXBUFNB
  <2> SUFFICES ASSUME n = ETH_RXBUFNB PROVE FALSE
    BY <1>1
  <2>1. dma = Place(first, 0) /\ 0 \in 0 .. (ETH_RXBUFNB - 1)
    BY <1>1, <1>4, PlaceOnce
  <2>2. QED  BY <1>1, <1>4, <2>1
<1>6. n \in 0 .. (ETH_RXBUFNB - 1) /\ n + 1 \in 0 .. ETH_RXBUFNB
  BY <1>1, <1>5
<1>7. c.own = FALSE /\ c.fs = fs /\ c.ls = ls /\ c.data = arrived + 1 /\ c.segs = segs
  OBVIOUS
<1> HIDE DEF c
<1>8. desc'[dma] = c /\ \A d \in Ring : d # dma => desc'[d] = desc[d]
  BY <1>1, <1>2
<1>9. ASSUME NEW k \in 0 .. (ETH_RXBUFNB - 1), k # n
      PROVE  desc'[Place(first, k)] = desc[Place(first, k)]
  <2>1. Place(first, k) # dma
    BY <1>4, <1>6, <1>9, PlaceOnce
  <2>2. Place(first, k) \in Ring
    <3>1. k \in 0 .. ETH_RXBUFNB
      BY <1>1
    <3>2. QED  BY <3>1, PlaceIs
  <2>3. QED  BY <1>8, <2>1, <2>2
<1>10. Cut(first, n + 1)'
  <2>1. \A k \in 0 .. (ETH_RXBUFNB - 1) : desc'[Place(first, k)].own <=> k >= n + 1
    <3> SUFFICES ASSUME NEW k \in 0 .. (ETH_RXBUFNB - 1)
                 PROVE  desc'[Place(first, k)].own <=> k >= n + 1
      OBVIOUS
    <3>1. CASE k = n
      BY <1>4, <1>6, <1>7, <1>8, <3>1
    <3>2. CASE k # n
      <4>1. desc'[Place(first, k)].own <=> k >= n
        BY <1>4, <1>9, <3>2
      <4>2. k >= n <=> k >= n + 1
        BY <1>6, <3>2
      <4>3. QED  BY <4>1, <4>2
    <3>3. QED  BY <3>1, <3>2
  <2>2. dma' = Place(first, n + 1)
    BY <1>2, <1>4, <1>6, PlaceNext
  <2>3. SegCount <= n + 1
    BY <1>4, <1>6
  <2>4. QED  BY <1>2, <1>4, <2>1, <2>2, <2>3 DEF Cut
<1>11. RxTypes'
  <2>1. desc' \in [Ring -> Cells]
    BY <1>1, <1>2, <1>3
  <2>2. dma' \in Ring
    BY <1>1, <1>2, NextDescIs
  <2>3. arrived' \in 0 .. MaxFrames
    BY <1>1, <1>2
  <2>4. midframe' \in BOOLEAN /\ irq' \in BOOLEAN
    BY <1>2
  <2>5. TypeOK'
    BY <1>1, <1>2, <2>1, <2>2, <2>3, <2>4 DEF TypeOK, Cells
  <2>6. QED  BY <1>2, <2>5 DEF RxTypes
<1>12. FramesAccounted'
  <2>1. ASSUME NEW f \in 1 .. arrived' PROVE InHand(f)'
    <3>1. CASE f = arrived + 1
      <4>1. dma \in Ring /\ ~desc'[dma].own /\ desc'[dma].data = f
        BY <1>1, <1>7, <1>8, <3>1
      <4>2. QED  BY <4>1 DEF InHand
    <3>2. CASE f # arrived + 1
      <4>1. f \in 1 .. arrived
        BY <1>1, <1>2, <3>2
      <4>2. InHand(f)
        BY <4>1, AccountedIs
      <4>3. ASSUME NEW i \in Ring, ~desc[i].own, desc[i].data = f
            PROVE  ~desc'[i].own /\ desc'[i].data = f
        BY <1>8, <4>3
      <4>4. QED  BY <1>2, <4>2, <4>3 DEF InHand
    <3>3. QED  BY <3>1, <3>2
  <2>2. QED  BY <2>1, AccountedNext
<1>13. /\ \A k \in 0 .. (n - 1) : desc'[Place(first, k)] = desc[Place(first, k)]
       /\ desc'[Place(first, n)] = c
  <2>1. \A k \in 0 .. (n - 1) : k \in 0 .. (ETH_RXBUFNB - 1) /\ k # n
    BY <1>1, <1>6
  <2>2. QED  BY <1>4, <1>8, <1>9, <2>1
<1>14. QED
  BY <1>2, <1>5, <1>6, <1>7, <1>10, <1>11, <1>12, <1>13

-----------------------------------------------------------------------------

\* A frame in one piece.
Single == {<<f>> : f \in 1 .. MaxFrames}

\* Every frame up to low has left the ring, and no other; the next, if main is
\* about to release its descriptor, is in its pbuf or was dropped.  The handler
\* takes nothing, because no frame has a first part that is not the last.
Passed(low) ==
  /\ pc["isr"] \in {"idle", "test", "clear"} /\ p["isr"] = <<>>
  /\ locked <=> pc["main"] = "locked"
  /\ SegCount = 1 <=> pc["main"] \in {"copy", "release"}
  /\ SegCount = 1 => length = 1
  /\ delivered \in Seq(Single) /\ OnceInOrder
  /\ \A m \in 1 .. Len(delivered) : Last(delivered[m]) <= low
  /\ pc["main"] \in {"idle", "locked", "copy"} => p["main"] = <<>>
  /\ pc["main"] = "release" =>
       \/ p["main"] = <<low + 1>>
       \/ p["main"] = <<>> /\ (low + 1) \in dropped
  /\ pc["main"] = "resume" =>
       \/ p["main"] = <<>>
       \/ /\ p["main"] = <<low>> /\ low > 0
          /\ \A m \in 1 .. Len(delivered) : Last(delivered[m]) < low
  /\ ~use.polls => pc["main"] = "idle" /\ delivered = <<>>

\* The processor's descriptors hold the frames after low, each in one buffer.
Holds(first, n, low) ==
  \A k \in 0 .. (n - 1) :
    LET d == desc[Place(first, k)]
    IN  d.fs /\ d.ls /\ d.segs = 1 /\ d.data = low + k + 1

\* Frames fit one buffer; main may poll.
Short(first, n) ==
  \E low \in Nat : /\ ~midframe /\ arrived = low + n
                   /\ Passed(low) /\ Holds(first, n, low)

\* Main does not poll, and frames may take two buffers.  The handler can take the
\* first part of a frame; the last of one, whole or not, it leaves where it is, and
\* everything after it.
Long(first, n) ==
  /\ ~use.polls /\ pc["main"] = "idle"
  /\ pc["isr"] \in {"idle", "test", "call", "locked", "clear"}
  /\ p = [a \in Actors |-> <<>>] /\ delivered = <<>> /\ dropped = {}
  /\ midframe => n < ETH_RXBUFNB /\ arrived < MaxFrames
  /\ \A k \in 0 .. (n - 1) :
       LET d == desc[Place(first, k)]
       IN  ~d.ls => d.fs /\ (IF k + 1 < n THEN desc[Place(first, k + 1)].ls ELSE midframe)
  /\ SegCount = 1 => ~desc[first].ls
  /\ pc["isr"] \in {"call", "locked"} => SegCount = 0 /\ n > 0 /\ ~desc[first].ls

Shape(first, n) == IF use.long THEN Long(first, n) ELSE Short(first, n)

\* The inductive invariant.
RxInv ==
  /\ RxTypes /\ Apart /\ FramesAccounted
  /\ \E first \in Ring, n \in 0 .. ETH_RXBUFNB : Cut(first, n) /\ Shape(first, n)

LEMMA RxInit == Init /\ Apart => RxInv
<1> SUFFICES ASSUME Init, Apart PROVE RxInv
  OBVIOUS
<1>1. ETH_RXBUFNB \in Nat \ {0} /\ MaxFrames \in Nat /\ 0 \in Ring /\ 0 \in 0 .. ETH_RXBUFNB
  BY EthRxAssumption DEF Ring
<1>2. desc \in [Ring -> Cells] /\ \A i \in Ring : desc[i].own = TRUE
  <2> DEFINE c == [own |-> TRUE, fs |-> FALSE, ls |-> FALSE, es |-> FALSE, data |-> 0, segs |-> 0]
  <2>1. c \in Cells /\ c.own = TRUE
    BY <1>1 DEF Cells
  <2>2. desc = [i \in Ring |-> c]
    BY DEF Init
  <2> HIDE DEF c
  <2>3. QED  BY <2>1, <2>2
<1>3. /\ pc = [a \in Actors |-> "idle"] /\ p = [a \in Actors |-> <<>>]
      /\ pc["main"] = "idle" /\ pc["isr"] = "idle" /\ p["main"] = <<>> /\ p["isr"] = <<>>
  BY DEF Init, Actors
<1>4. TypeOK
  BY <1>1, <1>2, <1>3 DEF Init, TypeOK, Cells
<1>5. RxTypes
  BY <1>3, <1>4 DEF RxTypes
<1>6. FramesAccounted
  BY AccountedIs DEF Init
<1>7. Cut(0, 0)
  <2>1. Place(0, 0) = 0
    BY <1>1, PlaceOnce
  <2>2. \A k \in 0 .. (ETH_RXBUFNB - 1) : desc[Place(0, k)].own
    <3>1. \A k \in 0 .. (ETH_RXBUFNB - 1) : k \in 0 .. ETH_RXBUFNB
      BY <1>1
    <3>2. QED  BY <1>1, <1>2, <3>1, PlaceIs
  <2>3. \A k \in 0 .. (ETH_RXBUFNB - 1) : k >= 0
    OBVIOUS
  <2>4. SegCount = 0 /\ RxDesc = 0 /\ dma = 0
    BY DEF Init
  <2>5. QED  BY <2>1, <2>2, <2>3, <2>4 DEF Cut
<1>8. Shape(0, 0)
  <2>1. delivered = <<>> /\ delivered \in Seq(Single) /\ Len(delivered) = 0 /\ dropped = {}
    BY DEF Init
  <2>2. CASE use.long
    <3>1. ~use.polls
      BY <2>2 DEF Apart
    <3>2. midframe = FALSE /\ SegCount = 0 /\ \A k \in 0 .. (0 - 1) : FALSE
      BY DEF Init
    <3>3. Long(0, 0)
      BY <1>3, <2>1, <3>1, <3>2 DEF Long
    <3>4. QED  BY <2>2, <3>3 DEF Shape
  <2>3. CASE ~use.long
    <3>1. Passed(0)
      BY <1>3, <2>1 DEF Init, Passed, OnceInOrder
    <3>2. Holds(0, 0, 0)
      BY DEF Holds
    <3>3. midframe = FALSE /\ arrived = 0
      BY DEF Init
    <3>4. Short(0, 0)
      <4>1. 0 \in Nat /\ arrived = 0 + 0
        BY <3>3
      <4>2. QED  BY <3>1, <3>2, <3>3, <4>1 DEF Short
    <3>5. QED  BY <2>3, <3>4 DEF Shape
  <2>4. QED  BY <2>2, <2>3
<1>9. QED  BY <1>1, <1>5, <1>6, <1>7, <1>8 DEF RxInv

\* The DMA closes a whole frame of one buffer.
LEMMA CloseShort ==
  ASSUME RxInv, UNCHANGED use, desc[dma].own, arrived < MaxFrames, ~midframe,
         DmaClose(TRUE, TRUE, FALSE, 1) \/ (use.long /\ DmaClose(TRUE, TRUE, TRUE, 1))
  PROVE  RxInv'
<1>1. PICK first \in Ring, n \in 0 .. ETH_RXBUFNB : Cut(first, n) /\ Shape(first, n)
  BY DEF RxInv
<1>2. RxTypes /\ FramesAccounted /\ Apart
  BY DEF RxInv
<1>3. PICK es \in BOOLEAN : DmaClose(TRUE, TRUE, es, 1)
  OBVIOUS
<1>4. /\ n < ETH_RXBUFNB /\ n + 1 \in 0 .. ETH_RXBUFNB /\ Cut(first, n + 1)'
      /\ RxTypes' /\ FramesAccounted'
      /\ arrived' = arrived + 1 /\ midframe' = FALSE
      /\ \A k \in 0 .. (n - 1) : desc'[Place(first, k)] = desc[Place(first, k)]
      /\ LET d == desc'[Place(first, n)]
         IN  d.fs = TRUE /\ d.ls = TRUE /\ d.data = arrived + 1 /\ d.segs = 1
  <2>1. TRUE \in BOOLEAN /\ 1 \in 0 .. 2
    OBVIOUS
  <2>2. /\ n < ETH_RXBUFNB /\ n + 1 \in 0 .. ETH_RXBUFNB /\ Cut(first, n + 1)'
        /\ RxTypes' /\ FramesAccounted'
        /\ arrived' = (IF TRUE THEN arrived + 1 ELSE arrived) /\ midframe' = ~TRUE
        /\ \A k \in 0 .. (n - 1) : desc'[Place(first, k)] = desc[Place(first, k)]
        /\ LET d == desc'[Place(first, n)]
           IN  d.fs = TRUE /\ d.ls = TRUE /\ d.data = arrived + 1 /\ d.segs = 1
    BY <1>1, <1>2, <1>3, <2>1, CloseInRing, Zenon
  <2>3. QED  BY <2>2
<1>5. UNCHANGED <<SegCount, FSRxDesc, length, locked, pc, p, delivered, dropped, use>>
  BY <1>3 DEF DmaClose, infos
<1>6. /\ ETH_RXBUFNB \in Nat \ {0} /\ n \in Nat /\ arrived \in Nat
      /\ \A k \in 0 .. ((n + 1) - 1) : k = n \/ k \in 0 .. (n - 1)
  BY <1>2, EthRxAssumption DEF RxTypes, TypeOK
<1>7. Apart'
  BY <1>2, <1>5 DEF Apart
<1>8. CASE ~use.long
  <2>1. PICK low \in Nat : ~midframe /\ arrived = low + n /\ Passed(low) /\ Holds(first, n, low)
    BY <1>1, <1>8 DEF Shape, Short
  <2>2. Passed(low)'
    BY <1>5, <2>1 DEF Passed, OnceInOrder
  <2>3. Holds(first, n + 1, low)'
    <3> SUFFICES ASSUME NEW k \in 0 .. ((n + 1) - 1)
                 PROVE  LET d == desc'[Place(first, k)]
                        IN  d.fs /\ d.ls /\ d.segs = 1 /\ d.data = low + k + 1
      BY DEF Holds
    <3>1. CASE k = n
      BY <1>4, <2>1, <3>1
    <3>2. CASE k \in 0 .. (n - 1)
      BY <1>4, <2>1, <3>2 DEF Holds
    <3>3. QED  BY <1>6, <3>1, <3>2
  <2>4. arrived' = low + (n + 1)
    BY <1>4, <1>6, <2>1
  <2>5. Short(first, n + 1)'
    BY <1>4, <2>2, <2>3, <2>4 DEF Short
  <2>6. Shape(first, n + 1)'
    BY <1>5, <1>8, <2>5 DEF Shape
  <2>7. QED  BY <1>4, <1>7, <2>6 DEF RxInv
<1>9. CASE use.long
  <2>1. Long(first, n)
    BY <1>1, <1>9 DEF Shape
  <2>2. ASSUME NEW k \in 0 .. ((n + 1) - 1), ~desc'[Place(first, k)].ls
        PROVE  /\ desc'[Place(first, k)].fs
               /\ IF k + 1 < n + 1 THEN desc'[Place(first, k + 1)].ls ELSE midframe'
    <3>1. k \in 0 .. (n - 1)
      BY <1>4, <1>6, <2>2
    <3>2. ~desc[Place(first, k)].ls /\ desc'[Place(first, k)] = desc[Place(first, k)]
      BY <1>4, <2>2, <3>1
    <3>3. /\ desc[Place(first, k)].fs
          /\ IF k + 1 < n THEN desc[Place(first, k + 1)].ls ELSE midframe
      BY <2>1, <3>1, <3>2 DEF Long
    <3>4. k + 1 < n
      BY <3>3
    <3>5. k + 1 \in 0 .. (n - 1) /\ k + 1 < n + 1
      BY <1>6, <3>1, <3>4
    <3>6. QED  BY <1>4, <3>2, <3>3, <3>4, <3>5
  <2>3. SegCount \in {0, 1} /\ SegCount <= n /\ first = Place(first, 0)
    BY <1>1, PlaceOnce DEF Cut
  <2>4. n > 0 => desc'[first] = desc[first]
    <3>1. n > 0 => 0 \in 0 .. (n - 1)
      BY <1>6
    <3>2. QED  BY <1>4, <2>3, <3>1
  <2>5. SegCount' = 1 => ~desc'[first].ls
    BY <1>5, <1>6, <2>1, <2>3, <2>4 DEF Long
  <2>6. pc'["isr"] \in {"call", "locked"} => SegCount' = 0 /\ n + 1 > 0 /\ ~desc'[first].ls
    BY <1>5, <1>6, <2>1, <2>4 DEF Long
  <2>7. Long(first, n + 1)'
    BY <1>4, <1>5, <2>1, <2>2, <2>5, <2>6 DEF Long
  <2>8. Shape(first, n + 1)'
    BY <1>5, <1>9, <2>7 DEF Shape
  <2>9. QED  BY <1>4, <1>7, <2>8 DEF RxInv
<1>10. QED  BY <1>8, <1>9

\* The DMA closes the first part of a frame that goes on in the next descriptor.
LEMMA CloseFirst ==
  ASSUME RxInv, UNCHANGED use, use.long, desc[dma].own, arrived < MaxFrames, ~midframe,
         desc[NextDesc(dma)].own, ETH_RXBUFNB > 1, DmaClose(TRUE, FALSE, FALSE, 0)
  PROVE  RxInv'
<1>1. PICK first \in Ring, n \in 0 .. ETH_RXBUFNB : Cut(first, n) /\ Shape(first, n)
  BY DEF RxInv
<1>2. RxTypes /\ FramesAccounted /\ Apart
  BY DEF RxInv
<1>3. /\ n < ETH_RXBUFNB /\ n + 1 \in 0 .. ETH_RXBUFNB /\ Cut(first, n + 1)'
      /\ RxTypes' /\ FramesAccounted'
      /\ arrived' = arrived /\ midframe' = TRUE
      /\ \A k \in 0 .. (n - 1) : desc'[Place(first, k)] = desc[Place(first, k)]
      /\ LET d == desc'[Place(first, n)] IN d.fs = TRUE /\ d.ls = FALSE
  <2>1. TRUE \in BOOLEAN /\ FALSE \in BOOLEAN /\ 0 \in 0 .. 2
    OBVIOUS
  <2>2. /\ n < ETH_RXBUFNB /\ n + 1 \in 0 .. ETH_RXBUFNB /\ Cut(first, n + 1)'
        /\ RxTypes' /\ FramesAccounted'
        /\ arrived' = (IF FALSE THEN arrived + 1 ELSE arrived) /\ midframe' = ~FALSE
        /\ \A k \in 0 .. (n - 1) : desc'[Place(first, k)] = desc[Place(first, k)]
        /\ LET d == desc'[Place(first, n)]
           IN  d.fs = TRUE /\ d.ls = FALSE /\ d.data = arrived + 1 /\ d.segs = 0
    BY <1>1, <1>2, <2>1, CloseInRing, Zenon
  <2>3. QED  BY <2>2
<1>4. UNCHANGED <<SegCount, pc, p, delivered, dropped, use>>
  BY DEF DmaClose, infos
<1>5. /\ ETH_RXBUFNB \in Nat \ {0} /\ n \in Nat /\ n \in 0 .. (ETH_RXBUFNB - 1)
      /\ \A k \in 0 .. ((n + 1) - 1) : k = n \/ k \in 0 .. (n - 1)
  BY <1>3, EthRxAssumption
<1>6. Long(first, n)
  BY <1>1 DEF Shape
<1>7. n + 1 < ETH_RXBUFNB
  <2> SUFFICES ASSUME n + 1 = ETH_RXBUFNB PROVE FALSE
    BY <1>3, <1>5
  <2>1. NextDesc(dma) = Place(first, n + 1)
    BY <1>1, <1>5, PlaceNext DEF Cut
  <2>2. Place(first, n + 1) = Place(first, 0)
    BY PlaceOnce
  <2>3. 0 \in 0 .. (ETH_RXBUFNB - 1) /\ ~(0 >= n)
    BY <1>5
  <2>4. QED  BY <1>1, <2>1, <2>2, <2>3 DEF Cut
<1>8. ASSUME NEW k \in 0 .. ((n + 1) - 1), ~desc'[Place(first, k)].ls
      PROVE  /\ desc'[Place(first, k)].fs
             /\ IF k + 1 < n + 1 THEN desc'[Place(first, k + 1)].ls ELSE midframe'
  <2>1. CASE k = n
    BY <1>3, <1>5, <2>1
  <2>2. CASE k \in 0 .. (n - 1)
    <3>1. ~desc[Place(first, k)].ls /\ desc'[Place(first, k)] = desc[Place(first, k)]
      BY <1>3, <1>8, <2>2
    <3>2. /\ desc[Place(first, k)].fs
          /\ IF k + 1 < n THEN desc[Place(first, k + 1)].ls ELSE midframe
      BY <1>6, <2>2, <3>1 DEF Long
    <3>3. k + 1 < n
      BY <3>2
    <3>4. k + 1 \in 0 .. (n - 1) /\ k + 1 < n + 1
      BY <1>5, <2>2, <3>3
    <3>5. QED  BY <1>3, <3>1, <3>2, <3>3, <3>4
  <2>3. QED  BY <1>5, <2>1, <2>2
<1>9. SegCount \in {0, 1} /\ SegCount <= n /\ first = Place(first, 0)
  BY <1>1, PlaceOnce DEF Cut
<1>10. n > 0 => desc'[first] = desc[first]
  <2>1. n > 0 => 0 \in 0 .. (n - 1)
    BY <1>5
  <2>2. QED  BY <1>3, <1>9, <2>1
<1>11. SegCount' = 1 => ~desc'[first].ls
  BY <1>4, <1>5, <1>6, <1>9, <1>10 DEF Long
<1>12. pc'["isr"] \in {"call", "locked"} => SegCount' = 0 /\ n + 1 > 0 /\ ~desc'[first].ls
  BY <1>4, <1>5, <1>6, <1>10 DEF Long
<1>13. Long(first, n + 1)'
  BY <1>3, <1>4, <1>6, <1>7, <1>8, <1>11, <1>12 DEF Long
<1>14. Shape(first, n + 1)' /\ Apart'
  BY <1>2, <1>4, <1>13 DEF Shape, Apart
<1>15. QED  BY <1>3, <1>14 DEF RxInv

\* The DMA closes the last part of a frame.
LEMMA CloseLast ==
  ASSUME RxInv, UNCHANGED use, midframe, DmaClose(FALSE, TRUE, FALSE, 2)
  PROVE  RxInv'
<1>1. PICK first \in Ring, n \in 0 .. ETH_RXBUFNB : Cut(first, n) /\ Shape(first, n)
  BY DEF RxInv
<1>2. RxTypes /\ FramesAccounted /\ Apart
  BY DEF RxInv
<1>3. Long(first, n) /\ use.long
  BY <1>1 DEF Shape, Short
<1>4. /\ ETH_RXBUFNB \in Nat \ {0} /\ n \in Nat /\ n < ETH_RXBUFNB /\ arrived < MaxFrames
      /\ n \in 0 .. (ETH_RXBUFNB - 1)
      /\ \A k \in 0 .. ((n + 1) - 1) : k = n \/ k \in 0 .. (n - 1)
  BY <1>3, EthRxAssumption DEF Long
<1>5. desc[dma].own
  BY <1>1, <1>4 DEF Cut
<1>6. /\ n + 1 \in 0 .. ETH_RXBUFNB /\ Cut(first, n + 1)'
      /\ RxTypes' /\ FramesAccounted' /\ midframe' = FALSE
      /\ \A k \in 0 .. (n - 1) : desc'[Place(first, k)] = desc[Place(first, k)]
      /\ desc'[Place(first, n)].ls = TRUE
  <2>1. TRUE \in BOOLEAN /\ FALSE \in BOOLEAN /\ 2 \in 0 .. 2
    OBVIOUS
  <2>2. /\ n < ETH_RXBUFNB /\ n + 1 \in 0 .. ETH_RXBUFNB /\ Cut(first, n + 1)'
        /\ RxTypes' /\ FramesAccounted'
        /\ arrived' = (IF TRUE THEN arrived + 1 ELSE arrived) /\ midframe' = ~TRUE
        /\ \A k \in 0 .. (n - 1) : desc'[Place(first, k)] = desc[Place(first, k)]
        /\ LET d == desc'[Place(first, n)]
           IN  d.fs = FALSE /\ d.ls = TRUE /\ d.data = arrived + 1 /\ d.segs = 2
    BY <1>1, <1>2, <1>4, <1>5, <2>1, CloseInRing, Zenon
  <2>3. QED  BY <2>2
<1>7. UNCHANGED <<SegCount, pc, p, delivered, dropped, use>>
  BY DEF DmaClose, infos
<1>8. ASSUME NEW k \in 0 .. ((n + 1) - 1), ~desc'[Place(first, k)].ls
      PROVE  /\ desc'[Place(first, k)].fs
             /\ IF k + 1 < n + 1 THEN desc'[Place(first, k + 1)].ls ELSE midframe'
  <2>1. k \in 0 .. (n - 1)
    BY <1>4, <1>6, <1>8
  <2>2. ~desc[Place(first, k)].ls /\ desc'[Place(first, k)] = desc[Place(first, k)]
    BY <1>6, <1>8, <2>1
  <2>3. /\ desc[Place(first, k)].fs
        /\ IF k + 1 < n THEN desc[Place(first, k + 1)].ls ELSE midframe
    BY <1>3, <2>1, <2>2 DEF Long
  <2>4. k + 1 = n \/ (k + 1 \in 0 .. (n - 1) /\ k + 1 < n)
    BY <1>4, <2>1
  <2>5. k + 1 < n + 1
    BY <1>4, <2>1
  <2>6. desc'[Place(first, k + 1)].ls
    BY <1>6, <2>3, <2>4
  <2>7. QED  BY <2>2, <2>3, <2>5, <2>6
<1>9. SegCount \in {0, 1} /\ SegCount <= n /\ first = Place(first, 0)
  BY <1>1, PlaceOnce DEF Cut
<1>10. n > 0 => desc'[first] = desc[first]
  <2>1. n > 0 => 0 \in 0 .. (n - 1)
    BY <1>4
  <2>2. QED  BY <1>6, <1>9, <2>1
<1>11. SegCount' = 1 => ~desc'[first].ls
  BY <1>3, <1>4, <1>7, <1>9, <1>10 DEF Long
<1>12. pc'["isr"] \in {"call", "locked"} => SegCount' = 0 /\ n + 1 > 0 /\ ~desc'[first].ls
  BY <1>3, <1>4, <1>7, <1>10 DEF Long
<1>13. Long(first, n + 1)'
  BY <1>3, <1>6, <1>7, <1>8, <1>11, <1>12 DEF Long
<1>14. Shape(first, n + 1)' /\ Apart'
  BY <1>2, <1>3, <1>7, <1>13 DEF Shape, Apart
<1>15. QED  BY <1>6, <1>14 DEF RxInv

\* A step that changes nothing but the interrupt flags, the lock and where an actor
\* is, as long as those agree.
LEMMA Quiet ==
  ASSUME RxTypes, Apart, FramesAccounted, NEW first \in Ring, NEW n \in 0 .. ETH_RXBUFNB,
         Cut(first, n), Shape(first, n),
         UNCHANGED <<use, desc, dma, midframe, arrived, RxDesc, SegCount, FSRxDesc, length,
                     p, delivered, dropped>>,
         rbus' \in BOOLEAN, irq' \in BOOLEAN, locked' \in BOOLEAN,
         pc' = [a \in Actors |-> pc'[a]],
         pc'["main"] = pc["main"] \/ {pc["main"], pc'["main"]} \subseteq {"idle", "locked"},
         IF use.long
         THEN /\ pc'["main"] = "idle" /\ pc'["isr"] \in {"idle", "test", "call", "locked", "clear"}
              /\ pc'["isr"] \in {"call", "locked"} => SegCount = 0 /\ n > 0 /\ ~desc[first].ls
         ELSE /\ pc'["isr"] \in {"idle", "test", "clear"} /\ (locked' <=> pc'["main"] = "locked")
              /\ use.polls \/ pc'["main"] = pc["main"]
  PROVE  RxInv'
<1>1. Cut(first, n)'
  BY DEF Cut
<1>2. TypeOK'
  BY DEF RxTypes, TypeOK
<1>3. RxTypes' /\ Apart'
  BY <1>2 DEF RxTypes, Apart
<1>4. FramesAccounted'
  BY DEF FramesAccounted, CpuOwned
<1>5. CASE use.long
  <2>1. Long(first, n)'
    BY <1>5 DEF Shape, Long
  <2>2. Shape(first, n)'
    BY <1>5, <2>1 DEF Shape
  <2>3. QED  BY <1>1, <1>3, <1>4, <2>2 DEF RxInv
<1>6. CASE ~use.long
  <2>1. PICK low \in Nat : ~midframe /\ arrived = low + n /\ Passed(low) /\ Holds(first, n, low)
    BY <1>6 DEF Shape, Short
  <2>2. Holds(first, n, low)'
    BY <2>1 DEF Holds
  <2>3. OnceInOrder'
    BY <2>1 DEF Passed, OnceInOrder
  <2>4. Passed(low)'
    BY <1>6, <2>1, <2>3 DEF Passed
  <2>5. Short(first, n)'
    BY <2>1, <2>2, <2>4 DEF Short
  <2>6. Shape(first, n)'
    BY <1>6, <2>5 DEF Shape
  <2>7. QED  BY <1>1, <1>3, <1>4, <2>6 DEF RxInv
<1>7. QED  BY <1>5, <1>6

LEMMA DmaStep == RxInv /\ DMA /\ UNCHANGED use => RxInv'
<1> SUFFICES ASSUME RxInv, DMA, UNCHANGED use PROVE RxInv'
  OBVIOUS
<1>1. CASE DmaShortFrame
  BY <1>1, CloseShort DEF DmaShortFrame
<1>2. CASE DmaLongFrame
  BY <1>2, CloseFirst, CloseShort DEF DmaLongFrame
<1>3. CASE DmaLastPart
  BY <1>3, CloseLast DEF DmaLastPart
<1>4. CASE DmaSuspends
  <2>1. PICK first \in Ring, n \in 0 .. ETH_RXBUFNB : Cut(first, n) /\ Shape(first, n)
    BY DEF RxInv
  <2>2. /\ UNCHANGED <<use, desc, dma, midframe, arrived, RxDesc, SegCount, FSRxDesc, length,
                       locked, pc, p, delivered, dropped, irq>>
        /\ rbus' = TRUE
    BY <1>4 DEF DmaSuspends, infos
  <2>3. RxTypes /\ Apart /\ FramesAccounted
    BY DEF RxInv
  <2>4. /\ irq' \in BOOLEAN /\ locked' \in BOOLEAN /\ rbus' \in BOOLEAN
        /\ pc' = [a \in Actors |-> pc'[a]]
    BY <2>2, <2>3 DEF RxTypes, TypeOK
  <2>5. IF use.long
        THEN /\ pc'["main"] = "idle" /\ pc'["isr"] \in {"idle", "test", "call", "locked", "clear"}
             /\ pc'["isr"] \in {"call", "locked"} => SegCount = 0 /\ n > 0 /\ ~desc[first].ls
        ELSE /\ pc'["isr"] \in {"idle", "test", "clear"} /\ (locked' <=> pc'["main"] = "locked")
             /\ use.polls \/ pc'["main"] = pc["main"]
    BY <2>1, <2>2 DEF Shape, Long, Short, Passed
  <2>6. pc'["main"] = pc["main"]
    BY <2>2
  <2>7. QED  BY <2>1, <2>2, <2>3, <2>4, <2>5, <2>6, Quiet
<1>5. QED  BY <1>1, <1>2, <1>3, <1>4 DEF DMA

-----------------------------------------------------------------------------

LEMMA GotoIs ==
  ASSUME RxTypes, NEW a \in Actors, NEW there, Goto(a, there)
  PROVE  /\ pc' = [b \in Actors |-> pc'[b]] /\ pc'[a] = there
         /\ \A b \in Actors : b # a => pc'[b] = pc[b]
  BY DEF RxTypes, Goto

\* Every descriptor of the processor has its place among the n.
LEMMA MineIs ==
  ASSUME NEW first \in Ring, NEW n \in 0 .. ETH_RXBUFNB, Cut(first, n),
         NEW d \in Ring, ~desc[d].own
  PROVE  \E k \in 0 .. (n - 1) : k \in 0 .. (ETH_RXBUFNB - 1) /\ d = Place(first, k)
<1>1. PICK k \in 0 .. (ETH_RXBUFNB - 1) : d = Place(first, k)
  BY PlaceOnce
<1>2. ~(k >= n)
  BY <1>1 DEF Cut
<1>3. k \in 0 .. (n - 1)
  BY <1>2
<1>4. QED  BY <1>1, <1>3

\* The handler's steps that look at the ring, or only at the flags.
LEMMA IsrLooks == RxInv /\ (IsrEnters \/ IsrTests \/ IsrClears) /\ UNCHANGED use => RxInv'
<1> SUFFICES ASSUME RxInv, IsrEnters \/ IsrTests \/ IsrClears, UNCHANGED use PROVE RxInv'
  OBVIOUS
<1>1. PICK first \in Ring, n \in 0 .. ETH_RXBUFNB : Cut(first, n) /\ Shape(first, n)
  BY DEF RxInv
<1>2. RxTypes /\ Apart /\ FramesAccounted
  BY DEF RxInv
<1>3. /\ UNCHANGED <<use, desc, dma, midframe, arrived, RxDesc, SegCount, FSRxDesc, length,
                     p, delivered, dropped, locked, rbus>>
      /\ irq' \in BOOLEAN
  BY <1>2 DEF IsrEnters, IsrTests, IsrClears, dmaVars, infos, RxTypes, TypeOK
<1>4. rbus' \in BOOLEAN /\ locked' \in BOOLEAN
  BY <1>2, <1>3 DEF RxTypes, TypeOK
<1>5. \E there \in {"test", "call", "clear", "idle"} :
        /\ Goto("isr", there)
        /\ there = "call" => ETH_GetRxPktSize
  BY DEF IsrEnters, IsrTests, IsrClears
<1>6. "isr" \in Actors /\ "main" \in Actors /\ "main" # "isr"
  BY DEF Actors
<1>7. /\ pc' = [a \in Actors |-> pc'[a]] /\ pc'["main"] = pc["main"]
      /\ pc'["isr"] \in {"test", "call", "clear", "idle"}
      /\ pc'["isr"] = "call" => ETH_GetRxPktSize
  BY <1>2, <1>5, <1>6, GotoIs
<1>8. pc'["isr"] = "call" => \E k \in 0 .. (n - 1) :
        k \in 0 .. (ETH_RXBUFNB - 1) /\ RxDesc = Place(first, k) /\ ~desc[RxDesc].ls /\ ~desc[RxDesc].own
  <2> SUFFICES ASSUME pc'["isr"] = "call" PROVE \E k \in 0 .. (n - 1) :
        k \in 0 .. (ETH_RXBUFNB - 1) /\ RxDesc = Place(first, k) /\ ~desc[RxDesc].ls /\ ~desc[RxDesc].own
    OBVIOUS
  <2>1. ~desc[RxDesc].own /\ ~desc[RxDesc].ls /\ RxDesc \in Ring
    BY <1>2, <1>7 DEF ETH_GetRxPktSize, RxTypes, TypeOK
  <2>2. QED  BY <1>1, <2>1, MineIs
<1>9. CASE use.long
  <2>1. Long(first, n)
    BY <1>1, <1>9 DEF Shape
  <2>2. ASSUME pc'["isr"] = "call" PROVE SegCount = 0 /\ n > 0 /\ ~desc[first].ls
    <3>1. PICK k \in 0 .. (n - 1) :
            /\ k \in 0 .. (ETH_RXBUFNB - 1) /\ RxDesc = Place(first, k)
            /\ ~desc[RxDesc].ls /\ ~desc[RxDesc].own
      BY <1>8, <2>2
    <3>2. /\ SegCount \in {0, 1} /\ SegCount <= n /\ RxDesc = Place(first, SegCount)
          /\ Place(first, 0) = first
      BY <1>1, PlaceOnce DEF Cut
    <3>3. CASE SegCount = 0
      BY <3>1, <3>2, <3>3
    <3>4. CASE SegCount = 1
      <4>1. ~desc[Place(first, 0)].ls /\ 0 \in 0 .. (n - 1) /\ 0 + 1 = 1
        BY <2>1, <3>1, <3>2, <3>4 DEF Long
      <4>2. IF 0 + 1 < n THEN desc[Place(first, 0 + 1)].ls ELSE midframe
        BY <2>1, <4>1 DEF Long
      <4>3. midframe /\ ~(1 < n)
        BY <3>1, <3>2, <3>4, <4>1, <4>2
      <4>4. n < ETH_RXBUFNB /\ n = 1
        BY <2>1, <3>1, <4>3 DEF Long
      <4>5. 1 \in 0 .. (ETH_RXBUFNB - 1) /\ 1 >= n
        BY <4>4, EthRxAssumption
      <4>6. desc[Place(first, 1)].own
        BY <1>1, <4>5 DEF Cut
      <4>7. QED  BY <3>1, <3>2, <3>4, <4>6
    <3>5. QED  BY <3>2, <3>3, <3>4
  <2>3. pc'["main"] = "idle"
    BY <1>7, <2>1 DEF Long
  <2>4. /\ pc'["isr"] \in {"idle", "test", "call", "locked", "clear"}
        /\ pc'["isr"] \in {"call", "locked"} => SegCount = 0 /\ n > 0 /\ ~desc[first].ls
    BY <1>7, <2>2
  <2>5. QED  BY <1>1, <1>2, <1>3, <1>4, <1>7, <1>9, <2>3, <2>4, Quiet
<1>10. CASE ~use.long
  <2>1. PICK low \in Nat : ~midframe /\ arrived = low + n /\ Passed(low) /\ Holds(first, n, low)
    BY <1>1, <1>10 DEF Shape, Short
  <2>2. pc'["isr"] # "call"
    BY <1>8, <2>1 DEF Holds
  <2>3. /\ pc'["isr"] \in {"idle", "test", "clear"} /\ (locked' <=> pc'["main"] = "locked")
        /\ use.polls \/ pc'["main"] = pc["main"]
    BY <1>3, <1>7, <2>1, <2>2 DEF Passed
  <2>4. QED  BY <1>1, <1>2, <1>3, <1>4, <1>7, <1>10, <2>3, Quiet
<1>11. QED  BY <1>9, <1>10

\* Who calls: only main when frames are short, only the handler when they are long.
LEMMA EnterStep ==
  ASSUME RxInv, UNCHANGED use, NEW a \in Actors, Enter(a)
  PROVE  RxInv'
<1>1. PICK first \in Ring, n \in 0 .. ETH_RXBUFNB : Cut(first, n) /\ Shape(first, n)
  BY DEF RxInv
<1>2. RxTypes /\ Apart /\ FramesAccounted
  BY DEF RxInv
<1>3. /\ UNCHANGED <<use, desc, dma, midframe, arrived, RxDesc, SegCount, FSRxDesc, length,
                     p, delivered, dropped, irq, rbus>>
      /\ \/ a = "main" /\ use.polls /\ pc["main"] = "idle"
         \/ a = "isr" /\ pc["isr"] = "call"
  BY DEF Enter, dmaVars, infos, At
<1>4. /\ irq' \in BOOLEAN /\ rbus' \in BOOLEAN /\ locked \in BOOLEAN
  BY <1>2, <1>3 DEF RxTypes, TypeOK
<1>5. "isr" \in Actors /\ "main" \in Actors /\ "main" # "isr"
  BY DEF Actors
<1>6. \/ ~locked /\ locked' = TRUE /\ Goto(a, "locked")
      \/ locked /\ locked' = locked /\ Goto(a, IF a = "isr" THEN "test" ELSE "idle")
  BY DEF Enter, Return
<1>7. /\ locked' \in BOOLEAN /\ pc' = [b \in Actors |-> pc'[b]]
      /\ \/ ~locked /\ locked' = TRUE /\ pc'[a] = "locked"
         \/ locked /\ locked' = locked /\ pc'[a] = IF a = "isr" THEN "test" ELSE "idle"
      /\ \A b \in Actors : b # a => pc'[b] = pc[b]
  <2>1. CASE ~locked /\ locked' = TRUE /\ Goto(a, "locked")
    BY <1>2, <2>1, GotoIs
  <2>2. CASE locked /\ locked' = locked /\ Goto(a, IF a = "isr" THEN "test" ELSE "idle")
    BY <1>2, <1>4, <2>2, GotoIs
  <2>3. QED  BY <1>6, <2>1, <2>2
<1>8. CASE use.long
  <2>1. Long(first, n)
    BY <1>1, <1>8 DEF Shape
  <2>2. a = "isr"
    BY <1>2, <1>3, <1>8 DEF Apart
  <2>3. pc'["main"] = "idle" /\ pc'["main"] = pc["main"]
    BY <1>5, <1>7, <2>1, <2>2 DEF Long
  <2>4. /\ pc'["isr"] \in {"idle", "test", "call", "locked", "clear"}
        /\ pc'["isr"] \in {"call", "locked"} => SegCount = 0 /\ n > 0 /\ ~desc[first].ls
    BY <1>3, <1>7, <2>1, <2>2 DEF Long
  <2>5. QED  BY <1>1, <1>2, <1>3, <1>4, <1>7, <1>8, <2>3, <2>4, Quiet
<1>9. CASE ~use.long
  <2>1. PICK low \in Nat : ~midframe /\ arrived = low + n /\ Passed(low) /\ Holds(first, n, low)
    BY <1>1, <1>9 DEF Shape, Short
  <2>2. a = "main" /\ use.polls /\ pc["main"] = "idle"
    BY <1>3, <2>1 DEF Passed
  <2>3. {pc["main"], pc'["main"]} \subseteq {"idle", "locked"}
    BY <1>7, <2>2
  <2>4. /\ pc'["isr"] \in {"idle", "test", "clear"} /\ (locked' <=> pc'["main"] = "locked")
        /\ use.polls
    BY <1>5, <1>7, <2>1, <2>2 DEF Passed
  <2>5. QED  BY <1>1, <1>2, <1>3, <1>4, <1>7, <1>9, <2>3, <2>4, Quiet
<1>10. QED  BY <1>8, <1>9

\* HAL_ETH_GetReceivedFrame: main takes a whole frame, the handler a first part.
LEMMA TakeStep ==
  ASSUME RxInv, UNCHANGED use, NEW a \in Actors, Take(a)
  PROVE  RxInv'
<1>1. PICK first \in Ring, n \in 0 .. ETH_RXBUFNB : Cut(first, n) /\ Shape(first, n)
  BY DEF RxInv
<1>2. RxTypes /\ Apart /\ FramesAccounted
  BY DEF RxInv
<1>3. /\ UNCHANGED <<use, desc, dma, midframe, arrived, p, delivered, dropped, irq, rbus>>
      /\ pc[a] = "locked" /\ locked' = FALSE
  BY DEF Take, dmaVars, At
<1>4. /\ irq' \in BOOLEAN /\ rbus' \in BOOLEAN /\ locked' \in BOOLEAN
      /\ RxDesc \in Ring /\ FSRxDesc \in Ring /\ desc \in [Ring -> Cells]
      /\ ETH_RXBUFNB \in Nat \ {0} /\ n \in Nat
      /\ length \in 0 .. 2 /\ TypeOK
  <2>1. /\ irq' \in BOOLEAN /\ rbus' \in BOOLEAN /\ locked' \in BOOLEAN
        /\ RxDesc \in Ring /\ FSRxDesc \in Ring /\ desc \in [Ring -> Cells]
        /\ length \in 0 .. 2 /\ TypeOK
    BY <1>2, <1>3 DEF RxTypes, TypeOK, Cells
  <2>2. ETH_RXBUFNB \in Nat \ {0} /\ n \in Nat
    BY EthRxAssumption
  <2>3. QED  BY <2>1, <2>2
<1>5. "isr" \in Actors /\ "main" \in Actors /\ "main" # "isr"
  BY DEF Actors
<1>6. /\ SegCount \in {0, 1} /\ SegCount <= n /\ RxDesc = Place(first, SegCount)
      /\ dma = Place(first, n) /\ first = Place(first, 0)
      /\ \A k \in 0 .. (ETH_RXBUFNB - 1) : desc[Place(first, k)].own <=> k >= n
  BY <1>1, PlaceOnce DEF Cut
<1>7. CASE desc[RxDesc].own
  <2>1. /\ UNCHANGED <<RxDesc, SegCount, FSRxDesc, length>>
        /\ Goto(a, IF a = "isr" THEN "test" ELSE "idle")
    BY <1>7 DEF Take, infos, Return
  <2>2. /\ pc' = [b \in Actors |-> pc'[b]]
        /\ pc'[a] = IF a = "isr" THEN "test" ELSE "idle"
        /\ \A b \in Actors : b # a => pc'[b] = pc[b]
    BY <1>2, <2>1, GotoIs
  <2>3. CASE use.long
    <3>1. Long(first, n) /\ a = "isr"
      BY <1>1, <1>3, <2>3 DEF Shape, Long, Actors
    <3>2. /\ pc'["main"] = "idle" /\ pc'["main"] = pc["main"] /\ pc'["isr"] = "test"
      BY <1>5, <2>2, <3>1 DEF Long
    <3>3. /\ pc'["isr"] \in {"idle", "test", "call", "locked", "clear"}
          /\ pc'["isr"] \in {"call", "locked"} => SegCount = 0 /\ n > 0 /\ ~desc[first].ls
      BY <3>2
    <3>4. QED  BY <1>1, <1>2, <1>3, <1>4, <2>1, <2>2, <2>3, <3>2, <3>3, Quiet
  <2>4. CASE ~use.long
    <3>1. PICK low \in Nat : ~midframe /\ arrived = low + n /\ Passed(low) /\ Holds(first, n, low)
      BY <1>1, <2>4 DEF Shape, Short
    <3>2. a = "main" /\ use.polls
      BY <1>3, <3>1 DEF Passed, Actors
    <3>3. {pc["main"], pc'["main"]} \subseteq {"idle", "locked"}
      BY <1>3, <1>5, <2>2, <3>2
    <3>4. /\ pc'["isr"] \in {"idle", "test", "clear"} /\ (locked' <=> pc'["main"] = "locked")
          /\ use.polls
      BY <1>3, <1>5, <2>2, <3>1, <3>2 DEF Passed
    <3>5. QED  BY <1>1, <1>2, <1>3, <1>4, <2>1, <2>2, <2>4, <3>3, <3>4, Quiet
  <2>5. QED  BY <2>3, <2>4
<1>8. CASE ~desc[RxDesc].own
  <2> DEFINE d == desc[RxDesc]
  <2>1. /\ SegCount' = (IF d.fs /\ ~d.ls THEN 1 ELSE SegCount + 1)
        /\ FSRxDesc' = IF SegCount' = 1 /\ (d.ls \/ d.fs) THEN RxDesc ELSE FSRxDesc
        /\ length' = IF d.ls THEN d.segs ELSE length
        /\ RxDesc' = NextDesc(RxDesc)
        /\ IF d.ls THEN Goto(a, "copy") ELSE Goto(a, IF a = "isr" THEN "test" ELSE "idle")
    BY <1>8 DEF Take, Return
  <2>2. FramesAccounted' /\ Apart'
    BY <1>2, <1>3 DEF FramesAccounted, CpuOwned, Apart
  \* Both: what is in hand is the first of the processor's descriptors.
  <2>3. ASSUME SegCount = 0, d.fs, n > 0, SegCount' = 1, length' \in 0 .. 2
        PROVE  /\ FSRxDesc' = first /\ RxDesc' = Place(first, 1) /\ Cut(first, n)'
               /\ FSRxDesc' \in Ring /\ RxDesc' \in Ring /\ SegCount' \in 0 .. ETH_RXBUFNB
    <3>1. RxDesc = first /\ RxDesc' = Place(first, 1) /\ FSRxDesc' = first
      BY <1>6, <2>1, <2>3, NextDescIs
    <3>2. 1 \in 0 .. ETH_RXBUFNB /\ 1 <= n
      BY <1>4, <2>3
    <3>3. Cut(first, n)'
      BY <1>3, <1>6, <2>3, <3>1, <3>2 DEF Cut
    <3>4. RxDesc' \in Ring
      BY <3>1, <3>2, PlaceIs
    <3>5. QED  BY <2>3, <3>1, <3>2, <3>3, <3>4
  <2>4. CASE use.long
    <3>1. Long(first, n) /\ a = "isr"
      BY <1>1, <1>3, <2>4 DEF Shape, Long, Actors
    <3>2. SegCount = 0 /\ n > 0 /\ ~desc[first].ls /\ RxDesc = first
      BY <1>3, <1>6, <3>1 DEF Long
    <3>3. d.fs /\ ~d.ls
      <4>1. 0 \in 0 .. (n - 1)
        BY <1>4, <3>2
      <4>2. QED  BY <1>6, <3>1, <3>2, <4>1 DEF Long
    <3>4. SegCount' = 1 /\ length' = length /\ Goto("isr", "test")
      BY <2>1, <3>1, <3>3
    <3>5. /\ FSRxDesc' = first /\ Cut(first, n)'
          /\ FSRxDesc' \in Ring /\ RxDesc' \in Ring /\ SegCount' \in 0 .. ETH_RXBUFNB
      BY <1>4, <2>3, <3>2, <3>3, <3>4
    <3>6. /\ pc' = [b \in Actors |-> pc'[b]] /\ pc'["isr"] = "test" /\ pc'["main"] = pc["main"]
      BY <1>2, <1>5, <3>4, GotoIs
    <3>7. TypeOK'
      BY <1>3, <1>4, <3>4, <3>5, <3>6 DEF TypeOK
    <3>8. RxTypes'
      BY <1>2, <1>3, <3>6, <3>7 DEF RxTypes
    <3>9. Long(first, n)'
      BY <1>3, <3>1, <3>2, <3>6 DEF Long
    <3>10. Shape(first, n)'
      BY <1>3, <2>4, <3>9 DEF Shape
    <3>11. QED  BY <2>2, <3>5, <3>8, <3>10 DEF RxInv
  <2>5. CASE ~use.long
    <3>1. PICK low \in Nat : ~midframe /\ arrived = low + n /\ Passed(low) /\ Holds(first, n, low)
      BY <1>1, <2>5 DEF Shape, Short
    <3>2. a = "main" /\ use.polls
      BY <1>3, <3>1 DEF Passed, Actors
    <3>3. SegCount = 0 /\ RxDesc = first /\ p["main"] = <<>>
      BY <1>3, <1>6, <3>1, <3>2 DEF Passed
    <3>4. n > 0
      <4>1. 0 \in 0 .. (ETH_RXBUFNB - 1)
        BY <1>4
      <4>2. ~(0 >= n)
        BY <1>6, <1>8, <3>3, <4>1
      <4>3. QED  BY <1>4, <4>2
    <3>5. d.fs /\ d.ls /\ d.segs = 1
      <4>1. 0 \in 0 .. (n - 1)
        BY <1>4, <3>4
      <4>2. QED  BY <1>6, <3>1, <3>3, <4>1 DEF Holds
    <3>6. SegCount' = 1 /\ length' = 1 /\ Goto("main", "copy")
      BY <2>1, <3>2, <3>3, <3>5
    <3>7. /\ FSRxDesc' = first /\ Cut(first, n)'
          /\ FSRxDesc' \in Ring /\ RxDesc' \in Ring /\ SegCount' \in 0 .. ETH_RXBUFNB
      BY <2>3, <3>3, <3>4, <3>5, <3>6
    <3>8. /\ pc' = [b \in Actors |-> pc'[b]] /\ pc'["main"] = "copy" /\ pc'["isr"] = pc["isr"]
      BY <1>2, <1>5, <3>6, GotoIs
    <3>9. TypeOK'
      BY <1>3, <1>4, <3>6, <3>7, <3>8 DEF TypeOK
    <3>10. RxTypes'
      BY <1>2, <1>3, <3>8, <3>9 DEF RxTypes
    <3>11. Passed(low)'
      <4>1. OnceInOrder'
        BY <1>3, <3>1 DEF Passed, OnceInOrder
      <4>2. QED  BY <1>3, <3>1, <3>2, <3>3, <3>6, <3>8, <4>1 DEF Passed
    <3>12. Holds(first, n, low)'
      BY <1>3, <3>1 DEF Holds
    <3>13. Short(first, n)'
      BY <1>3, <3>1, <3>11, <3>12 DEF Short
    <3>14. Shape(first, n)'
      BY <1>3, <2>5, <3>13 DEF Shape
    <3>15. QED  BY <2>2, <3>7, <3>10, <3>14 DEF RxInv
  <2>6. QED  BY <2>4, <2>5
<1>9. QED  BY <1>7, <1>8

\* Main copies the frame in hand, or finds no pbuf.
LEMMA CopyStep ==
  ASSUME RxInv, UNCHANGED use, NEW a \in Actors, Copy(a)
  PROVE  RxInv'
<1>1. PICK first \in Ring, n \in 0 .. ETH_RXBUFNB : Cut(first, n) /\ Shape(first, n)
  BY DEF RxInv
<1>2. RxTypes /\ Apart /\ FramesAccounted
  BY DEF RxInv
<1>3. /\ UNCHANGED <<use, desc, dma, midframe, arrived, delivered, irq, rbus, locked,
                     RxDesc, SegCount, FSRxDesc, length>>
      /\ pc[a] = "copy" /\ Goto(a, "release")
  BY DEF Copy, dmaVars, infos, At
<1>4. /\ ETH_RXBUFNB \in Nat \ {0} /\ MaxFrames \in Nat /\ n \in Nat /\ TypeOK
      /\ dropped \subseteq 1 .. MaxFrames /\ arrived \in 0 .. MaxFrames
  BY <1>2, EthRxAssumption DEF RxTypes, TypeOK
<1>5. "isr" \in Actors /\ "main" \in Actors /\ "main" # "isr"
  BY DEF Actors
<1>6. ~use.long
  BY <1>1, <1>3 DEF Shape, Long, Actors
<1>7. PICK low \in Nat : ~midframe /\ arrived = low + n /\ Passed(low) /\ Holds(first, n, low)
  BY <1>1, <1>6 DEF Shape, Short
<1>8. a = "main"
  BY <1>3, <1>7 DEF Passed, Actors
<1>9. SegCount = 1 /\ length = 1 /\ use.polls /\ p["main"] = <<>> /\ p["isr"] = <<>>
  BY <1>3, <1>7, <1>8 DEF Passed
<1>10. FSRxDesc = first /\ n >= 1 /\ Place(first, 0) = first
  BY <1>1, <1>9, PlaceOnce DEF Cut
<1>11. desc[first].data = low + 1 /\ low + 1 \in 1 .. MaxFrames
  <2>1. 0 \in 0 .. (n - 1)
    BY <1>4, <1>10
  <2>2. desc[first].data = low + 0 + 1
    BY <1>7, <1>10, <2>1 DEF Holds
  <2>3. QED  BY <1>4, <1>7, <1>10, <2>2
<1>12. \/ p' = [p EXCEPT !["main"] = <<low + 1>>] /\ UNCHANGED dropped
       \/ p' = [p EXCEPT !["main"] = <<>>] /\ dropped' = dropped \cup {low + 1}
  <2> DEFINE parts == [k \in 1 .. length |-> desc[(FSRxDesc + k - 1) % ETH_RXBUFNB].data]
  <2>1. parts = <<low + 1>> /\ parts[length] = low + 1
    <3>1. (first + 1 - 1) % ETH_RXBUFNB = first
      <4>1. first \in 0 .. (ETH_RXBUFNB - 1) /\ first + 1 - 1 = first
        BY DEF Ring
      <4>2. QED  BY <1>4, <4>1
    <3>2. \A k \in 1 .. 1 : desc[(FSRxDesc + k - 1) % ETH_RXBUFNB].data = low + 1
      BY <1>10, <1>11, <3>1
    <3>3. parts = [k \in 1 .. 1 |-> low + 1]
      BY <1>9, <3>2
    <3>4. <<low + 1>> = [k \in 1 .. 1 |-> low + 1]
      OBVIOUS
    <3>5. parts = <<low + 1>> /\ 1 \in 1 .. 1
      BY <3>3, <3>4
    <3>6. parts[1] = low + 1
      BY <3>3, <3>5
    <3>7. QED  BY <1>9, <3>5, <3>6
  <2>2. \/ p' = [p EXCEPT ![a] = parts] /\ UNCHANGED dropped
        \/ p' = [p EXCEPT ![a] = <<>>] /\ dropped' = dropped \cup {parts[length]}
    BY DEF Copy
  <2> HIDE DEF parts
  <2>3. QED  BY <1>8, <2>1, <2>2
<1>13. /\ p' = [b \in Actors |-> p'[b]] /\ p'["isr"] = <<>>
       /\ \/ p'["main"] = <<low + 1>> /\ dropped' = dropped
          \/ p'["main"] = <<>> /\ dropped' = dropped \cup {low + 1}
  BY <1>2, <1>5, <1>9, <1>12 DEF RxTypes
<1>14. /\ pc' = [b \in Actors |-> pc'[b]] /\ pc'["main"] = "release" /\ pc'["isr"] = pc["isr"]
  BY <1>2, <1>3, <1>5, <1>8, GotoIs
<1>15. dropped' \subseteq 1 .. MaxFrames /\ dropped \subseteq dropped'
  BY <1>4, <1>11, <1>13
<1>16. TypeOK'
  BY <1>3, <1>4, <1>14, <1>15 DEF TypeOK
<1>17. RxTypes'
  BY <1>13, <1>14, <1>16 DEF RxTypes
<1>18. Apart' /\ Cut(first, n)'
  BY <1>1, <1>2, <1>3 DEF Apart, Cut
<1>19. FramesAccounted'
  <2>1. ASSUME NEW f \in 1 .. arrived' PROVE InHand(f)'
    <3>1. InHand(f)
      BY <1>2, <1>3, <2>1, AccountedIs
    <3>2. ~ \E b \in Actors : p[b] # <<>>
      BY <1>9 DEF Actors
    <3>3. QED  BY <1>3, <1>15, <3>1, <3>2 DEF InHand
  <2>2. QED  BY <2>1, AccountedNext
<1>20. Passed(low)'
  <2>1. OnceInOrder'
    BY <1>3, <1>7 DEF Passed, OnceInOrder
  <2>2. \/ p'["main"] = <<low + 1>>
        \/ p'["main"] = <<>> /\ (low + 1) \in dropped'
    BY <1>13
  <2>3. QED  BY <1>3, <1>7, <1>8, <1>9, <1>13, <1>14, <2>1, <2>2 DEF Passed
<1>21. Holds(first, n, low)'
  BY <1>3, <1>7 DEF Holds
<1>22. Shape(first, n)'
  BY <1>3, <1>6, <1>7, <1>20, <1>21 DEF Shape, Short
<1>23. QED  BY <1>17, <1>18, <1>19, <1>22 DEF RxInv

\* Main gives the descriptor of the frame in hand back: the next is first.
LEMMA ReleaseStep ==
  ASSUME RxInv, UNCHANGED use, NEW a \in Actors, Release(a)
  PROVE  RxInv'
<1>1. PICK first \in Ring, n \in 0 .. ETH_RXBUFNB : Cut(first, n) /\ Shape(first, n)
  BY DEF RxInv
<1>2. RxTypes /\ Apart /\ FramesAccounted
  BY DEF RxInv
<1>3. /\ UNCHANGED <<use, dma, midframe, arrived, delivered, dropped, irq, rbus, locked, p,
                     RxDesc, FSRxDesc, length>>
      /\ pc[a] = "release" /\ Goto(a, "resume") /\ SegCount' = 0
      /\ desc' = [i \in Ring |-> IF i \in Segments(FSRxDesc, SegCount)
                                 THEN [desc[i] EXCEPT !.own = TRUE] ELSE desc[i]]
  BY DEF Release, dmaVars, At
<1>4. TypeOK /\ desc \in [Ring -> Cells] /\ arrived \in 0 .. MaxFrames
  BY <1>2 DEF RxTypes, TypeOK, Cells
<1>5. ETH_RXBUFNB \in Nat \ {0} /\ MaxFrames \in Nat /\ n \in Nat
      /\ "isr" \in Actors /\ "main" \in Actors /\ "main" # "isr"
  BY EthRxAssumption DEF Actors
<1>6. ~use.long
  BY <1>1, <1>3 DEF Shape, Long, Actors
<1>7. PICK low \in Nat : ~midframe /\ arrived = low + n /\ Passed(low) /\ Holds(first, n, low)
  BY <1>1, <1>6 DEF Shape, Short
<1>8. a = "main"
  BY <1>3, <1>7 DEF Passed, Actors
<1>9. /\ SegCount = 1 /\ use.polls /\ p["isr"] = <<>>
      /\ \/ p["main"] = <<low + 1>>
         \/ p["main"] = <<>> /\ (low + 1) \in dropped
  BY <1>3, <1>7, <1>8 DEF Passed
<1>10. /\ FSRxDesc = first /\ n >= 1 /\ Place(first, 0) = first
       /\ RxDesc = Place(first, 1) /\ dma = Place(first, n)
       /\ \A k \in 0 .. (ETH_RXBUFNB - 1) : desc[Place(first, k)].own <=> k >= n
  BY <1>1, <1>9, PlaceOnce DEF Cut
<1>11. desc[first].data = low + 1
  <2>1. 0 \in 0 .. (n - 1)
    BY <1>5, <1>10
  <2>2. desc[first].data = low + 0 + 1
    BY <1>7, <1>10, <2>1 DEF Holds
  <2>3. QED  BY <2>2
<1>12. /\ \A i \in Ring : i # first => desc'[i] = desc[i]
       /\ desc'[first] = [desc[first] EXCEPT !.own = TRUE]
  <2>1. Segments(first, 1) = {first}
    <3>1. (first + 0) % ETH_RXBUFNB = first
      BY <1>10 DEF Place
    <3>2. \A k : k \in 0 .. (1 - 1) <=> k = 0
      OBVIOUS
    <3>3. QED  BY <3>1, <3>2 DEF Segments
  <2>2. QED  BY <1>3, <1>9, <1>10, <2>1
<1>13. desc'[first] \in Cells /\ desc'[first].own = TRUE
  BY <1>4, <1>12 DEF Cells
<1>14. desc' \in [Ring -> Cells]
  <2>1. \A i \in Ring : desc'[i] \in Cells
    BY <1>4, <1>12, <1>13
  <2>2. desc' = [i \in Ring |-> desc'[i]]
    BY <1>3
  <2>3. QED  BY <2>1, <2>2
<1> DEFINE next == NextDesc(first)
           m == n - 1
<1>15. /\ next \in Ring /\ next = Place(first, 1) /\ m \in 0 .. ETH_RXBUFNB
       /\ \A k \in 0 .. (ETH_RXBUFNB - 1) : Place(next, k) = Place(first, k + 1)
  BY <1>5, <1>10, NextDescIs, PlaceNext
<1>16. ASSUME NEW k \in 0 .. (ETH_RXBUFNB - 1), k # ETH_RXBUFNB - 1
       PROVE  /\ k + 1 \in 0 .. (ETH_RXBUFNB - 1)
              /\ desc'[Place(next, k)] = desc[Place(first, k + 1)]
  <2>1. k + 1 \in 0 .. (ETH_RXBUFNB - 1) /\ 0 \in 0 .. (ETH_RXBUFNB - 1) /\ k + 1 # 0
        /\ k + 1 \in 0 .. ETH_RXBUFNB
    BY <1>5, <1>16
  <2>2. Place(first, k + 1) # first /\ Place(first, k + 1) \in Ring
    BY <1>10, <2>1, PlaceOnce, PlaceIs
  <2>3. QED  BY <1>12, <1>15, <2>1, <2>2
<1>17. Cut(next, m)'
  <2>1. \A k \in 0 .. (ETH_RXBUFNB - 1) : desc'[Place(next, k)].own <=> k >= m
    <3> SUFFICES ASSUME NEW k \in 0 .. (ETH_RXBUFNB - 1)
                 PROVE  desc'[Place(next, k)].own <=> k >= m
      OBVIOUS
    <3>1. CASE k = ETH_RXBUFNB - 1
      <4>1. k + 1 = ETH_RXBUFNB /\ k >= m
        BY <1>5, <3>1
      <4>2. Place(next, k) = first
        BY <1>15, <4>1, PlaceOnce
      <4>3. QED  BY <1>13, <4>1, <4>2
    <3>2. CASE k # ETH_RXBUFNB - 1
      <4>1. desc'[Place(next, k)].own <=> k + 1 >= n
        BY <1>10, <1>16, <3>2
      <4>2. k + 1 >= n <=> k >= m
        BY <1>5
      <4>3. QED  BY <4>1, <4>2
    <3>3. QED  BY <3>1, <3>2
  <2>2. Place(next, 0) = next /\ Place(next, m) = Place(first, n)
    <3>1. m \in 0 .. (ETH_RXBUFNB - 1) /\ m + 1 = n
      BY <1>5, <1>10
    <3>2. QED  BY <1>15, <3>1, PlaceOnce
  <2>3. 0 <= m
    BY <1>5, <1>10
  <2>4. SegCount' = 0 /\ RxDesc' = Place(next, 0) /\ dma' = Place(next, m)
    BY <1>3, <1>10, <1>15, <2>2
  <2> HIDE DEF next, m
  <2>5. QED  BY <2>1, <2>3, <2>4 DEF Cut
<1>18. /\ pc' = [b \in Actors |-> pc'[b]] /\ pc'["main"] = "resume" /\ pc'["isr"] = pc["isr"]
  BY <1>2, <1>3, <1>5, <1>8, GotoIs
<1>19. TypeOK'
  <2>1. 0 \in 0 .. ETH_RXBUFNB
    BY <1>5
  <2>2. QED  BY <1>3, <1>4, <1>14, <1>18, <2>1 DEF TypeOK, Cells
<1>20. RxTypes' /\ Apart'
  BY <1>2, <1>3, <1>18, <1>19 DEF RxTypes, Apart
<1>21. FramesAccounted'
  <2>1. ASSUME NEW f \in 1 .. arrived' PROVE InHand(f)'
    <3>1. InHand(f)
      BY <1>2, <1>3, <2>1, AccountedIs
    <3>2. CASE f = low + 1
      <4>1. CASE p["main"] = <<low + 1>>
        <5>1. p'["main"] # <<>> /\ Last(p'["main"]) = f
          BY <1>3, <3>2, <4>1 DEF Last
        <5>2. QED  BY <1>5, <5>1 DEF InHand
      <4>2. CASE low + 1 \in dropped
        BY <1>3, <3>2, <4>2 DEF InHand
      <4>3. QED  BY <1>9, <4>1, <4>2
    <3>3. CASE f # low + 1
      <4>1. ASSUME NEW i \in Ring, ~desc[i].own, desc[i].data = f
            PROVE  ~desc'[i].own /\ desc'[i].data = f
        BY <1>11, <1>12, <3>3, <4>1
      <4>2. QED  BY <1>3, <3>1, <4>1 DEF InHand
    <3>4. QED  BY <3>2, <3>3
  <2>2. QED  BY <2>1, AccountedNext
<1>22. low + 1 \in Nat /\ arrived' = (low + 1) + m
  BY <1>3, <1>5, <1>7
<1>23. Passed(low + 1)'
  <2>1. OnceInOrder' /\ delivered \in Seq(Single)
    BY <1>3, <1>7 DEF Passed, OnceInOrder
  <2>2. \A j \in 1 .. Len(delivered) : Last(delivered[j]) \in Nat /\ Last(delivered[j]) <= low
    <3> SUFFICES ASSUME NEW j \in 1 .. Len(delivered)
                 PROVE  Last(delivered[j]) \in Nat /\ Last(delivered[j]) <= low
      OBVIOUS
    <3>1. delivered[j] \in Single
      BY <2>1, ElementOfSeq
    <3>2. PICK f \in 1 .. MaxFrames : delivered[j] = <<f>>
      BY <3>1 DEF Single
    <3>3. Last(delivered[j]) = f
      BY <3>2 DEF Last
    <3>4. QED  BY <1>5, <1>7, <3>3 DEF Passed
  <2>3. \A j \in 1 .. Len(delivered) : Last(delivered[j]) < low + 1 /\ Last(delivered[j]) <= low + 1
    BY <1>7, <2>2
  <2>4. (p'["main"] = <<>> \/ p'["main"] = <<low + 1>>) /\ low + 1 > 0
    BY <1>3, <1>9
  <2>5. QED  BY <1>3, <1>7, <1>9, <1>18, <2>1, <2>3, <2>4 DEF Passed
<1>24. Holds(next, m, low + 1)'
  <2> SUFFICES ASSUME NEW k \in 0 .. (m - 1)
               PROVE  LET d == desc'[Place(next, k)]
                      IN  d.fs /\ d.ls /\ d.segs = 1 /\ d.data = (low + 1) + k + 1
    BY DEF Holds
  <2>1. k \in 0 .. (ETH_RXBUFNB - 1) /\ k # ETH_RXBUFNB - 1 /\ k + 1 \in 0 .. (n - 1)
    BY <1>5
  <2>2. desc'[Place(next, k)] = desc[Place(first, k + 1)]
    BY <1>16, <2>1
  <2>3. LET d == desc[Place(first, k + 1)]
        IN  d.fs /\ d.ls /\ d.segs = 1 /\ d.data = low + (k + 1) + 1
    BY <1>7, <2>1 DEF Holds
  <2>4. low + (k + 1) + 1 = (low + 1) + k + 1
    OBVIOUS
  <2>5. QED  BY <2>2, <2>3, <2>4
<1> HIDE DEF next, m
<1>25. Short(next, m)'
  <2>1. midframe' = FALSE
    BY <1>3, <1>4, <1>7 DEF TypeOK
  <2>2. QED  BY <1>22, <1>23, <1>24, <2>1 DEF Short
<1>26. Shape(next, m)'
  BY <1>3, <1>6, <1>25 DEF Shape
<1>27. QED  BY <1>15, <1>17, <1>20, <1>21, <1>26 DEF RxInv

\* Main gives lwIP the frame.
LEMMA ResumeStep ==
  ASSUME RxInv, UNCHANGED use, NEW a \in Actors, Resume(a)
  PROVE  RxInv'
<1>1. PICK first \in Ring, n \in 0 .. ETH_RXBUFNB : Cut(first, n) /\ Shape(first, n)
  BY DEF RxInv
<1>2. RxTypes /\ Apart /\ FramesAccounted
  BY DEF RxInv
<1>3. /\ UNCHANGED <<use, desc, dma, midframe, irq, arrived, dropped, locked,
                     RxDesc, SegCount, FSRxDesc, length>>
      /\ pc[a] = "resume" /\ Goto(a, IF a = "isr" THEN "test" ELSE "idle")
      /\ delivered' = (IF p[a] = <<>> THEN delivered ELSE Append(delivered, p[a]))
      /\ p' = [p EXCEPT ![a] = <<>>] /\ rbus' = FALSE
  BY DEF Resume, Return, infos, At
<1>4. TypeOK /\ MaxFrames \in Nat /\ n \in Nat
      /\ "isr" \in Actors /\ "main" \in Actors /\ "main" # "isr"
  BY <1>2, EthRxAssumption DEF RxTypes, Actors
<1>5. ~use.long
  BY <1>1, <1>3 DEF Shape, Long, Actors
<1>6. PICK low \in Nat : ~midframe /\ arrived = low + n /\ Passed(low) /\ Holds(first, n, low)
  BY <1>1, <1>5 DEF Shape, Short
<1>7. a = "main"
  BY <1>3, <1>6 DEF Passed, Actors
<1>8. /\ SegCount # 1 /\ use.polls /\ p["isr"] = <<>> /\ delivered \in Seq(Single)
      /\ OnceInOrder /\ \A j \in 1 .. Len(delivered) : Last(delivered[j]) <= low
      /\ \/ p["main"] = <<>>
         \/ /\ p["main"] = <<low>> /\ low > 0
            /\ \A j \in 1 .. Len(delivered) : Last(delivered[j]) < low
  BY <1>3, <1>6, <1>7 DEF Passed
<1>9. /\ pc' = [b \in Actors |-> pc'[b]] /\ pc'["main"] = "idle" /\ pc'["isr"] = pc["isr"]
  BY <1>2, <1>3, <1>4, <1>7, GotoIs
<1>10. p' = [b \in Actors |-> p'[b]] /\ p'["main"] = <<>> /\ p'["isr"] = <<>>
  BY <1>2, <1>3, <1>4, <1>7, <1>8 DEF RxTypes
<1>11. TypeOK'
  BY <1>3, <1>4, <1>9 DEF TypeOK
<1>12. RxTypes' /\ Apart' /\ Cut(first, n)'
  BY <1>1, <1>2, <1>3, <1>9, <1>10, <1>11 DEF RxTypes, Apart, Cut
\* What lwIP has got.
<1>13. /\ delivered' \in Seq(Single) /\ OnceInOrder'
       /\ \A j \in 1 .. Len(delivered') : Last(delivered'[j]) <= low
       /\ \A j \in 1 .. Len(delivered) :
            j \in 1 .. Len(delivered') /\ delivered'[j] = delivered[j]
       /\ p["main"] # <<>> =>
            \E j \in 1 .. Len(delivered') : Last(delivered'[j]) = Last(p["main"])
  <2>1. CASE p["main"] = <<>>
    <3>1. delivered' = delivered
      BY <1>3, <1>7, <2>1
    <3>2. QED  BY <1>8, <2>1, <3>1 DEF OnceInOrder
  <2>2. CASE p["main"] # <<>>
    <3> DEFINE l == Len(delivered)
    <3>1. /\ p["main"] = <<low>> /\ \A j \in 1 .. l : Last(delivered[j]) < low
          /\ delivered' = Append(delivered, <<low>>)
      BY <1>3, <1>7, <1>8, <2>2
    <3>2. low \in 1 .. MaxFrames
      <4>1. low > 0
        BY <1>8, <2>2
      <4>2. QED  BY <1>4, <1>6, <4>1 DEF TypeOK
    <3>3. <<low>> \in Single /\ Last(<<low>>) = low
      BY <3>2 DEF Single, Last
    <3>4. /\ delivered' \in Seq(Single) /\ Len(delivered') = l + 1 /\ l \in Nat
          /\ \A j \in 1 .. l : delivered'[j] = delivered[j]
          /\ delivered'[l + 1] = <<low>>
      BY <1>8, <3>1, <3>3, AppendProperties, LenProperties
    <3> HIDE DEF l
    <3>5. \A j \in 1 .. l : Last(delivered'[j]) < low /\ Last(delivered'[j]) <= low
      BY <1>8, <3>1, <3>4 DEF l
    <3>6. Last(delivered'[l + 1]) = low
      BY <3>3, <3>4
    <3>7. OnceInOrder'
      <4> SUFFICES ASSUME NEW i \in 1 .. (l + 1), NEW j \in 1 .. (l + 1), i < j
                   PROVE  Last(delivered'[i]) < Last(delivered'[j])
        BY <3>4 DEF OnceInOrder
      <4>1. i \in 1 .. l
        BY <3>4
      <4>2. CASE j \in 1 .. l
        BY <1>8, <3>4, <4>1, <4>2 DEF OnceInOrder, l
      <4>3. CASE j = l + 1
        BY <3>5, <3>6, <4>1, <4>3
      <4>4. QED  BY <3>4, <4>2, <4>3
    <3>8. \A j \in 1 .. (l + 1) : Last(delivered'[j]) <= low
      BY <3>4, <3>5, <3>6
    <3>9. l + 1 \in 1 .. (l + 1) /\ \A j \in 1 .. l : j \in 1 .. (l + 1)
      BY <3>4
    <3>10. QED  BY <3>1, <3>3, <3>4, <3>6, <3>7, <3>8, <3>9 DEF l
  <2>3. QED  BY <2>1, <2>2
<1>14. FramesAccounted'
  <2>1. ASSUME NEW f \in 1 .. arrived' PROVE InHand(f)'
    <3>1. InHand(f)
      BY <1>2, <1>3, <2>1, AccountedIs
    <3>2. ASSUME NEW b \in Actors, p[b] # <<>>, Last(p[b]) = f
          PROVE  \E j \in 1 .. Len(delivered') : Last(delivered'[j]) = f
      <4>1. b = "main"
        BY <1>8, <3>2 DEF Actors
      <4>2. QED  BY <1>13, <3>2, <4>1
    <3>3. ASSUME NEW j \in 1 .. Len(delivered), Last(delivered[j]) = f
          PROVE  \E i \in 1 .. Len(delivered') : Last(delivered'[i]) = f
      BY <1>13, <3>3
    <3>4. QED  BY <1>3, <3>1, <3>2, <3>3 DEF InHand
  <2>2. QED  BY <2>1, AccountedNext
<1>15. Passed(low)'
  <2>1. /\ locked' = FALSE /\ pc'["isr"] \in {"idle", "test", "clear"}
        /\ SegCount' # 1 /\ use'.polls
    BY <1>3, <1>4, <1>6, <1>7, <1>8, <1>9 DEF Passed, TypeOK
  <2>2. QED  BY <1>9, <1>10, <1>13, <2>1 DEF Passed
<1>16. Holds(first, n, low)'
  BY <1>3, <1>6 DEF Holds
<1>17. Shape(first, n)'
  BY <1>3, <1>5, <1>6, <1>15, <1>16 DEF Shape, Short
<1>18. QED  BY <1>12, <1>14, <1>17 DEF RxInv

-----------------------------------------------------------------------------

LEMMA RxStep == RxInv /\ [Next]_vars => RxInv'
<1> SUFFICES ASSUME RxInv, [Next]_vars PROVE RxInv'
  OBVIOUS
<1>1. CASE DMA /\ UNCHANGED use
  BY <1>1, DmaStep
<1>2. CASE (IsrEnters \/ IsrTests \/ IsrClears) /\ UNCHANGED use
  BY <1>2, IsrLooks
<1>3. ASSUME NEW a \in Actors, lwip_pkt_handle(a), UNCHANGED use PROVE RxInv'
  BY <1>3, EnterStep, TakeStep, CopyStep, ReleaseStep, ResumeStep DEF lwip_pkt_handle
<1>4. CASE UNCHANGED vars
  <2>1. PICK first \in Ring, n \in 0 .. ETH_RXBUFNB : Cut(first, n) /\ Shape(first, n)
    BY DEF RxInv
  <2>2. RxTypes /\ Apart /\ FramesAccounted
    BY DEF RxInv
  <2>3. UNCHANGED <<use, desc, dma, midframe, arrived, RxDesc, SegCount, FSRxDesc, length,
                    rbus, irq, locked, pc, p, delivered, dropped>>
    BY <1>4 DEF vars, dmaVars, infos
  <2>4. RxTypes' /\ Apart' /\ FramesAccounted' /\ Cut(first, n)'
    <3>1. TypeOK'
      BY <2>2, <2>3 DEF RxTypes, TypeOK
    <3>2. RxTypes' /\ Apart' /\ Cut(first, n)'
      BY <2>1, <2>2, <2>3, <3>1 DEF RxTypes, Apart, Cut
    <3>3. FramesAccounted'
      BY <2>2, <2>3 DEF FramesAccounted, CpuOwned
    <3>4. QED  BY <3>2, <3>3
  <2>5. CASE use.long
    BY <2>1, <2>3, <2>4, <2>5 DEF Shape, Long, RxInv
  <2>6. CASE ~use.long
    <3>1. PICK low \in Nat : ~midframe /\ arrived = low + n /\ Passed(low) /\ Holds(first, n, low)
      BY <2>1, <2>6 DEF Shape, Short
    <3>2. OnceInOrder'
      BY <2>3, <3>1 DEF Passed, OnceInOrder
    <3>3. Passed(low)'
      BY <2>3, <3>1, <3>2 DEF Passed
    <3>4. Holds(first, n, low)'
      BY <2>3, <3>1 DEF Holds
    <3>5. Short(first, n)'
      BY <2>3, <3>1, <3>3, <3>4 DEF Short
    <3>6. Shape(first, n)'
      BY <2>3, <2>6, <3>5 DEF Shape
    <3>7. QED  BY <2>4, <3>6 DEF RxInv
  <2>7. QED  BY <2>5, <2>6
<1>5. QED
  <2>1. "main" \in Actors /\ "isr" \in Actors
    BY DEF Actors
  <2>2. QED  BY <1>1, <1>2, <1>3, <1>4, <2>1 DEF Next, ETH_IRQHandler, Main

THEOREM RxIsKept == Spec /\ Apart => []RxInv
<1>1. QED  BY RxInit, RxStep, PTL DEF Spec

\* The ring and the driver's state stay what the code declares them to be; in
\* particular no index leaves the ring, and there is never more than one segment
\* in hand.
THEOREM RxTypesHold == Spec /\ Apart => []TypeOK
<1>1. RxInv => TypeOK
  BY DEF RxInv, RxTypes
<1>2. QED  BY <1>1, RxIsKept, PTL

\* From the first segment in hand up to the DMA's position the descriptors are the
\* processor's, all the others the DMA's: HAL_ETH_GetReceivedFrame forgets none
\* behind RxDesc, and low_level_input gives none back that was not read.
THEOREM RxRingIsCut == Spec /\ Apart => []RingIsCut
<1>1. RxInv => RingIsCut
  BY CutIsCut DEF RxInv
<1>2. QED  BY <1>1, RxIsKept, PTL

\* What low_level_input is about to copy is the processor's and is one frame from
\* its first part: the DMA cannot overwrite it.
THEOREM RxBufferIsStable == Spec /\ Apart => []BufferIsStable
<1>1. RxInv => BufferIsStable
  <2> SUFFICES ASSUME RxInv, NEW a \in Actors, pc[a] = "copy"
               PROVE  /\ Segments(FSRxDesc, length) \subseteq CpuOwned
                      /\ desc[FSRxDesc].fs
                      /\ \A i, j \in Segments(FSRxDesc, length) : desc[i].data = desc[j].data
    BY DEF BufferIsStable
  <2>1. PICK first \in Ring, n \in 0 .. ETH_RXBUFNB : Cut(first, n) /\ Shape(first, n)
    BY DEF RxInv
  <2>2. ~use.long
    BY <2>1 DEF Shape, Long, Actors
  <2>3. PICK low \in Nat : Passed(low) /\ Holds(first, n, low)
    BY <2>1, <2>2 DEF Shape, Short
  <2>4. SegCount = 1 /\ length = 1
    BY <2>3 DEF Passed, Actors
  <2>5. FSRxDesc = first /\ n >= 1 /\ Place(first, 0) = first
    BY <2>1, <2>4, PlaceOnce DEF Cut
  <2>6. Segments(first, 1) = {first}
    <3>1. (first + 0) % ETH_RXBUFNB = first
      BY <2>5 DEF Place
    <3>2. \A k : k \in 0 .. (1 - 1) <=> k = 0
      OBVIOUS
    <3>3. QED  BY <3>1, <3>2 DEF Segments
  <2>7. first \in Segments(first, n) /\ CpuOwned = Segments(first, n) /\ desc[first].fs
    <3>1. 0 \in 0 .. (n - 1)
      BY <2>5
    <3>2. desc[first].fs
      BY <2>3, <2>5, <3>1 DEF Holds
    <3>3. QED  BY <2>1, <2>5, <3>1, <3>2, CutIsCut DEF Segments, Place
  <2>8. QED  BY <2>4, <2>5, <2>6, <2>7
<1>2. QED  BY <1>1, RxIsKept, PTL

\* ethernetif_input gives lwIP each frame at most once, in the order they arrived,
\* although the handler may interrupt main anywhere and runs the same code.
THEOREM RxOnceInOrder == Spec /\ Apart => []OnceInOrder
<1>1. RxInv => OnceInOrder
  <2> SUFFICES ASSUME RxInv PROVE OnceInOrder
    OBVIOUS
  <2>1. PICK first \in Ring, n \in 0 .. ETH_RXBUFNB : Shape(first, n)
    BY DEF RxInv
  <2>2. CASE use.long
    <3>1. Len(delivered) = 0
      BY <2>1, <2>2 DEF Shape, Long
    <3>2. QED  BY <3>1 DEF OnceInOrder
  <2>3. CASE ~use.long
    BY <2>1, <2>3 DEF Shape, Short, Passed
  <2>4. QED  BY <2>2, <2>3
<1>2. QED  BY <1>1, RxIsKept, PTL

\* No frame the DMA has stored just disappears: it is in the ring, in a pbuf, with
\* lwIP, or there was no pbuf for it.
THEOREM RxFramesAccounted == Spec /\ Apart => []FramesAccounted
<1>1. RxInv => FramesAccounted
  BY DEF RxInv
<1>2. QED  BY <1>1, RxIsKept, PTL

\* Where main does not poll, as in the repository, lwIP never gets a frame: the
\* handler's test (see RxSizeIsFrameLength) lets it call lwip_pkt_handle only for
\* a first part, and then never again.
THEOREM HandlerAloneDeliversNothing == Spec /\ ~use.polls => [](delivered = <<>>)
<1> DEFINE Alone == ~use.polls
<1>1. Alone => Apart
  BY DEF Apart
<1>2. Alone /\ [Next]_vars => Alone'
  BY DEF Next, vars
<1>3. RxInv /\ Alone => delivered = <<>>
  BY DEF RxInv, Shape, Long, Short, Passed
<1>4. Spec /\ Alone => []Alone
  <2> HIDE DEF Alone
  <2>1. QED  BY <1>2, PTL DEF Spec
<1>5. Spec /\ Alone => [](delivered = <<>>)
  <2> HIDE DEF Alone
  <2>1. QED  BY <1>1, <1>3, <1>4, RxIsKept, PTL
<1>6. QED  BY <1>5

==============================================================================
