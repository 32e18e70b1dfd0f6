---------------------------- MODULE MallocProofs ----------------------------
(***************************************************************************)
(* Proofs about the memory manager, for every table size, block size and   *)
(* set of request sizes.  Of BlockPool: regions never overlap; of          *)
(* BlockTable: what a table that describes the regions says of them.  Of   *)
(* Malloc: the table always describes exactly the regions callers hold,    *)
(* and the manager implements BlockPool.  Of MallocLoop: the loops of      *)
(* malloc.c, iteration by iteration, implement Malloc.  Of LwipComm, the   *)
(* caller: for any number of calls of lwip_comm_init, what the drivers     *)
(* hold is theirs, how much is lost, and how large a pool serves two.      *)
(***************************************************************************)
EXTENDS LwipComm, MallocLoop, FiniteSetTheorems, TLAPS

\* Quotient and remainder as malloc.c uses them.
LEMMA DivMod ==
  ASSUME NEW n \in Nat, NEW d \in Nat \ {0}
  PROVE  /\ n \div d \in Nat
         /\ n % d \in 0 .. (d - 1)
         /\ n = d * (n \div d) + (n % d)
  OBVIOUS

\* my_mem_malloc's block count: none exactly for a request of nothing, and never
\* fewer bytes than were asked for.
LEMMA BlocksForCovers ==
  ASSUME NEW s \in Nat
  PROVE  /\ BlocksFor(s) \in Nat
         /\ BlocksFor(s) = 0 <=> s = 0
         /\ s <= BlocksFor(s) * MEM1_BLOCK_SIZE
<1> DEFINE q == s \div MEM1_BLOCK_SIZE
           r == s % MEM1_BLOCK_SIZE
<1>1. MEM1_BLOCK_SIZE \in Nat \ {0}
  BY PoolAssumption
<1>2. q \in Nat /\ r \in 0 .. (MEM1_BLOCK_SIZE - 1) /\ s = MEM1_BLOCK_SIZE * q + r
  BY <1>1, DivMod
<1>3. BlocksFor(s) = q + (IF r # 0 THEN 1 ELSE 0)
  BY DEF BlocksFor
<1> HIDE DEF q, r
<1>4. MEM1_BLOCK_SIZE * q \in Nat
  BY <1>1, <1>2
<1>5. CASE r = 0
  <2>1. BlocksFor(s) = q /\ s = MEM1_BLOCK_SIZE * q
    BY <1>1, <1>2, <1>3, <1>4, <1>5
  <2>2. QED  BY <2>1, <1>1, <1>2
<1>6. CASE r # 0
  <2>1. BlocksFor(s) = q + 1 /\ s # 0
    BY <1>1, <1>2, <1>3, <1>4, <1>6
  <2>2. (q + 1) * MEM1_BLOCK_SIZE = MEM1_BLOCK_SIZE * q + MEM1_BLOCK_SIZE
    BY <1>1, <1>2
  <2>3. QED  BY <2>1, <2>2, <1>1, <1>2, <1>4
<1>7. QED  BY <1>5, <1>6

\* Block numbers and byte offsets are ordered alike.
LEMMA BytesMonotone ==
  ASSUME NEW x \in Nat, NEW y \in Nat, x <= y
  PROVE  x * MEM1_BLOCK_SIZE <= y * MEM1_BLOCK_SIZE
  BY PoolAssumption

-----------------------------------------------------------------------------

LEMMA PoolInitInv == PoolInit => PoolInv
<1> SUFFICES ASSUME PoolInit PROVE PoolInv
  OBVIOUS
<1>1. PoolTypeOK
  BY DEF PoolInit, PoolTypeOK
<1>2. \A b \in Blocks : Held(b) = {}
  <2>1. BlocksFor(0) = 0
    BY BlocksForCovers
  <2>2. QED  BY <2>1 DEF PoolInit, Held, Run, Blocks
<1>3. QED  BY <1>1, <1>2 DEF PoolInv, HeldDisjoint

\* A step of the pool hands out only unheld blocks.
LEMMA PoolStepInv == PoolInv /\ [PoolNext]_poolVars => PoolInv'
<1> SUFFICES ASSUME PoolInv, [PoolNext]_poolVars PROVE PoolInv'
  OBVIOUS
<1> USE DEF PoolInv
<1>t. MEM1_ALLOC_TABLE_SIZE \in Nat /\ MEM1_BLOCK_SIZE \in Nat /\ Sizes \subseteq Nat
  BY PoolAssumption
<1>1. ASSUME NEW sz \in Sizes, Grant(sz)
      PROVE  PoolInv'
  <2>1. PICK b \in Room(BlocksFor(sz)) :
          live' = [live EXCEPT ![b] = sz] /\ req' = sz /\ ret' = b * MEM1_BLOCK_SIZE
    BY <1>1 DEF Grant
  <2>2. /\ b \in Blocks
        /\ Run(b, BlocksFor(sz)) \subseteq Blocks
        /\ \A c \in Blocks : Run(b, BlocksFor(sz)) \cap Held(c) = {}
    BY DEF Room
  <2>3. PoolTypeOK'
    <3>1. b \in Nat /\ b * MEM1_BLOCK_SIZE \in Nat
      BY <1>t, <2>2 DEF Blocks
    <3>2. QED  BY <1>t, <2>1, <3>1 DEF PoolTypeOK
  <2>4. Held(b)' = Run(b, BlocksFor(sz))
    BY <2>1, <2>2 DEF PoolTypeOK, Held
  <2>5. \A c \in Blocks \ {b} : Held(c)' = Held(c)
    BY <2>1 DEF PoolTypeOK, Held
  <2>6. HeldDisjoint'
    BY <2>2, <2>4, <2>5 DEF HeldDisjoint
  <2>7. QED  BY <2>3, <2>6
<1>2. ASSUME NEW sz \in Sizes, Refuse(sz)
      PROVE  PoolInv'
  BY <1>t, <1>2 DEF Refuse, PoolTypeOK, HeldDisjoint, Held
<1>3. ASSUME NEW b \in Blocks, Release(b)
      PROVE  PoolInv'
  <2>1. PoolTypeOK'
    BY <1>3 DEF Release, PoolTypeOK
  <2>2. Held(b)' = {}
    <3>1. live'[b] = 0
      BY <1>3 DEF Release, PoolTypeOK
    <3>2. BlocksFor(0) = 0
      BY BlocksForCovers
    <3>3. QED  BY <3>1, <3>2 DEF Held, Run, Blocks
  <2>3. \A c \in Blocks \ {b} : Held(c)' = Held(c)
    BY <1>3 DEF Release, PoolTypeOK, Held
  <2>4. HeldDisjoint'
    BY <2>2, <2>3 DEF HeldDisjoint
  <2>5. QED  BY <2>1, <2>4
<1>4. CASE UNCHANGED poolVars
  BY <1>4 DEF poolVars, PoolTypeOK, HeldDisjoint, Held
<1>5. QED  BY <1>1, <1>2, <1>3, <1>4 DEF PoolNext

\* Disjoint blocks are disjoint bytes.
LEMMA NoOverlapFromInv == PoolInv => NoOverlap
<1> SUFFICES ASSUME PoolInv, NEW b \in Blocks
             PROVE  /\ Bytes(b) \subseteq 0 .. (MEM1_MAX_SIZE - 1)
                    /\ \A c \in Blocks \ {b} : Bytes(b) \cap Bytes(c) = {}
  BY DEF NoOverlap
<1> DEFINE B == MEM1_BLOCK_SIZE
           end(d) == d + BlocksFor(live[d])
<1>t. MEM1_ALLOC_TABLE_SIZE \in Nat /\ B \in Nat \ {0} /\ Blocks \subseteq Nat
  BY PoolAssumption DEF Blocks
\* A region ends before the byte offset of the block it ends before.
<1>1. ASSUME NEW d \in Blocks
      PROVE  /\ live[d] \in Nat /\ BlocksFor(live[d]) \in Nat
             /\ d * B + live[d] <= end(d) * B
  <2>1. live[d] \in Nat
    BY DEF PoolInv, PoolTypeOK
  <2>2. BlocksFor(live[d]) \in Nat /\ live[d] <= BlocksFor(live[d]) * B
    BY <2>1, BlocksForCovers
  <2>3. end(d) * B = d * B + BlocksFor(live[d]) * B
    BY <1>t, <2>2
  <2>4. QED  BY <1>t, <2>1, <2>2, <2>3
<1>2. Bytes(b) \subseteq 0 .. (MEM1_MAX_SIZE - 1)
  <2>1. CASE live[b] = 0
    BY <1>t, <2>1 DEF Bytes
  <2>2. CASE live[b] # 0
    <3>1. BlocksFor(live[b]) > 0
      BY <1>1, <2>2, BlocksForCovers
    <3>2. end(b) - 1 \in Blocks
      BY <1>t, <1>1, <3>1 DEF PoolInv, HeldDisjoint, Held, Run
    <3>3. end(b) \in Nat /\ end(b) <= MEM1_ALLOC_TABLE_SIZE
      BY <1>t, <1>1, <3>2 DEF Blocks
    <3>4. end(b) * B <= MEM1_MAX_SIZE
      BY <1>t, <3>3, BytesMonotone DEF MEM1_MAX_SIZE
    <3>5. QED  BY <1>t, <1>1, <3>3, <3>4 DEF Bytes, MEM1_MAX_SIZE
  <2>3. QED  BY <2>1, <2>2
<1>3. ASSUME NEW c \in Blocks \ {b}
      PROVE  Bytes(b) \cap Bytes(c) = {}
  <2>1. CASE live[b] = 0 \/ live[c] = 0
    BY <1>t, <1>1, <2>1 DEF Bytes
  <2>2. CASE live[b] # 0 /\ live[c] # 0
    <3>1. BlocksFor(live[b]) > 0 /\ BlocksFor(live[c]) > 0
      BY <1>1, <2>2, BlocksForCovers
    <3>2. Run(b, BlocksFor(live[b])) \cap Run(c, BlocksFor(live[c])) = {}
      BY DEF PoolInv, HeldDisjoint, Held
    <3>3. end(b) <= c \/ end(c) <= b
      <4>1. b \notin Run(c, BlocksFor(live[c])) /\ c \notin Run(b, BlocksFor(live[b]))
        BY <1>t, <1>1, <3>1, <3>2 DEF Run
      <4>2. QED  BY <1>t, <1>1, <4>1 DEF Run
    <3>4. end(b) \in Nat /\ end(c) \in Nat
      BY <1>t, <1>1
    <3>5. end(b) * B <= c * B \/ end(c) * B <= b * B
      BY <1>t, <3>3, <3>4, BytesMonotone
    <3>6. QED  BY <1>t, <1>1, <3>4, <3>5 DEF Bytes
  <2>3. QED  BY <2>1, <2>2
<1>4. QED  BY <1>2, <1>3

\* Whatever gap an allocator picks, and however requests and releases are mixed,
\* no byte ever belongs to two regions.
THEOREM PoolNeverOverlaps == PoolSpec => []NoOverlap
<1>1. PoolSpec => []PoolInv
  BY PoolInitInv, PoolStepInv, PTL DEF PoolSpec
<1>2. QED  BY <1>1, NoOverlapFromInv, PTL

-----------------------------------------------------------------------------

LEMMA BlocksAreNat == Blocks \subseteq Nat
  BY PoolAssumption DEF Blocks

\* The first block of a region is one of its blocks.
LEMMA RegionStart ==
  ASSUME NEW regions \in [Blocks -> Nat], NEW b \in Blocks
  PROVE  /\ regions[b] # 0 => b \in Region(regions, b)
         /\ regions[b] = 0 => Region(regions, b) = {}
<1>1. regions[b] \in Nat /\ b \in Nat
  BY BlocksAreNat
<1>2. BlocksFor(regions[b]) \in Nat /\ (BlocksFor(regions[b]) = 0 <=> regions[b] = 0)
  BY <1>1, BlocksForCovers
<1>3. QED  BY <1>1, <1>2 DEF Region, Run

\* The table shows as free exactly the blocks of no region.
LEMMA FreeIffUnheld ==
  ASSUME NEW regions \in [Blocks -> Nat], NEW map, Describes(map, regions),
         NEW k \in Blocks
  PROVE  map[k] = 0 <=> \A b \in Blocks : k \notin Region(regions, b)
<1>1. ASSUME NEW b \in Blocks, k \in Region(regions, b) PROVE map[k] # 0
  <2>1. map[k] = BlocksFor(regions[b])
    BY <1>1 DEF Describes
  <2>2. regions[b] # 0 /\ regions[b] \in Nat
    BY <1>1, RegionStart
  <2>3. QED  BY <2>1, <2>2, BlocksForCovers
<1>2. QED  BY <1>1 DEF Describes

\* The gaps the scan can find are the places the pool has room.
LEMMA GapsAreRoom ==
  ASSUME PoolTypeOK, NEW map, Describes(map, live), NEW n \in Nat
  PROVE  Gaps(map, n) = Room(n)
<1>1. live \in [Blocks -> Nat] /\ \A c : Held(c) = Region(live, c)
  BY DEF PoolTypeOK, Held, Region
<1>2. ASSUME NEW b \in Blocks
      PROVE  b \in Gaps(map, n) <=> b \in Room(n)
  <2>1. b \in Gaps(map, n) <=>
          \A k \in Run(b, n) : k \in Blocks /\ \A c \in Blocks : k \notin Held(c)
    BY <1>1, FreeIffUnheld DEF Gaps
  <2>2. QED  BY <2>1 DEF Room
<1>3. QED  BY <1>2 DEF Gaps, Room

\* What myfree finds in the table for a pointer callers may pass: the length of
\* the region they hold there, or nothing.
LEMMA FreeFindsRegion ==
  ASSUME PoolTypeOK, NEW map, Describes(map, live),
         NEW off \in 0 .. MEM1_MAX_SIZE, MayFree(off), off < MEM1_MAX_SIZE
  PROVE  LET b == off \div MEM1_BLOCK_SIZE
         IN  b \in Blocks /\ Run(b, map[b]) = Region(live, b)
<1>1. PICK b \in Blocks :
        /\ off = b * MEM1_BLOCK_SIZE
        /\ live[b] # 0 \/ \A c \in Blocks : b \notin Held(c)
  <2>1. MEM1_MAX_SIZE \in Nat
    BY PoolAssumption DEF MEM1_MAX_SIZE
  <2>2. QED  BY <2>1 DEF MayFree
<1>2. off \div MEM1_BLOCK_SIZE = b
  <2>1. b \in Nat /\ MEM1_BLOCK_SIZE \in Nat \ {0}
    BY BlocksAreNat, PoolAssumption
  <2>2. (b * MEM1_BLOCK_SIZE) \div MEM1_BLOCK_SIZE = b
    BY <2>1
  <2>3. QED  BY <1>1, <2>2
<1>3. live \in [Blocks -> Nat] /\ \A c : Held(c) = Region(live, c)
  BY DEF PoolTypeOK, Held, Region
<1>4. CASE live[b] # 0
  <2>1. b \in Region(live, b)
    BY <1>3, <1>4, RegionStart
  <2>2. map[b] = BlocksFor(live[b])
    BY <2>1 DEF Describes
  <2>3. QED  BY <1>2, <2>2 DEF Region
<1>5. CASE live[b] = 0
  <2>1. Region(live, b) = {} /\ map[b] = 0
    BY <1>1, <1>3, <1>5, RegionStart, FreeIffUnheld
  <2>2. Run(b, 0) = {}
    BY BlocksAreNat DEF Run
  <2>3. QED  BY <1>2, <2>1, <2>2
<1>6. QED  BY <1>4, <1>5

\* Marking a gap describes one region more.
LEMMA MarkDescribes ==
  ASSUME NEW regions \in [Blocks -> Nat], NEW map, Describes(map, regions),
         NEW s \in Nat \ {0}, NEW b \in Gaps(map, BlocksFor(s))
  PROVE  Describes(Fill(map, b, BlocksFor(s), BlocksFor(s)), [regions EXCEPT ![b] = s])
<1> DEFINE n == BlocksFor(s)
           map2 == Fill(map, b, n, n)
           regions2 == [regions EXCEPT ![b] = s]
<1>1. n \in Nat \ {0} /\ b \in Blocks /\ b \in Run(b, n)
  BY BlocksForCovers, BlocksAreNat DEF Gaps, Run
<1> HIDE DEF n
<1>2. \A k \in Run(b, n) : k \in Blocks /\ map[k] = 0
  BY DEF Gaps, n
<1>3. Region(regions2, b) = Run(b, n)
  BY <1>1 DEF Region, n
<1>4. \A c \in Blocks \ {b} : regions2[c] = regions[c] /\ Region(regions2, c) = Region(regions, c)
  BY <1>1 DEF Region
<1>5. \A c \in Blocks : Region(regions, c) \cap Run(b, n) = {}
  BY <1>2, FreeIffUnheld
<1>6. map2 \in [Blocks -> Nat]
  BY <1>1 DEF Fill, Describes
<1>7. \A k \in Blocks : map2[k] = IF k \in Run(b, n) THEN n ELSE map[k]
  BY DEF Fill
<1> HIDE DEF map2
<1>8. ASSUME NEW c \in Blocks, NEW k \in Region(regions2, c)
      PROVE  k \in Blocks /\ map2[k] = BlocksFor(regions2[c])
  <2>1. CASE c = b
    BY <1>1, <1>2, <1>3, <1>7, <1>8, <2>1 DEF n
  <2>2. CASE c # b
    <3>1. k \in Region(regions, c) /\ k \notin Run(b, n)
      BY <1>4, <1>5, <1>8, <2>2
    <3>2. QED  BY <1>4, <1>7, <2>2, <3>1 DEF Describes
  <2>3. QED  BY <2>1, <2>2
<1>9. ASSUME NEW k \in Blocks, map2[k] # 0
      PROVE  \E c \in Blocks : k \in Region(regions2, c)
  <2>1. CASE k \in Run(b, n)
    BY <1>1, <1>3, <2>1
  <2>2. CASE k \notin Run(b, n)
    <3>1. PICK c \in Blocks : k \in Region(regions, c)
      BY <1>7, <1>9, <2>2 DEF Describes
    <3>2. regions[b] = 0
      BY <1>1, <1>5, RegionStart
    <3>3. c # b
      BY <1>1, <3>1, <3>2, RegionStart
    <3>4. QED  BY <1>4, <3>1, <3>3
  <2>3. QED  BY <2>1, <2>2
<1>10. QED  BY <1>6, <1>8, <1>9 DEF Describes, map2, n

\* Clearing the blocks of a region that shares none describes one region less.
LEMMA ClearDescribes ==
  ASSUME NEW regions \in [Blocks -> Nat], NEW map, Describes(map, regions),
         NEW b \in Blocks, Run(b, map[b]) = Region(regions, b),
         \A c \in Blocks \ {b} : Region(regions, b) \cap Region(regions, c) = {}
  PROVE  Describes(Fill(map, b, map[b], 0), [regions EXCEPT ![b] = 0])
<1> DEFINE map2 == Fill(map, b, map[b], 0)
           regions2 == [regions EXCEPT ![b] = 0]
<1>1. regions2 \in [Blocks -> Nat] /\ regions2[b] = 0 /\ Region(regions2, b) = {}
  BY RegionStart
<1>2. \A c \in Blocks \ {b} : regions2[c] = regions[c] /\ Region(regions2, c) = Region(regions, c)
  BY DEF Region
<1>3. map2 \in [Blocks -> Nat]
  BY DEF Fill, Describes
<1>4. \A k \in Blocks : map2[k] = IF k \in Region(regions, b) THEN 0 ELSE map[k]
  BY DEF Fill
<1> HIDE DEF map2, regions2
<1>5. ASSUME NEW c \in Blocks, NEW k \in Region(regions2, c)
      PROVE  k \in Blocks /\ map2[k] = BlocksFor(regions2[c])
  <2>1. c # b /\ k \in Region(regions, c)
    BY <1>1, <1>2, <1>5
  <2>2. k \in Blocks /\ map[k] = BlocksFor(regions[c]) /\ k \notin Region(regions, b)
    BY <2>1 DEF Describes
  <2>3. QED  BY <1>2, <1>4, <2>1, <2>2
<1>6. ASSUME NEW k \in Blocks, map2[k] # 0
      PROVE  \E c \in Blocks : k \in Region(regions2, c)
  <2>1. k \notin Region(regions, b) /\ map[k] # 0
    BY <1>4, <1>6
  <2>2. PICK c \in Blocks : k \in Region(regions, c)
    BY <2>1 DEF Describes
  <2>3. QED  BY <1>2, <2>1, <2>2
<1>7. QED  BY <1>3, <1>5, <1>6 DEF Describes, map2, regions2

-----------------------------------------------------------------------------

\* my_mem_init loses nothing: when it runs, the table is clear already.
LEMMA InitIsHarmless == MallocInv => my_mem_init = memmap
  BY DEF MallocInv, NotReadyIsEmpty, my_mem_init

-----------------------------------------------------------------------------

\* Every step of the manager is a step of the pool, or none.
LEMMA StepImplements == MallocInv /\ [Next]_vars => [PoolNext]_poolVars
<1> SUFFICES ASSUME MallocInv, [Next]_vars PROVE [PoolNext]_poolVars
  OBVIOUS
<1>1. ASSUME NEW sz \in Sizes, mymalloc(sz)
      PROVE  Grant(sz) \/ Refuse(sz)
  <2>1. BlocksFor(sz) \in Nat
    BY BlocksForCovers, PoolAssumption
  <2>2. Gaps(my_mem_init, BlocksFor(sz)) = Room(BlocksFor(sz))
    BY <2>1, GapsAreRoom, InitIsHarmless DEF MallocInv, TypeOK, TableMatchesHeld
  <2>3. QED
    BY <1>1, <2>2 DEF mymalloc, IsHighestGap, Grant, Refuse
<1>2. ASSUME NEW off \in 0 .. MEM1_MAX_SIZE, MayFree(off), myfree(off)
      PROVE  [PoolNext]_poolVars
  <2>1. CASE UNCHANGED live
    BY <1>2, <2>1 DEF myfree, poolVars
  <2>2. CASE off < MEM1_MAX_SIZE
             /\ live' = [live EXCEPT ![off \div MEM1_BLOCK_SIZE] = 0]
    <3>1. off \div MEM1_BLOCK_SIZE \in Blocks
      BY <1>2, <2>2, FreeFindsRegion DEF MallocInv, TypeOK, TableMatchesHeld
    <3>2. Release(off \div MEM1_BLOCK_SIZE)
      BY <1>2, <2>2 DEF myfree, Release
    <3>3. QED  BY <3>1, <3>2 DEF PoolNext
  <2>3. QED  BY <1>2, <2>1, <2>2 DEF myfree
<1>3. CASE UNCHANGED vars
  BY <1>3 DEF vars, poolVars
<1>4. QED  BY <1>1, <1>2, <1>3 DEF Next, PoolNext

LEMMA InitInv == Init => MallocInv
<1> SUFFICES ASSUME Init PROVE MallocInv
  OBVIOUS
<1>1. PoolInv
  BY PoolInitInv DEF Init
<1>2. TypeOK
  BY <1>1 DEF Init, TypeOK, PoolInv
<1>3. \A b \in Blocks : Region(live, b) = {}
  BY RegionStart DEF Init, PoolInit
<1>4. TableMatchesHeld
  BY <1>3 DEF TableMatchesHeld, Describes, Init
<1>5. NotReadyIsEmpty
  BY DEF Init, PoolInit, NotReadyIsEmpty
<1>6. QED  BY <1>1, <1>2, <1>4, <1>5 DEF MallocInv

LEMMA MallocKeepsTable ==
  ASSUME MallocInv, PoolInv', NEW sz \in Sizes, mymalloc(sz)
  PROVE  TypeOK' /\ TableMatchesHeld' /\ NotReadyIsEmpty'
<1>1. memrdy' = 1 /\ my_mem_init = memmap
  BY InitIsHarmless DEF mymalloc
<1>2. Describes(memmap, live) /\ live \in [Blocks -> Nat]
  BY DEF MallocInv, TypeOK, PoolTypeOK, TableMatchesHeld
<1>3. Describes(memmap', live')
  <2>1. CASE UNCHANGED <<memmap, live>>
    BY <1>2, <2>1
  <2>2. ASSUME sz # 0, NEW b \in Blocks, IsHighestGap(memmap, BlocksFor(sz), b),
               memmap' = Fill(memmap, b, BlocksFor(sz), BlocksFor(sz)),
               live' = [live EXCEPT ![b] = sz]
        PROVE  Describes(memmap', live')
    <3>1. sz \in Nat \ {0} /\ b \in Gaps(memmap, BlocksFor(sz))
      BY <2>2, PoolAssumption DEF IsHighestGap
    <3>2. QED  BY <1>2, <2>2, <3>1, MarkDescribes
  <2>3. QED  BY <1>1, <2>1, <2>2 DEF mymalloc
<1>4. QED
  BY <1>1, <1>3 DEF TypeOK, PoolInv, Describes, TableMatchesHeld, NotReadyIsEmpty

LEMMA FreeKeepsTable ==
  ASSUME MallocInv, PoolInv', NEW off \in 0 .. MEM1_MAX_SIZE, MayFree(off),
         myfree(off)
  PROVE  TypeOK' /\ TableMatchesHeld' /\ NotReadyIsEmpty'
<1> DEFINE b == off \div MEM1_BLOCK_SIZE
<1>1. memrdy' = 1
  BY DEF myfree
<1>2. Describes(memmap, live) /\ live \in [Blocks -> Nat] /\ PoolTypeOK
  BY DEF MallocInv, TypeOK, PoolTypeOK, TableMatchesHeld
<1>3. Describes(memmap', live')
  <2>1. CASE UNCHANGED <<memmap, live>>
    BY <1>2, <2>1
  <2>2. CASE /\ off < MEM1_MAX_SIZE
             /\ memmap' = Fill(memmap, b, memmap[b], 0)
             /\ live' = [live EXCEPT ![b] = 0]
    <3>1. b \in Blocks /\ Run(b, memmap[b]) = Region(live, b)
      BY <1>2, <2>2, FreeFindsRegion
    <3> HIDE DEF b
    <3>2. \A c \in Blocks \ {b} : Region(live, b) \cap Region(live, c) = {}
      BY <3>1 DEF MallocInv, PoolInv, HeldDisjoint, Held, Region
    <3>3. QED  BY <1>2, <2>2, <3>1, <3>2, ClearDescribes
  <2>3. QED  BY <2>1, <2>2, InitIsHarmless DEF myfree
<1>4. QED
  BY <1>1, <1>3 DEF TypeOK, PoolInv, Describes, TableMatchesHeld, NotReadyIsEmpty

LEMMA StepInv == MallocInv /\ [Next]_vars => MallocInv'
<1> SUFFICES ASSUME MallocInv, [Next]_vars PROVE MallocInv'
  OBVIOUS
<1>1. PoolInv'
  BY StepImplements, PoolStepInv DEF MallocInv
<1>2. ASSUME NEW sz \in Sizes, mymalloc(sz) PROVE MallocInv'
  BY <1>1, <1>2, MallocKeepsTable DEF MallocInv
<1>3. ASSUME NEW off \in 0 .. MEM1_MAX_SIZE, MayFree(off), myfree(off)
      PROVE  MallocInv'
  BY <1>1, <1>3, FreeKeepsTable DEF MallocInv
<1>4. CASE UNCHANGED vars
  BY <1>1, <1>4 DEF vars, MallocInv, TypeOK, PoolInv, TableMatchesHeld, NotReadyIsEmpty
<1>5. QED  BY <1>2, <1>3, <1>4 DEF Next

-----------------------------------------------------------------------------

\* Inside every region handed out, and only there, the table holds the number of
\* blocks of the region.
THEOREM MallocCorrect == Spec => []MallocInv
  BY InitInv, StepInv, PTL DEF Spec

\* The manager of malloc.c keeps the promise of BlockPool: no refusal while a
\* gap is long enough, no region handed out twice, no step that takes a region
\* from a caller who did not free it.
THEOREM MallocImplementsPool == Spec => PoolSpec
<1>1. Init => PoolInit
  BY DEF Init
<1>2. QED
  BY <1>1, MallocCorrect, StepImplements, PTL DEF Spec, PoolSpec

\* No byte ever belongs to two regions mymalloc handed out.
THEOREM MallocNeverOverlaps == Spec => []NoOverlap
  BY MallocImplementsPool, PoolNeverOverlaps, PTL

\* No call changes the table inside a region that is held before and after it.
THEOREM MallocLeavesOthers == Spec => OthersUntouched
<1> DEFINE A == \A b \in Blocks :
                  live[b] # 0 /\ live'[b] = live[b] =>
                    \A k \in Held(b) : memmap'[k] = memmap[k]
<1>1. MallocInv /\ MallocInv' => A
  <2> SUFFICES ASSUME MallocInv, MallocInv', NEW b \in Blocks, live'[b] = live[b],
                      NEW k \in Held(b)
               PROVE  memmap'[k] = memmap[k]
    OBVIOUS
  <2>1. memmap[k] = BlocksFor(live[b])
    BY DEF MallocInv, TableMatchesHeld, Describes, Held, Region
  <2>2. k \in Region(live, b)'
    BY DEF Held, Region
  <2>3. memmap'[k] = BlocksFor(live'[b])
    BY <2>2 DEF MallocInv, TableMatchesHeld, Describes, Region
  <2>4. QED  BY <2>1, <2>3
<1>2. QED  BY <1>1, MallocCorrect, PTL DEF OthersUntouched

\* A full share of the pool means that all of it is used.
LEMMA FullShare ==
  ASSUME NEW n \in Nat \ {0}, NEW c \in 0 .. n
  PROVE  (c * 1000) \div n = 1000 <=> c = n
<1> DEFINE d == c * 1000
           q == d \div n
           r == d % n
<1>1. q \in Nat /\ r \in 0 .. (n - 1) /\ d = n * q + r
  <2>1. d \in Nat
    OBVIOUS
  <2> HIDE DEF d
  <2>2. QED  BY <2>1, DivMod
<1> HIDE DEF q, r
<1>2. ASSUME q = 1000 PROVE c = n
  BY <1>1, <1>2
<1>3. ASSUME c = n PROVE q = 1000
  <2>1. (n * 1000) \div n = 1000
    OBVIOUS
  <2>2. QED  BY <1>3, <2>1 DEF q, d
<1>4. QED  BY <1>2, <1>3 DEF q, d

\* The blocks my_mem_perused counts are the blocks callers hold, and it reports a
\* full pool only when every block is held.
THEOREM PerusedIsRight == Spec => []PerusedIsHeld
<1> DEFINE held == UNION {Held(b) : b \in Blocks}
           used == {b \in Blocks : memmap[b] # 0}
<1>1. MallocInv => PerusedIsHeld
  <2> SUFFICES ASSUME MallocInv PROVE PerusedIsHeld
    OBVIOUS
  <2>1. used = held
    <3>1. \A k \in Blocks : memmap[k] = 0 <=> \A b \in Blocks : k \notin Held(b)
      BY FreeIffUnheld DEF MallocInv, TypeOK, PoolTypeOK, TableMatchesHeld, Held, Region
    <3>2. held \subseteq Blocks
      BY DEF MallocInv, PoolInv, HeldDisjoint
    <3>3. QED  BY <3>1, <3>2
  <2>2. /\ IsFiniteSet(Blocks) /\ Cardinality(Blocks) = MEM1_ALLOC_TABLE_SIZE
        /\ MEM1_ALLOC_TABLE_SIZE \in Nat \ {0}
    BY PoolAssumption, FS_Interval DEF Blocks
  <2>3. /\ IsFiniteSet(used) /\ Cardinality(used) \in 0 .. MEM1_ALLOC_TABLE_SIZE
        /\ Cardinality(used) = MEM1_ALLOC_TABLE_SIZE <=> used = Blocks
    <3>1. IsFiniteSet(used) /\ Cardinality(used) <= Cardinality(Blocks)
      BY <2>2, FS_Subset
    <3>2. Cardinality(used) = Cardinality(Blocks) => used = Blocks
      BY <2>2, FS_Subset
    <3>3. Cardinality(used) \in Nat
      BY <3>1, FS_CardinalityType
    <3>4. QED  BY <2>2, <3>1, <3>2, <3>3
  <2>4. my_mem_perused = (Cardinality(used) * 1000) \div MEM1_ALLOC_TABLE_SIZE
    BY DEF my_mem_perused
  <2> HIDE DEF used, held
  <2>5. my_mem_perused = 1000 <=> used = Blocks
    <3>1. (Cardinality(used) * 1000) \div MEM1_ALLOC_TABLE_SIZE = 1000
            <=> Cardinality(used) = MEM1_ALLOC_TABLE_SIZE
      BY <2>2, <2>3, FullShare
    <3>2. QED  BY <2>3, <2>4, <3>1
  <2>6. /\ my_mem_perused = (Cardinality(held) * 1000) \div MEM1_ALLOC_TABLE_SIZE
        /\ my_mem_perused = 1000 <=> held = Blocks
    BY <2>1, <2>4, <2>5
  <2>7. QED  BY <2>6 DEF PerusedIsHeld, held
<1>2. QED  BY <1>1, MallocCorrect, PTL

-----------------------------------------------------------------------------
\* The operators of the instance Atomic are those of this module.
LEMMA Words ==
  /\ Atomic!Blocks = Blocks
  /\ \A b, n : Atomic!Run(b, n) = Run(b, n)
  /\ \A s : Atomic!BlocksFor(s) = BlocksFor(s)
  /\ \A b : Atomic!Held(b) = Held(b)
  /\ Atomic!MEM1_MAX_SIZE = MEM1_MAX_SIZE /\ Atomic!NULL = NULL
<1>1. /\ Atomic!Blocks = Blocks
      /\ \A b, n : Atomic!Run(b, n) = Run(b, n)
      /\ \A s : Atomic!BlocksFor(s) = BlocksFor(s)
      /\ Atomic!MEM1_MAX_SIZE = MEM1_MAX_SIZE /\ Atomic!NULL = NULL
  BY DEF Blocks, Atomic!Blocks, Run, Atomic!Run, BlocksFor, Atomic!BlocksFor,
         MEM1_MAX_SIZE, Atomic!MEM1_MAX_SIZE, NULL, Atomic!NULL
<1>2. QED  BY <1>1 DEF Held, Atomic!Held

LEMMA TableWords ==
  /\ \A map, n : Atomic!Gaps(map, n) = Gaps(map, n)
  /\ \A map, n, b : Atomic!IsHighestGap(map, n, b) <=> IsHighestGap(map, n, b)
  /\ \A map, b, n, v : Atomic!Fill(map, b, n, v) = Fill(map, b, n, v)
  /\ \A off : Atomic!MayFree(off) <=> MayFree(off)
<1>1. \A map, n : Atomic!Gaps(map, n) = Gaps(map, n)
  BY Words DEF Gaps, Atomic!Gaps
<1>2. QED
  BY <1>1, Words DEF Atomic!IsHighestGap, IsHighestGap, Fill, Atomic!Fill, MayFree,
                     Atomic!MayFree

-----------------------------------------------------------------------------

\* What a call in progress knows beside LoopInv.
CallInv ==
  /\ memrdy = 0 => pc = "idle"
  /\ pc \in {"scan", "mark"} => size \in Sizes \ {0} /\ nmemb = BlocksFor(size)
  /\ pc = "mark" => IsHighestGap(TableAtCall, nmemb, offset)
  /\ pc = "clear" => /\ wasrdy = 1
                     /\ \E off \in 0 .. MEM1_MAX_SIZE :
                          /\ MayFree(off) /\ off < MEM1_MAX_SIZE
                          /\ offset = off \div MEM1_BLOCK_SIZE
                     /\ offset \in Blocks /\ nmemb = TableAtCall[offset]
                     /\ Run(offset, nmemb) = Region(live, offset)
                     /\ \A b \in Run(offset, nmemb) :
                          memmap[b] = IF b < offset + i THEN 0 ELSE nmemb

\* The table a call found describes the regions held, and is clear before the first
\* call.
TableInv ==
  /\ PoolInv
  /\ Describes(TableAtCall, live)
  /\ (IF pc = "idle" THEN memrdy ELSE wasrdy) = 0 => TableAtCall = [b \in Blocks |-> 0]

\* The inductive invariant.
LoopsIInv == LoopInv /\ CallInv /\ TableInv

\* Between calls and during the scan the table is as it was.
LEMMA TableIsMap ==
  ASSUME memmap \in [Blocks -> Nat], pc \in {"idle", "scan"}
  PROVE  TableAtCall = memmap
  BY DEF TableAtCall

\* The clearing of the table by the first call changes nothing.
LEMMA NothingToClear ==
  ASSUME LoopsIInv
  PROVE  /\ pc = "idle" /\ memrdy = 0 => memmap = [b \in Blocks |-> 0]
         /\ Atomic!my_mem_init = TableAtCall
<1>1. pc = "idle" => TableAtCall = memmap
  BY TableIsMap DEF LoopsIInv, LoopInv, LoopTypeOK, TypeOK
<1>2. QED
  BY <1>1, Words DEF LoopsIInv, TableInv, Atomic!my_mem_init

LEMMA InitSound == LoopInit => Atomic!Init /\ LoopsIInv
<1> SUFFICES ASSUME LoopInit PROVE Atomic!Init /\ LoopsIInv
  OBVIOUS
<1>1. memmap \in [Blocks -> Nat] /\ TableAtCall = [b \in Blocks |-> 0]
  BY DEF LoopInit, Init, TableAtCall
<1>2. Atomic!Init
  BY <1>1, Words DEF LoopInit, Init, Atomic!Init, PoolInit, Atomic!PoolInit
<1>3. PoolInv
  BY PoolInitInv DEF LoopInit, Init
<1>4. LoopInv
  BY <1>1, <1>3, PoolAssumption DEF LoopInit, Init, LoopInv, LoopTypeOK, TypeOK, ScanInv, LoopsInBounds, PoolInv
<1>5. \A b \in Blocks : Region(live, b) = {}
  BY RegionStart DEF LoopInit, Init, PoolInit
<1>6. TableInv
  BY <1>1, <1>3, <1>5 DEF TableInv, Describes
<1>7. CallInv
  BY DEF LoopInit, Init, CallInv
<1>8. QED  BY <1>2, <1>4, <1>6, <1>7 DEF LoopsIInv

LEMMA CallMallocSound ==
  ASSUME LoopsIInv, NEW s \in Sizes, CallMalloc(s)
  PROVE  [Atomic!Next]_(Atomic!vars) /\ LoopsIInv'
<1>1. pc = "idle" /\ TableAtCall = memmap /\ memmap \in [Blocks -> Nat]
  BY TableIsMap DEF LoopsIInv, LoopInv, LoopTypeOK, TypeOK, CallMalloc
<1>2. memmap' = memmap /\ memrdy' = 1 /\ wasrdy' = memrdy /\ live' = live
  BY <1>1, NothingToClear DEF CallMalloc, EnsureReady
<1>3. s \in Nat
  BY PoolAssumption
<1>4. CASE s = 0
  <2>1. pc' = "idle" /\ Frame(0, 0, 0, 0, 0) /\ req' = 0 /\ ret' = NULL
    BY <1>4 DEF CallMalloc, Return
  <2>2. TableAtCall' = memmap
    BY <1>1, <1>2, <2>1 DEF TableAtCall
  <2>3. Atomic!mymalloc(s)
    BY <1>1, <1>2, <1>4, <2>1, <2>2, NothingToClear, Words, TableWords DEF Atomic!mymalloc
  <2>4. LoopInv'
    BY <1>2, <2>1, PoolAssumption
       DEF LoopsIInv, LoopInv, LoopTypeOK, TypeOK, PoolTypeOK, ScanInv, LoopsInBounds, Frame, NULL
  <2>5. CallInv'
    BY <1>2, <2>1 DEF CallInv
  <2>6. TableInv'
    BY <1>1, <1>2, <2>1, <2>2, <2>4
       DEF LoopsIInv, TableInv, PoolInv, HeldDisjoint, Held, LoopInv, LoopTypeOK, TypeOK
  <2>7. QED  BY <2>3, <2>4, <2>5, <2>6 DEF Atomic!Next, LoopsIInv
<1>5. CASE s # 0
  <2>1. /\ pc' = "scan" /\ size' = s /\ nmemb' = BlocksFor(s)
        /\ offset' = MEM1_ALLOC_TABLE_SIZE - 1 /\ cmemb' = 0 /\ i' = 0
        /\ UNCHANGED <<req, ret>>
    BY <1>5 DEF CallMalloc, Frame, Return
  <2>2. TableAtCall' = memmap
    BY <1>1, <1>2, <2>1 DEF TableAtCall
  <2>3. UNCHANGED Atomic!vars
    BY <1>1, <1>2, <2>1, <2>2 DEF Atomic!vars
  <2>4. BlocksFor(s) \in Nat \ {0}
    BY <1>3, <1>5, BlocksForCovers
  <2>5. LoopTypeOK'
    BY <1>2, <1>3, <2>1, <2>4, PoolAssumption
       DEF LoopsIInv, LoopInv, LoopTypeOK, TypeOK, PoolTypeOK
  <2>6. \A b \in Gaps(memmap', nmemb') : b <= offset'
    BY <2>1, PoolAssumption DEF Gaps, Blocks
  <2>7. ScanInv'
    BY <2>1, <2>4, <2>6, PoolAssumption DEF ScanInv, Run, Blocks
  <2>8. LoopsInBounds' /\ CallInv'
    BY <1>2, <1>5, <2>1 DEF LoopsInBounds, CallInv
  <2>9. TableInv'
    BY <1>1, <1>2, <2>1, <2>2 DEF LoopsIInv, TableInv, PoolInv, PoolTypeOK, HeldDisjoint, Held
  <2>10. QED  BY <2>3, <2>5, <2>7, <2>8, <2>9 DEF LoopInv, LoopsIInv
<1>6. QED  BY <1>4, <1>5

\* The marking loop starts at the highest gap; the scan leaves none behind.
LEMMA ScanSound ==
  ASSUME LoopsIInv, Scan
  PROVE  [Atomic!Next]_(Atomic!vars) /\ LoopsIInv'
<1> DEFINE count == IF memmap[offset] = 0 THEN cmemb + 1 ELSE 0
<1>1. /\ LoopTypeOK /\ pc = "scan" /\ offset \in Blocks /\ ScanInv
      /\ TableAtCall = memmap /\ size \in Sizes \ {0} /\ nmemb = BlocksFor(size)
      /\ memrdy # 0
  BY TableIsMap DEF LoopsIInv, LoopInv, LoopTypeOK, TypeOK, CallInv, Scan, Blocks
<1>2. /\ UNCHANGED <<memmap, memrdy, live, req, ret, wasrdy, size, nmemb>>
      /\ cmemb' = count /\ i' = 0
      /\ count = nmemb => pc' = "mark" /\ offset' = offset
      /\ count # nmemb => pc' = "scan" /\ offset' = offset - 1
  BY DEF Scan, Frame
<1>3. /\ memmap \in [Blocks -> Nat] /\ nmemb \in Nat \ {0} /\ cmemb \in Nat
      /\ count \in Nat /\ offset \in Nat
  <2>1. size \in Nat \ {0} /\ offset \in Nat
    BY <1>1, PoolAssumption, BlocksAreNat
  <2>2. nmemb \in Nat \ {0}
    BY <1>1, <2>1, BlocksForCovers
  <2>3. memmap \in [Blocks -> Nat] /\ cmemb \in Nat
    BY <1>1 DEF LoopTypeOK, TypeOK
  <2>4. QED  BY <2>1, <2>2, <2>3
<1>4. LoopTypeOK'
  BY <1>1, <1>2, <1>3, PoolAssumption DEF LoopTypeOK, TypeOK, PoolTypeOK, Blocks
<1>5. /\ Run(offset, count) \subseteq Blocks
      /\ \A b \in Run(offset, count) : memmap[b] = 0
  <2>1. \A b \in Run(offset, cmemb + 1) : b = offset \/ b \in Run(offset + 1, cmemb)
    BY <1>3 DEF Run
  <2>2. CASE memmap[offset] = 0
    BY <1>1, <2>1, <2>2 DEF ScanInv
  <2>3. CASE memmap[offset] # 0
    BY <1>3, <2>3 DEF Run
  <2>4. QED  BY <2>2, <2>3
<1>6. offset + count \in Blocks => memmap[offset + count] # 0 \/ count = nmemb
  <2>1. CASE memmap[offset] = 0
    <3>1. offset + count = offset + 1 + cmemb
      BY <1>3, <2>1
    <3>2. QED  BY <1>1, <3>1 DEF ScanInv
  <2>2. CASE memmap[offset] # 0
    BY <1>3, <2>2
  <2>3. QED  BY <2>1, <2>2
<1>7. count <= nmemb
  BY <1>1, <1>3 DEF ScanInv
<1>8. TableAtCall' = memmap
  <2>1. CASE count = nmemb
    <3>1. \A b \in Blocks : TableAtCall'[b] = memmap[b]
      BY <1>2, <1>5, <2>1 DEF TableAtCall
    <3>2. QED  BY <1>3, <3>1 DEF TableAtCall
  <2>2. CASE count # nmemb
    BY <1>2, <1>3, <2>2 DEF TableAtCall
  <2>3. QED  BY <2>1, <2>2
<1>9. UNCHANGED Atomic!vars
  BY <1>1, <1>2, <1>8 DEF Atomic!vars
<1>10. \A b \in Gaps(memmap, nmemb) : b <= offset
  BY <1>1 DEF ScanInv
<1>11. TableInv'
  BY <1>1, <1>2, <1>8 DEF LoopsIInv, TableInv, PoolInv, PoolTypeOK, HeldDisjoint, Held
<1>12. CASE count = nmemb
  <2>1. offset \in Gaps(memmap, nmemb)
    BY <1>1, <1>5, <1>12, Words DEF Gaps
  <2>2. CallInv'
    BY <1>1, <1>2, <1>8, <1>10, <1>12, <2>1 DEF CallInv, IsHighestGap
  <2>3. \A b \in Run(offset, nmemb) : \A c \in Blocks : b \notin Held(c)
    <3>1. offset \in Room(nmemb)
      BY <1>1, <1>3, <2>1, GapsAreRoom DEF LoopsIInv, TableInv, PoolInv
    <3>2. QED  BY <3>1 DEF Room
  <2>4. \A c : Held(c)' = Held(c)
    BY <1>2 DEF Held
  <2>5. LoopsInBounds'
    BY <1>2, <1>3, <1>5, <1>12, <2>3, <2>4 DEF LoopsInBounds, Run
  <2>6. QED  BY <1>2, <1>4, <1>9, <1>12, <1>11, <2>2, <2>5 DEF LoopInv, ScanInv, LoopsIInv
<1>13. CASE count # nmemb
  <2>1. offset \notin Gaps(memmap, nmemb)
    <3>1. count < nmemb /\ offset + count \in Run(offset, nmemb)
      BY <1>3, <1>7, <1>13 DEF Run
    <3>2. QED  BY <1>6, <1>13, <3>1, Words DEF Gaps
  <2>2. \A b \in Gaps(memmap, nmemb) : b <= offset - 1
    BY <1>3, <1>10, <2>1, Words, BlocksAreNat DEF Gaps
  <2>3. ScanInv'
    <3>1. count < nmemb
      BY <1>3, <1>7, <1>13
    <3>2. offset' + 1 = offset
      BY <1>2, <1>3, <1>13
    <3>3. QED  BY <1>2, <1>5, <1>6, <1>13, <2>2, <3>1, <3>2 DEF ScanInv
  <2>4. LoopsInBounds' /\ CallInv'
    BY <1>1, <1>2, <1>13 DEF LoopsInBounds, CallInv
  <2>5. QED  BY <1>4, <1>9, <1>11, <2>3, <2>4 DEF LoopInv, LoopsIInv
<1>14. QED  BY <1>12, <1>13

LEMMA NoGapSound ==
  ASSUME LoopsIInv, NoGap
  PROVE  [Atomic!Next]_(Atomic!vars) /\ LoopsIInv'
<1>1. /\ pc = "scan" /\ LoopTypeOK /\ offset = -1 /\ size \in Sizes \ {0} /\ nmemb = BlocksFor(size)
      /\ memrdy = 1 /\ TableAtCall = memmap /\ memmap \in [Blocks -> Nat]
  BY TableIsMap DEF LoopsIInv, LoopInv, LoopTypeOK, TypeOK, CallInv, NoGap
<1>2. /\ UNCHANGED <<memmap, memrdy, live, wasrdy>> /\ req' = size /\ ret' = NULL
      /\ pc' = "idle" /\ Frame(0, 0, 0, 0, 0)
  BY DEF NoGap, Return
<1>3. Gaps(TableAtCall, nmemb) = {}
  <2>1. \A b \in Gaps(TableAtCall, nmemb) : b <= -1
    BY <1>1 DEF LoopsIInv, LoopInv, ScanInv
  <2>2. \A b \in Gaps(TableAtCall, nmemb) : b \in Nat
    BY Words, BlocksAreNat DEF Gaps
  <2>3. QED  BY <2>1, <2>2
<1>4. TableAtCall' = memmap
  BY <1>1, <1>2 DEF TableAtCall
<1>5. Atomic!mymalloc(size)
  BY <1>1, <1>2, <1>3, <1>4, NothingToClear, Words, TableWords DEF Atomic!mymalloc
<1>6. LoopTypeOK'
  BY <1>1, <1>2, PoolAssumption DEF LoopTypeOK, TypeOK, PoolTypeOK, Frame, NULL
<1>7. TableInv'
  BY <1>1, <1>2, <1>4, <1>6 DEF LoopsIInv, TableInv, PoolInv, HeldDisjoint, Held, LoopTypeOK, TypeOK
<1>8. QED
  BY <1>1, <1>2, <1>5, <1>6, <1>7
     DEF Atomic!Next, LoopsIInv, LoopInv, ScanInv, LoopsInBounds, CallInv

LEMMA MarkSound ==
  ASSUME LoopsIInv, Mark
  PROVE  [Atomic!Next]_(Atomic!vars) /\ LoopsIInv'
<1>1. /\ pc = "mark" /\ LoopTypeOK /\ LoopsInBounds /\ memmap \in [Blocks -> Nat]
      /\ i \in Nat /\ i < nmemb /\ nmemb \in Nat /\ offset \in Int
  BY DEF LoopsIInv, LoopInv, LoopTypeOK, TypeOK, Mark
<1>2. /\ memmap' = [memmap EXCEPT ![offset + i] = nmemb] /\ i' = i + 1
      /\ UNCHANGED <<memrdy, live, req, ret, pc, size, nmemb, offset, cmemb, wasrdy>>
  BY DEF Mark
<1>3. offset + i \in Run(offset, nmemb) /\ Run(offset, nmemb) \subseteq Blocks
  BY <1>1 DEF Run, LoopsInBounds
<1>4. \A b \in Blocks : memmap'[b] = IF b = offset + i THEN nmemb ELSE memmap[b]
  BY <1>1, <1>2, <1>3
<1>5. TableAtCall' = TableAtCall
  <2>1. \A b \in Blocks : TableAtCall'[b] = TableAtCall[b]
    BY <1>1, <1>2, <1>3, <1>4 DEF TableAtCall
  <2>2. QED  BY <2>1 DEF TableAtCall
<1>6. UNCHANGED Atomic!vars
  BY <1>1, <1>2, <1>5 DEF Atomic!vars
<1>7. LoopTypeOK'
  <2>1. memmap' = [b \in Blocks |-> IF b = offset + i THEN nmemb ELSE memmap[b]]
    BY <1>1, <1>2
  <2>2. memmap' \in [Blocks -> Nat]
    BY <1>1, <2>1
  <2>3. i' \in Nat
    BY <1>1, <1>2
  <2>4. QED  BY <1>1, <1>2, <2>2, <2>3 DEF LoopTypeOK, TypeOK, PoolTypeOK
<1>8. LoopsInBounds'
  <2>1. i' <= nmemb
    BY <1>1, <1>2
  <2>2. ASSUME NEW b \in Run(offset, nmemb)
        PROVE  memmap'[b] = IF b < offset + i' THEN nmemb ELSE 0
    <3>1. b \in Int /\ memmap[b] = IF b < offset + i THEN nmemb ELSE 0
      BY <1>1 DEF LoopsInBounds, Run
    <3>2. QED  BY <1>1, <1>2, <1>3, <1>4, <3>1
  <2>3. \A b \in Run(offset, nmemb) : \A c \in Blocks : b \notin Held(c)
    BY <1>1 DEF LoopsInBounds
  <2>4. QED  BY <1>1, <1>2, <1>3, <2>1, <2>2, <2>3 DEF LoopsInBounds, Held
<1>9. CallInv'
  BY <1>1, <1>2, <1>5 DEF LoopsIInv, CallInv
<1>10. TableInv'
  BY <1>1, <1>2, <1>5 DEF LoopsIInv, TableInv, PoolInv, PoolTypeOK, HeldDisjoint, Held
<1>11. QED
  BY <1>1, <1>2, <1>6, <1>7, <1>8, <1>9, <1>10 DEF LoopsIInv, LoopInv, ScanInv

LEMMA GrantedSound ==
  ASSUME LoopsIInv, Granted
  PROVE  [Atomic!Next]_(Atomic!vars) /\ LoopsIInv'
<1>1. /\ pc = "mark" /\ LoopTypeOK /\ LoopsInBounds /\ TableInv /\ i = nmemb
      /\ memmap \in [Blocks -> Nat] /\ live \in [Blocks -> Nat]
      /\ memrdy = 1 /\ size \in Sizes \ {0} /\ nmemb = BlocksFor(size)
      /\ IsHighestGap(TableAtCall, nmemb, offset)
  BY DEF LoopsIInv, LoopInv, LoopTypeOK, TypeOK, PoolTypeOK, CallInv, Granted
<1>2. /\ req' = size /\ ret' = offset * MEM1_BLOCK_SIZE
      /\ live' = [live EXCEPT ![offset] = size]
      /\ pc' = "idle" /\ Frame(0, 0, 0, 0, 0) /\ UNCHANGED <<memmap, memrdy, wasrdy>>
  BY DEF Granted, Return
<1>3. /\ size \in Nat \ {0} /\ nmemb \in Nat
      /\ offset \in Blocks /\ offset \in Gaps(TableAtCall, BlocksFor(size))
  BY <1>1, PoolAssumption, BlocksForCovers DEF IsHighestGap, Gaps
<1>4. memmap = Fill(TableAtCall, offset, nmemb, nmemb)
  <2>1. ASSUME NEW b \in Blocks
        PROVE  memmap[b] = Fill(TableAtCall, offset, nmemb, nmemb)[b]
    <3>1. CASE b \in Run(offset, nmemb)
      <4>1. b < offset + i
        BY <1>1, <1>3, <3>1, BlocksAreNat DEF Run
      <4>2. memmap[b] = nmemb
        BY <1>1, <3>1, <4>1 DEF LoopsInBounds
      <4>3. QED  BY <3>1, <4>2 DEF Fill
    <3>2. CASE b \notin Run(offset, nmemb)
      BY <1>1, <3>2 DEF Fill, TableAtCall
    <3>3. QED  BY <3>1, <3>2
  <2>2. QED  BY <1>1, <2>1 DEF Fill
<1>5. TableAtCall' = memmap
  BY <1>1, <1>2 DEF TableAtCall
<1>6. Atomic!mymalloc(size)
  BY <1>1, <1>2, <1>3, <1>4, <1>5, NothingToClear, Words, TableWords DEF Atomic!mymalloc
<1>7. PoolInv'
  <2>1. offset \in Room(BlocksFor(size))
    BY <1>1, <1>3, GapsAreRoom DEF TableInv, PoolInv
  <2>2. Grant(size)
    BY <1>2, <1>3, <2>1 DEF Grant
  <2>3. QED  BY <1>1, <2>2, PoolStepInv DEF PoolNext, TableInv
<1>8. TableInv'
  <2>1. Describes(memmap, [live EXCEPT ![offset] = size])
    BY <1>1, <1>3, <1>4, MarkDescribes DEF TableInv
  <2>2. QED  BY <1>1, <1>2, <1>5, <1>7, <2>1 DEF TableInv
<1>9. LoopTypeOK'
  BY <1>1, <1>2, <1>7, PoolAssumption DEF LoopTypeOK, TypeOK, PoolInv, Frame
<1>10. QED
  BY <1>1, <1>2, <1>6, <1>8, <1>9
     DEF Atomic!Next, LoopsIInv, LoopInv, ScanInv, LoopsInBounds, CallInv

LEMMA CallFreeSound ==
  ASSUME LoopsIInv, NEW off \in 0 .. MEM1_MAX_SIZE, MayFree(off), CallFree(off)
  PROVE  [Atomic!Next]_(Atomic!vars) /\ LoopsIInv'
<1> DEFINE index == off \div MEM1_BLOCK_SIZE
<1>1. /\ pc = "idle" /\ LoopTypeOK /\ TableInv /\ TableAtCall = memmap
      /\ memmap \in [Blocks -> Nat] /\ memrdy \in {0, 1}
  BY TableIsMap DEF LoopsIInv, LoopInv, LoopTypeOK, TypeOK, CallFree
<1>2. /\ memmap' = memmap /\ memrdy' = 1 /\ wasrdy' = memrdy /\ UNCHANGED <<live, req, ret>>
  BY <1>1, NothingToClear DEF CallFree, EnsureReady
<1>3. CASE memrdy = 0 \/ off >= MEM1_MAX_SIZE
  <2>1. pc' = "idle" /\ Frame(0, 0, 0, 0, 0)
    BY <1>1, <1>3, PoolAssumption DEF CallFree, Return, MEM1_MAX_SIZE
  <2>2. TableAtCall' = memmap
    BY <1>1, <1>2, <2>1 DEF TableAtCall
  <2>3. Atomic!myfree(off)
    BY <1>1, <1>2, <1>3, <2>1, <2>2, NothingToClear, Words DEF Atomic!myfree
  <2>4. LoopTypeOK'
    BY <1>1, <1>2, <2>1, PoolAssumption DEF LoopTypeOK, TypeOK, PoolTypeOK, Frame
  <2>5. TableInv'
    BY <1>1, <1>2, <2>1, <2>2 DEF TableInv, PoolInv, PoolTypeOK, HeldDisjoint, Held
  <2>6. Atomic!Next
    BY <2>3, Words, TableWords DEF Atomic!Next
  <2>7. QED
    BY <1>2, <2>1, <2>4, <2>5, <2>6 DEF LoopsIInv, LoopInv, ScanInv, LoopsInBounds, CallInv
<1>4. CASE memrdy # 0 /\ off < MEM1_MAX_SIZE
  <2>1. /\ memrdy = 1 /\ pc' = "clear" /\ nmemb' = memmap[index] /\ offset' = index
        /\ size' = 0 /\ cmemb' = 0 /\ i' = 0
    BY <1>1, <1>4, PoolAssumption DEF CallFree, Frame, MEM1_MAX_SIZE
  <2>2. index \in Blocks /\ Run(index, memmap[index]) = Region(live, index)
    BY <1>1, <1>4, FreeFindsRegion DEF TableInv, PoolInv
  <2> HIDE DEF index
  <2>3. /\ Run(index, memmap[index]) \subseteq Blocks
        /\ \A b \in Run(index, memmap[index]) : memmap[b] = memmap[index]
    <3>1. \A b \in Run(index, memmap[index]) : b \in Blocks /\ memmap[b] = BlocksFor(live[index])
      BY <1>1, <2>2 DEF TableInv, Describes
    <3>2. memmap[index] \in Nat /\ index \in Nat
      BY <1>1, <2>2, BlocksAreNat
    <3>3. Run(index, memmap[index]) # {} => index \in Run(index, memmap[index])
      BY <3>2 DEF Run
    <3>4. QED  BY <3>1, <3>3
  <2>4. TableAtCall' = memmap
    <3>1. \A b \in Blocks : TableAtCall'[b] = memmap[b]
      BY <1>2, <2>1, <2>3 DEF TableAtCall
    <3>2. QED  BY <1>1, <3>1 DEF TableAtCall
  <2>5. UNCHANGED Atomic!vars
    BY <1>1, <1>2, <2>1, <2>4 DEF Atomic!vars
  <2>6. LoopTypeOK'
    BY <1>1, <1>2, <2>1, <2>2, BlocksAreNat, PoolAssumption DEF LoopTypeOK, TypeOK, PoolTypeOK, Blocks
  <2>7. LoopsInBounds'
    BY <1>1, <1>2, <2>1, <2>2, <2>3 DEF LoopsInBounds
  <2>8. MayFree(off)'
    BY <1>2 DEF MayFree, Held
  <2>9. CallInv'
    <3>1. \A b \in Run(index, memmap[index]) : ~ (b < index + 0)
      BY <1>1, <2>2, BlocksAreNat DEF Run
    <3>2. offset' = off \div MEM1_BLOCK_SIZE
      BY <2>1 DEF index
    <3>3. Region(live, index)' = Region(live, index)
      BY <1>2 DEF Region, index
    <3>4. QED
      BY <1>2, <1>4, <2>1, <2>2, <2>3, <2>4, <2>8, <3>1, <3>2, <3>3 DEF CallInv
  <2>10. TableInv'
    BY <1>1, <1>2, <2>1, <2>4 DEF TableInv, PoolInv, PoolTypeOK, HeldDisjoint, Held
  <2>11. QED
    BY <2>1, <2>5, <2>6, <2>7, <2>9, <2>10 DEF LoopsIInv, LoopInv, ScanInv
<1>5. MEM1_MAX_SIZE \in Int
  BY PoolAssumption DEF MEM1_MAX_SIZE
<1>6. QED  BY <1>1, <1>3, <1>4, <1>5

LEMMA ClearSound ==
  ASSUME LoopsIInv, Clear
  PROVE  [Atomic!Next]_(Atomic!vars) /\ LoopsIInv'
<1>1. /\ pc = "clear" /\ LoopTypeOK /\ LoopsInBounds /\ CallInv /\ memmap \in [Blocks -> Nat]
      /\ i \in Nat /\ i < nmemb /\ nmemb \in Nat /\ offset \in Int
  BY DEF LoopsIInv, LoopInv, LoopTypeOK, TypeOK, Clear
<1>2. /\ memmap' = [memmap EXCEPT ![offset + i] = 0] /\ i' = i + 1
      /\ UNCHANGED <<memrdy, live, req, ret, pc, size, nmemb, offset, cmemb, wasrdy>>
  BY DEF Clear
<1>3. offset + i \in Run(offset, nmemb) /\ Run(offset, nmemb) \subseteq Blocks
  BY <1>1 DEF Run, LoopsInBounds
<1>4. \A b \in Blocks : memmap'[b] = IF b = offset + i THEN 0 ELSE memmap[b]
  BY <1>1, <1>2, <1>3
<1>5. TableAtCall' = TableAtCall
  <2>1. \A b \in Blocks : TableAtCall'[b] = TableAtCall[b]
    BY <1>1, <1>2, <1>3, <1>4 DEF TableAtCall
  <2>2. QED  BY <2>1 DEF TableAtCall
<1>6. UNCHANGED Atomic!vars
  BY <1>1, <1>2, <1>5 DEF Atomic!vars
<1>7. LoopTypeOK'
  <2>1. memmap' = [b \in Blocks |-> IF b = offset + i THEN 0 ELSE memmap[b]]
    BY <1>1, <1>2
  <2>2. memmap' \in [Blocks -> Nat]
    BY <1>1, <2>1
  <2>3. i' \in Nat
    BY <1>1, <1>2
  <2>4. QED  BY <1>1, <1>2, <2>2, <2>3 DEF LoopTypeOK, TypeOK, PoolTypeOK
<1>8. LoopsInBounds'
  <2>1. i' <= nmemb
    BY <1>1, <1>2
  <2>2. QED  BY <1>1, <1>2, <1>3, <2>1 DEF LoopsInBounds
<1>9. CallInv'
  <2>1. ASSUME NEW b \in Run(offset, nmemb)
        PROVE  memmap'[b] = IF b < offset + i' THEN 0 ELSE nmemb
    <3>1. b \in Int /\ memmap[b] = IF b < offset + i THEN 0 ELSE nmemb
      BY <1>1 DEF CallInv, Run
    <3>2. QED  BY <1>1, <1>2, <1>3, <1>4, <3>1
  <2>2. \A off : MayFree(off)' <=> MayFree(off)
    BY <1>2 DEF MayFree, Held
  <2>3. Region(live, offset)' = Region(live, offset)
    BY <1>2 DEF Region
  <2>4. QED  BY <1>1, <1>2, <1>5, <2>1, <2>2, <2>3 DEF CallInv
<1>10. TableInv'
  BY <1>1, <1>2, <1>5 DEF LoopsIInv, TableInv, PoolInv, PoolTypeOK, HeldDisjoint, Held
<1>11. QED
  BY <1>1, <1>2, <1>6, <1>7, <1>8, <1>9, <1>10 DEF LoopsIInv, LoopInv, ScanInv

LEMMA FreedSound ==
  ASSUME LoopsIInv, Freed
  PROVE  [Atomic!Next]_(Atomic!vars) /\ LoopsIInv'
<1>1. /\ pc = "clear" /\ LoopTypeOK /\ TableInv /\ i = nmemb /\ nmemb \in Nat
      /\ memmap \in [Blocks -> Nat] /\ live \in [Blocks -> Nat]
      /\ memrdy = 1 /\ wasrdy = 1 /\ CallInv
      /\ offset \in Blocks /\ nmemb = TableAtCall[offset]
      /\ Run(offset, nmemb) = Region(live, offset)
  BY DEF LoopsIInv, LoopInv, LoopTypeOK, TypeOK, PoolTypeOK, CallInv, Freed
<1>2. /\ live' = [live EXCEPT ![offset] = 0]
      /\ pc' = "idle" /\ Frame(0, 0, 0, 0, 0)
      /\ UNCHANGED <<memmap, memrdy, req, ret, wasrdy>>
  BY DEF Freed, Return
<1>3. memmap = Fill(TableAtCall, offset, nmemb, 0)
  <2>1. ASSUME NEW b \in Blocks
        PROVE  memmap[b] = Fill(TableAtCall, offset, nmemb, 0)[b]
    <3>1. CASE b \in Run(offset, nmemb)
      <4>1. b < offset + i
        BY <1>1, <3>1, BlocksAreNat DEF Run
      <4>2. memmap[b] = 0
        BY <1>1, <3>1, <4>1 DEF CallInv
      <4>3. QED  BY <3>1, <4>2 DEF Fill
    <3>2. CASE b \notin Run(offset, nmemb)
      BY <1>1, <3>2 DEF Fill, TableAtCall
    <3>3. QED  BY <3>1, <3>2
  <2>2. QED  BY <1>1, <2>1 DEF Fill
<1>4. TableAtCall' = memmap
  BY <1>1, <1>2 DEF TableAtCall
<1>5. PICK off \in 0 .. MEM1_MAX_SIZE :
        MayFree(off) /\ off < MEM1_MAX_SIZE /\ offset = off \div MEM1_BLOCK_SIZE
  BY <1>1 DEF CallInv
<1>6. Atomic!myfree(off)
  BY <1>1, <1>2, <1>3, <1>4, <1>5, Words, TableWords DEF Atomic!myfree
<1>7. PoolInv'
  <2>1. Release(offset)
    BY <1>2 DEF Release
  <2>2. QED  BY <1>1, <2>1, PoolStepInv DEF PoolNext, TableInv
<1>8. TableInv'
  <2>1. \A c \in Blocks \ {offset} : Region(live, offset) \cap Region(live, c) = {}
    BY <1>1 DEF TableInv, PoolInv, HeldDisjoint, Held, Region
  <2>2. Describes(memmap, [live EXCEPT ![offset] = 0])
    BY <1>1, <1>3, <2>1, ClearDescribes DEF TableInv
  <2>3. QED  BY <1>1, <1>2, <1>4, <1>7, <2>2 DEF TableInv
<1>9. LoopTypeOK'
  BY <1>1, <1>2, <1>7, PoolAssumption DEF LoopTypeOK, TypeOK, PoolInv, Frame
<1>10. Atomic!Next
  BY <1>5, <1>6, Words, TableWords DEF Atomic!Next
<1>11. QED
  BY <1>1, <1>2, <1>8, <1>9, <1>10 DEF LoopsIInv, LoopInv, ScanInv, LoopsInBounds, CallInv

\* Every iteration of a loop keeps the invariant and is a step of Malloc, or none.
LEMMA StepSound == LoopsIInv /\ [LoopNext]_loopVars => [Atomic!Next]_(Atomic!vars) /\ LoopsIInv'
<1> SUFFICES ASSUME LoopsIInv, [LoopNext]_loopVars PROVE [Atomic!Next]_(Atomic!vars) /\ LoopsIInv'
  OBVIOUS
<1>1. CASE Continue
  BY <1>1, ScanSound, NoGapSound, MarkSound, GrantedSound, ClearSound, FreedSound
     DEF Continue
<1>2. CASE \E s \in Sizes : CallMalloc(s)
  BY <1>2, CallMallocSound
<1>3. CASE \E off \in 0 .. MEM1_MAX_SIZE : MayFree(off) /\ CallFree(off)
  BY <1>3, CallFreeSound
<1>4. CASE UNCHANGED loopVars
  <2>1. UNCHANGED <<memmap, memrdy, live, req, ret, pc, size, nmemb, offset, cmemb, i, wasrdy>>
    BY <1>4 DEF loopVars, vars, locals
  <2>2. TableAtCall' = TableAtCall
    BY <2>1 DEF TableAtCall
  <2>3. UNCHANGED Atomic!vars
    BY <2>1, <2>2 DEF Atomic!vars
  <2>4. LoopInv'
    BY <2>1 DEF LoopsIInv, LoopInv, LoopTypeOK, TypeOK, PoolTypeOK, ScanInv, LoopsInBounds, Held
  <2>5. \A off : MayFree(off)' <=> MayFree(off)
    BY <2>1 DEF MayFree, Held
  <2>6. Region(live, offset)' = Region(live, offset)
    BY <2>1 DEF Region
  <2>7. CallInv'
    BY <2>1, <2>2, <2>5, <2>6 DEF LoopsIInv, CallInv
  <2>8. TableInv'
    BY <2>1, <2>2 DEF LoopsIInv, TableInv, PoolInv, PoolTypeOK, HeldDisjoint, Held
  <2>9. QED  BY <2>3, <2>4, <2>7, <2>8 DEF LoopsIInv
<1>5. QED  BY <1>1, <1>2, <1>3, <1>4 DEF LoopNext

-----------------------------------------------------------------------------

\* Between any two iterations of the loops of my_mem_malloc and my_mem_free their
\* invariants hold: the scan has passed no gap that is long enough, and nothing outside
\* the region that is marked or cleared is written.
THEOREM LoopsAreSound == LoopSpec => []LoopInv
<1>1. LoopSpec => []LoopsIInv
  BY InitSound, StepSound, PTL DEF LoopSpec
<1>2. LoopsIInv => LoopInv
  BY DEF LoopsIInv
<1>3. QED  BY <1>1, <1>2, PTL

\* Iteration by iteration, mymalloc and myfree do what Malloc does in one step.
THEOREM LoopsImplementMalloc == LoopSpec => ImplementsMalloc
<1>1. LoopSpec => []LoopsIInv
  BY InitSound, StepSound, PTL DEF LoopSpec
<1>2. QED
  BY <1>1, InitSound, StepSound, PTL DEF LoopSpec, ImplementsMalloc, Atomic!Spec

-----------------------------------------------------------------------------

\* From here on: lwip_comm_init and other code as the callers of the manager.

\* The regions somebody points to: the buffers requested so far, and app.
Pointed == {buf[n] : n \in Requested} \cup {app}

\* A region of this size starts where the pointer points (regions: live).
Holds(regions, ptr, sz) ==
  \E b \in Blocks : ptr = b * MEM1_BLOCK_SIZE /\ regions[b] = sz

\* BuffersAreHeld, with the pointers at the starts of blocks: pointers that differ
\* then are in different blocks.
PointersInv ==
  /\ \A n \in Requested : buf[n] # NULL =>
       /\ Holds(live, buf[n], BufferSize[n])
       /\ buf[n] # app
       /\ \A m \in Requested \ {n} : buf[m] # buf[n]
  /\ app # NULL => \E sz \in AppSizes : Holds(live, app, sz)

\* Where lwip_comm_init is.
StageInv ==
  /\ stage = "alloc" => next \in Buffers
  /\ stage # "idle" => calls > 0

\* The regions without a pointer, those of buffers a new call has not yet replaced
\* among them.
Astray == {b \in Blocks : live[b] # 0 /\ b * MEM1_BLOCK_SIZE \notin Pointed}

LossInv == Cardinality(Astray) <= Len(BufferSize) * (IF calls > 0 THEN calls - 1 ELSE 0)

CommIInv == CommTypeOK /\ PointersInv /\ StageInv /\ LossInv

LEMMA CommConstants ==
  /\ MEM1_BLOCK_SIZE \in Nat \ {0} /\ Blocks \subseteq Nat /\ NULL = -1
  /\ Len(BufferSize) \in Nat \ {0} /\ Buffers = 1 .. Len(BufferSize)
  /\ \A n \in Buffers : BufferSize[n] \in Sizes \ {0}
  /\ AppSizes \subseteq Sizes \ {0} /\ Sizes \subseteq Nat
  /\ MaxCalls \in Nat
  /\ IsFiniteSet(Blocks) /\ IsFiniteSet(Buffers) /\ Cardinality(Buffers) = Len(BufferSize)
<1>1. Len(BufferSize) \in Nat \ {0} /\ \A n \in Buffers : BufferSize[n] \in Sizes \ {0}
  BY LwipCommAssumption DEF Buffers
<1>2. IsFiniteSet(Blocks)
  BY PoolAssumption, FS_Interval DEF Blocks
<1>3. IsFiniteSet(Buffers) /\ Cardinality(Buffers) = Len(BufferSize)
  BY <1>1, FS_Interval DEF Buffers
<1>4. QED
  BY <1>1, <1>2, <1>3, BlocksAreNat, PoolAssumption, LwipCommAssumption DEF Buffers, NULL

\* The offset of a block is a pointer, tells which block it is, and is not NULL.
LEMMA OffsetOf ==
  ASSUME NEW b \in Blocks
  PROVE  /\ b * MEM1_BLOCK_SIZE \in Nat /\ b * MEM1_BLOCK_SIZE # NULL
         /\ BlockOf(b * MEM1_BLOCK_SIZE) = b
<1>1. b \in Nat /\ MEM1_BLOCK_SIZE \in Nat \ {0}
  BY CommConstants
<1>2. (b * MEM1_BLOCK_SIZE) \div MEM1_BLOCK_SIZE = b
  BY <1>1
<1>3. b * MEM1_BLOCK_SIZE \in Nat
  BY <1>1
<1>4. QED  BY <1>2, <1>3 DEF BlockOf, NULL

\* mymalloc answers NULL, or the start of a region nobody held.
LEMMA MallocAnswers ==
  ASSUME MallocInv, NEW sz \in Sizes, mymalloc(sz)
  PROVE  \/ ret' = NULL /\ live' = live
         \/ \E b \in Blocks : /\ live[b] = 0 /\ ret' = b * MEM1_BLOCK_SIZE
                              /\ live' = [live EXCEPT ![b] = sz]
<1>1. Grant(sz) \/ Refuse(sz)
  <2>1. BlocksFor(sz) \in Nat
    BY BlocksForCovers, PoolAssumption
  <2>2. Gaps(my_mem_init, BlocksFor(sz)) = Room(BlocksFor(sz))
    BY <2>1, GapsAreRoom, InitIsHarmless DEF MallocInv, TypeOK, TableMatchesHeld
  <2>3. QED
    BY <2>2 DEF mymalloc, IsHighestGap, Grant, Refuse
<1>2. ASSUME sz # 0, NEW b \in Room(BlocksFor(sz)) PROVE live[b] = 0
  <2>1. BlocksFor(sz) \in Nat /\ BlocksFor(sz) # 0 /\ b \in Nat /\ b \in Blocks
    BY <1>2, BlocksForCovers, BlocksAreNat, PoolAssumption DEF Room
  <2>2. b \in Run(b, BlocksFor(sz))
    BY <2>1 DEF Run
  <2>3. b \notin Held(b)
    BY <2>1, <2>2 DEF Room
  <2>4. live[b] # 0 => b \in Held(b)
    BY <2>1, RegionStart DEF MallocInv, TypeOK, PoolTypeOK, Held, Region
  <2>5. QED  BY <2>3, <2>4
<1>3. CASE Grant(sz)
  <2>1. PICK b \in Room(BlocksFor(sz)) :
          live' = [live EXCEPT ![b] = sz] /\ ret' = b * MEM1_BLOCK_SIZE
    BY <1>3 DEF Grant
  <2>2. b \in Blocks /\ live[b] = 0
    BY <1>2, <1>3, <2>1 DEF Grant, Room
  <2>3. QED  BY <2>1, <2>2
<1>4. QED  BY <1>1, <1>3 DEF Refuse

\* What mymalloc does to the regions pointed to: it keeps them, and its answer is
\* none of them.
LEMMA MallocKeepsPointers ==
  ASSUME MallocInv, NEW sz \in Sizes, mymalloc(sz)
  PROVE  /\ \A ptr : \A s \in Nat \ {0} :
              Holds(live, ptr, s) => Holds(live', ptr, s) /\ ret' # ptr
         /\ ret' # NULL => Holds(live', ret', sz)
         /\ \A b \in Blocks : live'[b] # 0 => live[b] # 0 \/ ret' = b * MEM1_BLOCK_SIZE
<1>1. live \in [Blocks -> Nat]
  BY DEF MallocInv, TypeOK, PoolTypeOK
<1>2. CASE ret' = NULL /\ live' = live
  BY <1>2, OffsetOf DEF Holds
<1>3. ASSUME NEW c \in Blocks, live[c] = 0, ret' = c * MEM1_BLOCK_SIZE,
             live' = [live EXCEPT ![c] = sz]
      PROVE  /\ \A ptr : \A s \in Nat \ {0} :
                  Holds(live, ptr, s) => Holds(live', ptr, s) /\ ret' # ptr
             /\ ret' # NULL => Holds(live', ret', sz)
             /\ \A b \in Blocks : live'[b] # 0 => live[b] # 0 \/ ret' = b * MEM1_BLOCK_SIZE
  <2>1. ASSUME NEW ptr, NEW s \in Nat \ {0}, NEW b \in Blocks,
               ptr = b * MEM1_BLOCK_SIZE, live[b] = s
        PROVE  live'[b] = s /\ ret' # ptr
    <3>1. b # c
      BY <1>3, <2>1
    <3>2. BlockOf(b * MEM1_BLOCK_SIZE) = b /\ BlockOf(c * MEM1_BLOCK_SIZE) = c
      BY OffsetOf
    <3>3. QED  BY <1>1, <1>3, <2>1, <3>1, <3>2
  <2>2. live'[c] = sz
    BY <1>1, <1>3
  <2>3. \A b \in Blocks : b # c => live'[b] = live[b]
    BY <1>1, <1>3
  <2>4. QED  BY <1>3, <2>1, <2>2, <2>3 DEF Holds
<1>4. QED  BY <1>2, <1>3, MallocAnswers

\* myfree of a region that is held gives back that region.
LEMMA FreeGivesBack ==
  ASSUME MallocInv, NEW b \in Blocks, live[b] # 0, myfree(b * MEM1_BLOCK_SIZE)
  PROVE  /\ live' = [live EXCEPT ![b] = 0]
         /\ b * MEM1_BLOCK_SIZE \in 0 .. MEM1_MAX_SIZE
         /\ MayFree(b * MEM1_BLOCK_SIZE)
<1> DEFINE off == b * MEM1_BLOCK_SIZE
<1>1. memrdy = 1
  BY DEF MallocInv, TypeOK, NotReadyIsEmpty
<1>2. off \in Nat /\ off \div MEM1_BLOCK_SIZE = b
  BY OffsetOf DEF BlockOf
<1>3. off < MEM1_MAX_SIZE /\ MEM1_MAX_SIZE \in Nat
  <2>1. b \in Nat /\ b + 1 <= MEM1_ALLOC_TABLE_SIZE /\ MEM1_ALLOC_TABLE_SIZE \in Nat
        /\ MEM1_BLOCK_SIZE \in Nat \ {0}
    BY PoolAssumption DEF Blocks
  <2>2. (b + 1) * MEM1_BLOCK_SIZE <= MEM1_MAX_SIZE
    BY <2>1, BytesMonotone DEF MEM1_MAX_SIZE
  <2>3. (b + 1) * MEM1_BLOCK_SIZE = off + MEM1_BLOCK_SIZE
    BY <2>1
  <2>4. MEM1_MAX_SIZE \in Nat
    BY <2>1 DEF MEM1_MAX_SIZE
  <2> HIDE DEF off
  <2>5. QED  BY <1>2, <2>1, <2>2, <2>3, <2>4
<1> HIDE DEF off
<1>4. live' = [live EXCEPT ![b] = 0]
  BY <1>1, <1>2, <1>3 DEF myfree, off
<1>5. QED  BY <1>2, <1>3, <1>4 DEF MayFree, off

-----------------------------------------------------------------------------

\* The buffer asked for now is one of those requested afterwards.
LEMMA AllocRequests ==
  ASSUME CommIInv, AllocBuffer
  PROVE  /\ Requested = 1 .. (next - 1) /\ Requested' = 1 .. next
         /\ Requested' \subseteq Buffers /\ next \in Nat \ {0}
<1>a. /\ stage = "alloc" /\ next \in Buffers /\ calls > 0 /\ calls' = calls
      /\ next' = next + 1
      /\ stage' = IF next = Len(BufferSize) THEN "phy" ELSE "alloc"
  BY DEF CommIInv, CommTypeOK, StageInv, AllocBuffer
<1>1. Requested = 1 .. (next - 1) /\ next \in Nat \ {0}
  BY <1>a, CommConstants DEF Requested
<1>2. CASE next = Len(BufferSize)
  <2>1. stage' = "phy" /\ Buffers = 1 .. next
    BY <1>a, <1>2, CommConstants
  <2>2. Requested' = {n \in Buffers : TRUE}
    BY <1>a, <2>1 DEF Requested
  <2>3. QED  BY <1>1, <2>1, <2>2
<1>3. CASE next # Len(BufferSize)
  <2>1. stage' = "alloc" /\ next' - 1 = next /\ 1 .. next \subseteq Buffers
    BY <1>a, <1>3, CommConstants
  <2>2. Requested' = 1 .. (next' - 1)
    BY <2>1 DEF Requested
  <2>3. QED  BY <1>1, <2>1, <2>2
<1>4. QED  BY <1>2, <1>3

\* No call counted and nothing more astray: the bound stands.
LEMMA LossStays ==
  ASSUME LossInv, calls \in Nat, calls' = calls, Astray' \subseteq Astray
  PROVE  LossInv'
<1>1. IsFiniteSet(Astray)
  BY CommConstants, FS_Subset DEF Astray
<1>2. IsFiniteSet(Astray') /\ Cardinality(Astray') <= Cardinality(Astray)
  BY <1>1, FS_Subset
<1>3. Cardinality(Astray) \in Nat /\ Cardinality(Astray') \in Nat
  BY <1>1, <1>2, FS_CardinalityType
<1> DEFINE bound == Len(BufferSize) * (IF calls > 0 THEN calls - 1 ELSE 0)
<1>4. bound' = bound /\ Cardinality(Astray) <= bound
  BY DEF LossInv
<1>5. bound \in Int
  BY CommConstants
<1> HIDE DEF bound
<1>6. Cardinality(Astray') <= bound
  BY <1>2, <1>3, <1>4, <1>5
<1>7. QED  BY <1>4, <1>6 DEF LossInv, bound

\* The buffer is held and nobody else's.
LEMMA AllocPointers == CommIInv /\ AllocBuffer => PointersInv' /\ StageInv'
<1> SUFFICES ASSUME CommIInv, AllocBuffer PROVE PointersInv' /\ StageInv'
  OBVIOUS
<1>1. /\ stage = "alloc" /\ next \in Buffers /\ calls > 0 /\ calls' = calls /\ app' = app
      /\ buf \in [Buffers -> Nat \cup {NULL}]
      /\ buf' = [buf EXCEPT ![next] = ret']
      /\ next' = next + 1
      /\ stage' = IF next = Len(BufferSize) THEN "phy" ELSE "alloc"
  BY DEF CommIInv, CommTypeOK, StageInv, AllocBuffer
<1>2. BufferSize[next] \in Sizes /\ BufferSize[next] \in Nat \ {0}
  BY <1>1, CommConstants
<1>3. /\ Requested = 1 .. (next - 1) /\ Requested' = 1 .. next
      /\ Requested' \subseteq Buffers /\ next \in Nat \ {0}
  BY AllocRequests
<1>4. mymalloc(BufferSize[next]) /\ MallocInv
  BY DEF AllocBuffer, CommIInv, CommTypeOK
<1>5. /\ \A ptr : \A s \in Nat \ {0} : Holds(live, ptr, s) => Holds(live', ptr, s) /\ ret' # ptr
      /\ ret' # NULL => Holds(live', ret', BufferSize[next])
  BY <1>2, <1>4, MallocKeepsPointers
<1>6. \A n \in Requested : buf'[n] = buf[n] /\ n \in Requested' /\ n # next
  BY <1>1, <1>3
<1>7. buf'[next] = ret'
  BY <1>1
<1>8. \A n \in Requested : buf[n] # NULL => Holds(live', buf[n], BufferSize[n]) /\ ret' # buf[n]
  <2>1. \A n \in Requested : BufferSize[n] \in Nat \ {0}
    BY <1>3, <1>6, CommConstants
  <2>2. QED  BY <1>5, <2>1 DEF CommIInv, PointersInv
<1>9. app # NULL => ret' # app /\ \E sz \in AppSizes : Holds(live', app, sz)
  BY <1>5, CommConstants DEF CommIInv, PointersInv
<1>10. ASSUME NEW n \in Requested', buf'[n] # NULL
       PROVE  /\ Holds(live', buf'[n], BufferSize[n])
              /\ buf'[n] # app'
              /\ \A m \in Requested' \ {n} : buf'[m] # buf'[n]
  <2>1. CASE n = next
    BY <1>1, <1>3, <1>5, <1>6, <1>7, <1>8, <1>9, <1>10, <2>1
  <2>2. CASE n # next
    <3>1. n \in Requested /\ buf'[n] = buf[n] /\ buf[n] # NULL
      BY <1>3, <1>6, <1>10, <2>2
    <3>2. Holds(live', buf[n], BufferSize[n])
      BY <1>8, <3>1
    <3>3. \A m \in Requested' \ {n} : m = next \/ m \in Requested \ {n}
      BY <1>3
    <3>4. QED
      BY <1>1, <1>6, <1>7, <1>8, <3>1, <3>2, <3>3 DEF CommIInv, PointersInv, Holds
  <2>3. QED  BY <2>1, <2>2
<1>11. PointersInv'
  BY <1>1, <1>9, <1>10 DEF PointersInv, Holds
<1>12. StageInv'
  BY <1>1, CommConstants DEF StageInv
<1>13. QED  BY <1>11, <1>12

\* Nothing new is astray when the answer is kept where the code keeps it.
LEMMA AllocLoss == CommIInv /\ AllocBuffer => LossInv'
<1> SUFFICES ASSUME CommIInv, AllocBuffer PROVE LossInv'
  OBVIOUS
<1>1. /\ stage = "alloc" /\ next \in Buffers /\ calls' = calls /\ calls \in Nat /\ app' = app
      /\ buf \in [Buffers -> Nat \cup {NULL}] /\ buf' = [buf EXCEPT ![next] = ret']
      /\ BufferSize[next] \in Sizes /\ mymalloc(BufferSize[next]) /\ MallocInv
  BY CommConstants DEF CommIInv, CommTypeOK, StageInv, AllocBuffer
<1>2. Requested = 1 .. (next - 1) /\ Requested' = 1 .. next /\ next \in Nat \ {0}
  BY AllocRequests
<1>3. ret' \in Pointed' /\ Pointed \subseteq Pointed'
  <2>1. next \in Requested' /\ buf'[next] = ret'
    BY <1>1, <1>2
  <2>2. \A n \in Requested : n \in Requested' /\ buf'[n] = buf[n]
    BY <1>1, <1>2
  <2>3. QED  BY <1>1, <2>1, <2>2 DEF Pointed
<1>4. \A b \in Blocks : live'[b] # 0 => live[b] # 0 \/ ret' = b * MEM1_BLOCK_SIZE
  BY <1>1, MallocKeepsPointers
<1>5. Astray' \subseteq Astray
  BY <1>3, <1>4 DEF Astray
<1>6. QED  BY <1>1, <1>5, LossStays DEF CommIInv

\* A new call forgets the buffers of the one before it: one set of them at most.
LEMMA CallLoss == CommIInv /\ CallInit => LossInv'
<1> SUFFICES ASSUME CommIInv, CallInit PROVE LossInv'
  OBVIOUS
<1> DEFINE forgotten == {b \in Blocks : \E n \in Requested : buf[n] = b * MEM1_BLOCK_SIZE}
<1>1. /\ stage = "idle" /\ stage' = "alloc" /\ next' = 1 /\ calls' = calls + 1 /\ calls \in Nat
      /\ live' = live /\ app' = app
  BY CommConstants DEF CommIInv, CommTypeOK, CallInit, vars
<1>2. Requested' = {}
  BY <1>1 DEF Requested
<1>3. Astray' \subseteq Astray \cup forgotten
  BY <1>1, <1>2 DEF Astray, Pointed
<1>4. IsFiniteSet(Astray) /\ IsFiniteSet(forgotten) /\ IsFiniteSet(Astray \cup forgotten)
  <2>1. Astray \subseteq Blocks /\ forgotten \subseteq Blocks
    BY DEF Astray
  <2>2. QED  BY <2>1, CommConstants, FS_Subset, FS_Union
<1>5. Cardinality(forgotten) <= Len(BufferSize)
  <2> DEFINE of == [b \in forgotten |-> CHOOSE n \in Requested : buf[n] = b * MEM1_BLOCK_SIZE]
  <2>1. Requested \subseteq Buffers
    BY <1>1 DEF Requested
  <2>2. \A b \in forgotten : of[b] \in Requested /\ buf[of[b]] = b * MEM1_BLOCK_SIZE
    OBVIOUS
  <2>3. \A b, c \in forgotten : of[b] = of[c] => b = c
    BY <2>2, OffsetOf
  <2>4. of \in [forgotten -> Buffers]
    BY <2>1, <2>2
  <2> HIDE DEF of, forgotten
  <2>5. of \in Injection(forgotten, Buffers)
    BY <2>3, <2>4 DEF Injection, IsInjective
  <2>6. QED  BY <2>5, CommConstants, FS_Injection
<1>6. calls = 0 => forgotten = {}
  BY <1>1 DEF Requested
<1> HIDE DEF forgotten
<1>7. Cardinality(Astray') <= Cardinality(Astray) + Cardinality(forgotten)
  <2>1. Cardinality(Astray') <= Cardinality(Astray \cup forgotten)
    BY <1>3, <1>4, FS_Subset
  <2>2. Cardinality(Astray \cup forgotten)
          = Cardinality(Astray) + Cardinality(forgotten) - Cardinality(Astray \cap forgotten)
    BY <1>4, FS_Union
  <2>3. IsFiniteSet(Astray') /\ IsFiniteSet(Astray \cap forgotten)
    BY <1>3, <1>4, FS_Subset
  <2>4. QED
    BY <1>4, <2>1, <2>2, <2>3, FS_CardinalityType
<1>8. Cardinality(Astray) <= Len(BufferSize) * (IF calls > 0 THEN calls - 1 ELSE 0)
  BY DEF CommIInv, LossInv
<1>9. Len(BufferSize) \in Nat /\ Cardinality(Astray) \in Nat /\ Cardinality(forgotten) \in Nat
      /\ Cardinality(Astray') \in Nat
  BY <1>3, <1>4, CommConstants, FS_CardinalityType, FS_Subset
<1>10. Cardinality(Astray') <= Len(BufferSize) * calls
  <2>1. CASE calls = 0
    BY <1>6, <1>7, <1>8, <1>9, <2>1, FS_EmptySet
  <2>2. CASE calls > 0
    <3>1. Len(BufferSize) * calls = Len(BufferSize) * (calls - 1) + Len(BufferSize)
      BY <1>1, <1>9
    <3>2. Len(BufferSize) * (calls - 1) \in Int
      BY <1>1, <1>9
    <3>3. QED  BY <1>5, <1>7, <1>8, <1>9, <2>2, <3>1, <3>2
  <2>3. QED  BY <1>1, <2>1, <2>2
<1>11. QED  BY <1>1, <1>10 DEF LossInv

LEMMA AppMallocKeeps == CommIInv /\ AppMalloc => PointersInv' /\ StageInv' /\ LossInv'
<1> SUFFICES ASSUME CommIInv, AppMalloc PROVE PointersInv' /\ StageInv' /\ LossInv'
  OBVIOUS
<1>1. PICK sz \in AppSizes : mymalloc(sz)
  BY DEF AppMalloc
<1>2. /\ stage = "idle" /\ stage' = stage /\ calls' = calls /\ calls \in Nat /\ buf' = buf
      /\ app = NULL /\ app' = ret' /\ next' = next
      /\ sz \in Sizes /\ sz \in Nat \ {0} /\ MallocInv
  BY <1>1, CommConstants DEF CommIInv, CommTypeOK, AppMalloc
<1>3. Requested' = Requested /\ Requested \subseteq Buffers
  BY <1>2 DEF Requested, Buffers
<1>4. /\ \A ptr : \A s \in Nat \ {0} : Holds(live, ptr, s) => Holds(live', ptr, s) /\ ret' # ptr
      /\ ret' # NULL => Holds(live', ret', sz)
      /\ \A b \in Blocks : live'[b] # 0 => live[b] # 0 \/ ret' = b * MEM1_BLOCK_SIZE
  BY <1>1, <1>2, MallocKeepsPointers
<1>5. \A n \in Requested : BufferSize[n] \in Nat \ {0}
  BY <1>3, CommConstants
<1>6. PointersInv'
  BY <1>2, <1>3, <1>4, <1>5 DEF CommIInv, PointersInv
<1>7. Astray' \subseteq Astray
  <2>1. Pointed' = {buf[n] : n \in Requested} \cup {ret'}
    BY <1>2, <1>3 DEF Pointed
  <2>2. \A b \in Blocks : b * MEM1_BLOCK_SIZE # app
    BY <1>2, OffsetOf
  <2>3. QED  BY <1>2, <1>4, <2>1, <2>2 DEF Astray, Pointed
<1>8. LossInv'
  BY <1>2, <1>7, LossStays DEF CommIInv
<1>9. QED  BY <1>2, <1>6, <1>8 DEF StageInv

\* The pointer other code frees is that of a region it holds.
LEMMA AppHolds ==
  ASSUME CommIInv, app # NULL
  PROVE  \E b \in Blocks : app = b * MEM1_BLOCK_SIZE /\ live[b] \in AppSizes /\ live[b] # 0
  BY CommConstants DEF CommIInv, PointersInv, Holds

LEMMA AppFreeKeeps == CommIInv /\ AppFree => PointersInv' /\ StageInv' /\ LossInv'
<1> SUFFICES ASSUME CommIInv, AppFree PROVE PointersInv' /\ StageInv' /\ LossInv'
  OBVIOUS
<1>1. /\ stage' = stage /\ calls' = calls /\ calls \in Nat /\ buf' = buf /\ stage = "idle"
      /\ app # NULL /\ app' = NULL /\ next' = next /\ MallocInv /\ live \in [Blocks -> Nat]
  BY CommConstants DEF CommIInv, CommTypeOK, AppFree, MallocInv, TypeOK, PoolTypeOK
<1>2. PICK b \in Blocks : app = b * MEM1_BLOCK_SIZE /\ live[b] # 0
  BY <1>1, AppHolds
<1>3. live' = [live EXCEPT ![b] = 0]
  BY <1>1, <1>2, FreeGivesBack DEF AppFree
<1>4. Requested' = Requested /\ Requested \subseteq Buffers
  BY <1>1 DEF Requested, Buffers
<1>5. ASSUME NEW ptr, NEW s, Holds(live, ptr, s), ptr # app PROVE Holds(live', ptr, s)
  <2>1. PICK c \in Blocks : ptr = c * MEM1_BLOCK_SIZE /\ live[c] = s
    BY <1>5 DEF Holds
  <2>2. c # b /\ live'[c] = s
    BY <1>1, <1>2, <1>3, <1>5, <2>1
  <2>3. QED  BY <2>1, <2>2 DEF Holds
<1>6. PointersInv'
  BY <1>1, <1>4, <1>5 DEF CommIInv, PointersInv
<1>7. Astray' \subseteq Astray
  <2>1. ASSUME NEW c \in Blocks, live'[c] # 0
        PROVE  live[c] # 0 /\ c * MEM1_BLOCK_SIZE # app
    <3>1. c # b /\ live'[c] = live[c]
      BY <1>1, <1>3, <2>1
    <3>2. BlockOf(c * MEM1_BLOCK_SIZE) = c /\ BlockOf(b * MEM1_BLOCK_SIZE) = b
      BY OffsetOf
    <3>3. QED  BY <1>2, <2>1, <3>1, <3>2
  <2>2. Pointed \subseteq Pointed' \cup {app}
    BY <1>1, <1>4 DEF Pointed
  <2>3. QED  BY <2>1, <2>2 DEF Astray
<1>8. LossInv'
  BY <1>1, <1>7, LossStays DEF CommIInv
<1>9. QED  BY <1>1, <1>6, <1>8 DEF StageInv

\* Steps that leave the pool and the pointers alone.
LEMMA PointersStay ==
  ASSUME CommIInv, UNCHANGED <<vars, buf, app, calls>>, Requested' = Requested
  PROVE  PointersInv' /\ LossInv'
<1>1. live' = live /\ calls \in Nat
  BY DEF vars, CommIInv, CommTypeOK
<1>2. PointersInv'
  BY <1>1 DEF PointersInv, CommIInv
<1>3. Astray' = Astray
  BY <1>1 DEF Astray, Pointed
<1>4. QED  BY <1>1, <1>2, <1>3, LossStays DEF CommIInv

-----------------------------------------------------------------------------

LEMMA CommTypes == CommIInv /\ [CommNext]_allVars => CommTypeOK'
<1> SUFFICES ASSUME CommIInv, [CommNext]_allVars PROVE CommTypeOK'
  OBVIOUS
<1> USE CommConstants DEF CommIInv, CommTypeOK, StageInv
<1>1. CASE CallInit
  <2>1. MallocInv'
    BY <1>1, StepInv DEF CallInit
  <2>2. QED  BY <1>1, <2>1 DEF CallInit
<1>2. CASE AllocBuffer
  <2>1. BufferSize[next] \in Sizes /\ mymalloc(BufferSize[next])
    BY <1>2 DEF AllocBuffer
  <2>2. MallocInv'
    BY <2>1, StepInv DEF Next
  <2>3. ret' \in Nat \cup {NULL}
    BY <2>2 DEF MallocInv, TypeOK, PoolTypeOK
  <2>4. QED  BY <1>2, <2>2, <2>3 DEF AllocBuffer
<1>3. CASE PhyAnswers
  <2>1. MallocInv'
    BY <1>3, StepInv DEF PhyAnswers
  <2>2. QED  BY <1>3, <2>1 DEF PhyAnswers
<1>4. CASE PhyFails
  <2>1. MallocInv'
    BY <1>4, StepInv DEF PhyFails
  <2>2. QED  BY <1>4, <2>1 DEF PhyFails
<1>5. CASE StartCore
  <2>1. MallocInv'
    BY <1>5, StepInv DEF StartCore
  <2>2. QED  BY <1>5, <2>1 DEF StartCore
<1>6. CASE AppMalloc
  <2>1. PICK sz \in AppSizes : mymalloc(sz)
    BY <1>6 DEF AppMalloc
  <2>2. MallocInv'
    BY <2>1, StepInv DEF Next
  <2>3. ret' \in Nat \cup {NULL}
    BY <2>2 DEF MallocInv, TypeOK, PoolTypeOK
  <2>4. QED  BY <1>6, <2>2, <2>3 DEF AppMalloc
<1>7. CASE AppFree
  <2>1. MallocInv'
    <3>1. PICK b \in Blocks : app = b * MEM1_BLOCK_SIZE /\ live[b] # 0
      BY <1>7, AppHolds DEF AppFree
    <3>2. app \in 0 .. MEM1_MAX_SIZE /\ MayFree(app) /\ myfree(app)
      BY <1>7, <3>1, FreeGivesBack DEF AppFree
    <3>3. QED  BY <3>2, StepInv DEF Next
  <2>2. QED  BY <1>7, <2>1 DEF AppFree
<1>8. CASE UNCHANGED allVars
  <2>1. MallocInv'
    BY <1>8, StepInv DEF allVars
  <2>2. QED  BY <1>8, <2>1 DEF allVars, commVars
<1>9. QED
  BY <1>1, <1>2, <1>3, <1>4, <1>5, <1>6, <1>7, <1>8 DEF CommNext, lwip_comm_init

LEMMA CommInitInv == CommInit => CommIInv
<1> SUFFICES ASSUME CommInit PROVE CommIInv
  OBVIOUS
<1> USE DEF CommInit
<1>1. MallocInv
  BY InitInv
<1>2. Requested = {} /\ Astray = {}
  <2>1. \A b \in Blocks : live[b] = 0
    BY DEF Init, PoolInit
  <2>2. QED  BY <2>1 DEF Requested, Astray
<1>3. CommTypeOK /\ StageInv
  BY <1>1, CommConstants DEF CommTypeOK, StageInv
<1>4. PointersInv
  BY <1>2 DEF PointersInv
<1>5. LossInv
  BY <1>2, FS_EmptySet, CommConstants DEF LossInv
<1>6. QED  BY <1>3, <1>4, <1>5 DEF CommIInv

LEMMA CommStepInv == CommIInv /\ [CommNext]_allVars => CommIInv'
<1> SUFFICES ASSUME CommIInv, [CommNext]_allVars PROVE PointersInv' /\ StageInv' /\ LossInv'
  BY CommTypes DEF CommIInv
<1> USE DEF CommIInv, StageInv
<1>1. CASE CallInit
  <2>1. Requested' = {}
    BY <1>1 DEF CallInit, Requested
  <2>2. live' = live /\ app' = app /\ stage' = "alloc" /\ next' = 1 /\ calls' > 0
    BY <1>1, CommConstants DEF CallInit, vars, CommTypeOK
  <2>3. PointersInv'
    BY <2>1, <2>2 DEF PointersInv
  <2>4. QED  BY <1>1, <2>2, <2>3, CallLoss, CommConstants
<1>2. CASE AllocBuffer
  BY <1>2, AllocPointers, AllocLoss
<1>3. CASE PhyAnswers \/ PhyFails \/ StartCore
  <2>1. UNCHANGED <<vars, buf, app, calls>> /\ stage # "alloc" /\ stage' # "alloc" /\ calls > 0
    BY <1>3 DEF PhyAnswers, PhyFails, StartCore
  <2>2. Requested' = Requested
    BY <2>1 DEF Requested
  <2>3. QED  BY <2>1, <2>2, PointersStay
<1>4. CASE AppMalloc
  BY <1>4, AppMallocKeeps
<1>5. CASE AppFree
  BY <1>5, AppFreeKeeps
<1>6. CASE UNCHANGED allVars
  <2>1. UNCHANGED <<vars, buf, app, calls, stage, next>>
    BY <1>6 DEF allVars, commVars
  <2>2. Requested' = Requested
    BY <2>1 DEF Requested
  <2>3. QED  BY <2>1, <2>2, PointersStay
<1>7. QED  BY <1>1, <1>2, <1>3, <1>4, <1>5, <1>6 DEF CommNext, lwip_comm_init

LEMMA CommInvariant == CommSpec => []CommIInv
  BY CommInitInv, CommStepInv, PTL DEF CommSpec

\* In every call of lwip_comm_init, after any number of failed ones, the buffers the
\* drivers are given are NULL or regions of the size asked for, theirs alone.
THEOREM BuffersAreTheirs == CommSpec => []CommInv
<1>1. CommIInv => CommInv
  <2> SUFFICES ASSUME CommIInv PROVE BuffersAreHeld
    BY DEF CommInv, CommIInv
  <2>1. \A ptr, s : Holds(live, ptr, s) => live[BlockOf(ptr)] = s
    BY OffsetOf DEF Holds
  <2>2. QED  BY <2>1 DEF CommIInv, PointersInv, BuffersAreHeld
<1>2. QED  BY <1>1, CommInvariant, PTL

\* What is lost is what failed calls left behind: one set of buffers for each call
\* but the last, whatever else uses the pool meanwhile.
THEOREM OnlyFailedCallsLose == CommSpec => []LostByFailureOnly
<1>1. CommIInv => LostByFailureOnly
  <2> SUFFICES ASSUME CommIInv PROVE LostByFailureOnly
    OBVIOUS
  <2>1. Lost \subseteq Astray
    <3>1. Requested \subseteq Buffers
      BY CommConstants DEF CommIInv, StageInv, Requested
    <3>2. \A n \in Buffers : buf[n] \in Range(buf)
      BY DEF CommIInv, CommTypeOK, Range
    <3>3. QED  BY <3>1, <3>2 DEF Lost, Astray, Pointed
  <2>2. IsFiniteSet(Astray) /\ IsFiniteSet(Lost)
    BY <2>1, CommConstants, FS_Subset DEF Astray
  <2>3. /\ Cardinality(Lost) <= Cardinality(Astray)
        /\ Cardinality(Lost) \in Nat /\ Cardinality(Astray) \in Nat
    BY <2>1, <2>2, FS_Subset, FS_CardinalityType
  <2> DEFINE bound == Len(BufferSize) * (IF calls > 0 THEN calls - 1 ELSE 0)
  <2>4. calls \in Nat /\ bound \in Int /\ Cardinality(Astray) <= bound
    BY CommConstants DEF CommIInv, CommTypeOK, LossInv
  <2>5. calls <= 1 => bound = 0
    BY <2>4, CommConstants
  <2> HIDE DEF bound
  <2>6. Cardinality(Lost) <= bound
    BY <2>3, <2>4
  <2>7. calls <= 1 => Lost = {}
    BY <2>2, <2>3, <2>5, <2>6, FS_EmptySet
  <2>8. QED  BY <2>6, <2>7 DEF LostByFailureOnly, bound
<1>2. QED  BY <1>1, CommInvariant, PTL

-----------------------------------------------------------------------------

\* How a pool must be proportioned for two calls: rest[n] is what the buffers from
\* the n-th on take, spare bounds what other code holds at a time, and twice both
\* together are no more than the pool.  (The firmware's pool has 1600 blocks and its
\* buffers take 659, so that spare may be 141, which is 9 kB.)
Proportioned(rest, spare) ==
  /\ rest \in [1 .. (Len(BufferSize) + 1) -> Nat]
  /\ \A n \in Buffers : rest[n] = BlocksFor(BufferSize[n]) + rest[n + 1]
  /\ spare \in Nat /\ \A sz \in AppSizes : BlocksFor(sz) <= spare
  /\ 2 * (rest[1] + spare) <= MEM1_ALLOC_TABLE_SIZE

RoomForTwo ==
  \E rest \in [1 .. (Len(BufferSize) + 1) -> Nat], spare \in Nat : Proportioned(rest, spare)

\* How far down from the top the calls may have come: for each of them one set of
\* buffers, and one region of other code that was in the way.
Reach(rest, spare) ==
  calls * (rest[1] + spare) - (IF stage = "alloc" THEN rest[next] ELSE 0)

\* Nothing lies deeper, but for what other code has asked for since: it gives that
\* back, or the next call begins below it.
ReachInv(rest, spare) ==
  \A b \in Blocks : live[b] # 0 =>
    b >= MEM1_ALLOC_TABLE_SIZE - Reach(rest, spare)
           - (IF stage = "idle" /\ b * MEM1_BLOCK_SIZE = app THEN spare ELSE 0)

\* What TwoCallsFit says of a call that is over, of one at every step.
ServedInv == calls <= 2 => \A n \in Requested : buf[n] # NULL

ServiceInv(rest, spare) ==
  CommIInv /\ Reach(rest, spare) >= 0 /\ ReachInv(rest, spare) /\ ServedInv

\* As the highest gap is taken, a request is granted and comes to lie at most its own
\* length below what was held, if there is so much.
LEMMA MallocStaysHigh ==
  ASSUME MallocInv, NEW sz \in Sizes \ {0}, mymalloc(sz),
         NEW low \in Int, low <= MEM1_ALLOC_TABLE_SIZE,
         \A b \in Blocks : live[b] # 0 => b >= low
  PROVE  /\ low >= BlocksFor(sz) => ret' # NULL
         /\ \A b \in Blocks : live'[b] # 0 /\ live[b] = 0 =>
              b * MEM1_BLOCK_SIZE = ret' /\ b >= low - BlocksFor(sz)
<1> DEFINE n == BlocksFor(sz)
           c == low - n
<1>1. n \in Nat \ {0} /\ sz \in Nat
  BY BlocksForCovers, PoolAssumption
<1>2. /\ my_mem_init = memmap /\ memmap \in [Blocks -> Nat] /\ live \in [Blocks -> Nat]
      /\ Describes(memmap, live)
  BY InitIsHarmless DEF MallocInv, TypeOK, PoolTypeOK, TableMatchesHeld
<1> HIDE DEF n
<1>3. ASSUME c >= 0 PROVE c \in Gaps(memmap, n)
  <2>1. ASSUME NEW k \in Run(c, n) PROVE k \in Blocks /\ k < low
    BY <1>1, <1>3, <2>1, PoolAssumption DEF Run, Blocks
  <2>2. ASSUME NEW k \in Run(c, n), NEW b \in Blocks PROVE k \notin Region(live, b)
    <3>1. CASE live[b] = 0
      BY <1>2, <3>1, RegionStart
    <3>2. CASE live[b] # 0
      <4>1. b >= low /\ b \in Nat /\ k \in Nat /\ k < low
        BY <2>1, <3>2, BlocksAreNat
      <4>2. QED  BY <4>1 DEF Region, Run
    <3>3. QED  BY <3>1, <3>2
  <2>3. \A k \in Run(c, n) : k \in Blocks /\ memmap[k] = 0
    BY <1>2, <2>1, <2>2, FreeIffUnheld
  <2>4. c \in Blocks
    BY <1>1, <1>3, PoolAssumption DEF Blocks
  <2> HIDE DEF c
  <2>5. QED  BY <2>3, <2>4 DEF Gaps
<1>4. CASE /\ Gaps(memmap, n) # {}
           /\ \E b \in Blocks : /\ IsHighestGap(memmap, n, b)
                                /\ ret' = b * MEM1_BLOCK_SIZE
                                /\ live' = [live EXCEPT ![b] = sz]
  <2>1. PICK b \in Blocks : /\ IsHighestGap(memmap, n, b)
                            /\ ret' = b * MEM1_BLOCK_SIZE
                            /\ live' = [live EXCEPT ![b] = sz]
    BY <1>4
  <2>2. b \in Nat /\ b >= c
    <3>1. b \in Nat
      BY BlocksAreNat
    <3>2. c >= 0 => b >= c
      BY <1>3, <2>1 DEF IsHighestGap
    <3>3. c \in Int
      BY <1>1
    <3> HIDE DEF c
    <3>4. QED  BY <3>1, <3>2, <3>3
  <2>3. ret' # NULL
    BY <2>1, OffsetOf
  <2>4. \A d \in Blocks : live'[d] # 0 /\ live[d] = 0 => d = b
    BY <1>2, <2>1
  <2>5. QED  BY <2>1, <2>2, <2>3, <2>4 DEF n
<1>5. CASE Gaps(memmap, n) = {} /\ ret' = NULL /\ live' = live
  <2>1. low < n
    BY <1>1, <1>3, <1>5
  <2>2. QED  BY <1>1, <1>5, <2>1 DEF n
<1>6. QED
  BY <1>2, <1>4, <1>5 DEF mymalloc, n, IsHighestGap

\* The numbers a step of a call is reckoned with.
LEMMA ReachTypes ==
  ASSUME CommIInv, NEW rest, NEW spare, Proportioned(rest, spare)
  PROVE  /\ calls \in Nat /\ rest[1] + spare \in Nat /\ spare \in Nat
         /\ calls * (rest[1] + spare) \in Nat
         /\ (calls + 1) * (rest[1] + spare) = calls * (rest[1] + spare) + (rest[1] + spare)
         /\ \A n \in 1 .. (Len(BufferSize) + 1) : rest[n] \in Nat
         /\ Reach(rest, spare) \in Int
         /\ MEM1_ALLOC_TABLE_SIZE \in Nat /\ Blocks \subseteq Nat
<1>1. calls \in Nat /\ next \in 1 .. (Len(BufferSize) + 1)
  BY CommConstants DEF CommIInv, CommTypeOK
<1>2. \A n \in 1 .. (Len(BufferSize) + 1) : rest[n] \in Nat
  BY DEF Proportioned
<1>3. rest[1] \in Nat /\ spare \in Nat /\ rest[next] \in Nat
  BY <1>1, <1>2, CommConstants DEF Proportioned
<1> DEFINE set == rest[1] + spare
<1>4. set \in Nat
  BY <1>3
<1> HIDE DEF set
<1>5. calls * set \in Nat /\ (calls + 1) * set = calls * set + set
  BY <1>1, <1>4
<1>6. Reach(rest, spare) \in Int
  BY <1>3, <1>5 DEF Reach, set
<1>7. QED
  BY <1>1, <1>2, <1>3, <1>4, <1>5, <1>6, PoolAssumption, BlocksAreNat DEF set

\* A call begins below all that is held, and spare blocks deeper than it need be.
LEMMA CallService ==
  ASSUME NEW rest, NEW spare, Proportioned(rest, spare),
         ServiceInv(rest, spare), CallInit
  PROVE  Reach(rest, spare)' >= 0 /\ ReachInv(rest, spare)' /\ ServedInv'
<1>1. /\ stage = "idle" /\ stage' = "alloc" /\ next' = 1 /\ calls' = calls + 1
      /\ live' = live /\ CommIInv
  BY DEF CallInit, vars, ServiceInv
<1>2. Reach(rest, spare)' = Reach(rest, spare) + spare
  <2>1. Reach(rest, spare) = calls * (rest[1] + spare)
    BY <1>1, ReachTypes DEF Reach
  <2>2. Reach(rest, spare)' = (calls + 1) * (rest[1] + spare) - rest[1]
    BY <1>1 DEF Reach
  <2>3. rest[1] \in Nat
    BY <1>1, ReachTypes, CommConstants
  <2>4. QED  BY <1>1, <2>1, <2>2, <2>3, ReachTypes
<1>3. ASSUME NEW b \in Blocks, live[b] # 0
      PROVE  b >= MEM1_ALLOC_TABLE_SIZE - Reach(rest, spare)'
  <2>1. b >= MEM1_ALLOC_TABLE_SIZE - Reach(rest, spare)
               - (IF stage = "idle" /\ b * MEM1_BLOCK_SIZE = app THEN spare ELSE 0)
    BY <1>3 DEF ServiceInv, ReachInv
  <2>2. b \in Nat /\ Reach(rest, spare) \in Int /\ spare \in Nat
        /\ MEM1_ALLOC_TABLE_SIZE \in Nat
    BY <1>1, ReachTypes
  <2>3. QED  BY <1>2, <2>1, <2>2
<1>4. ReachInv(rest, spare)'
  <2>1. \A b \in Blocks : live'[b] # 0 => b >= MEM1_ALLOC_TABLE_SIZE - Reach(rest, spare)' - 0
    <3>1. ASSUME NEW b \in Blocks, live[b] # 0
          PROVE  b >= MEM1_ALLOC_TABLE_SIZE - Reach(rest, spare)' - 0
      <4>1. Reach(rest, spare)' \in Int /\ MEM1_ALLOC_TABLE_SIZE \in Nat /\ b \in Nat
        BY <1>1, <1>2, ReachTypes
      <4>2. QED  BY <1>3, <3>1, <4>1
    <3>2. QED  BY <1>1, <3>1
  <2>2. QED  BY <1>1, <2>1 DEF ReachInv
<1>5. ServedInv'
  BY <1>1 DEF ServedInv, Requested
<1>6. Reach(rest, spare)' >= 0
  <2>1. Reach(rest, spare) >= 0 /\ Reach(rest, spare) \in Int /\ spare \in Nat
    BY <1>1, ReachTypes DEF ServiceInv
  <2>2. QED  BY <1>2, <2>1
<1>7. QED  BY <1>4, <1>5, <1>6

\* A buffer comes to lie at most its own length below what was held, and in the first
\* two calls there is that much.
LEMMA AllocService ==
  ASSUME NEW rest, NEW spare, Proportioned(rest, spare),
         ServiceInv(rest, spare), AllocBuffer
  PROVE  Reach(rest, spare)' >= 0 /\ ReachInv(rest, spare)' /\ ServedInv'
<1> DEFINE set == rest[1] + spare
           n == BlocksFor(BufferSize[next])
           low == MEM1_ALLOC_TABLE_SIZE - Reach(rest, spare)
<1>1. /\ stage = "alloc" /\ next \in Buffers /\ calls' = calls /\ calls > 0 /\ CommIInv
      /\ next' = next + 1 /\ stage' \in {"alloc", "phy"}
      /\ stage' = IF next = Len(BufferSize) THEN "phy" ELSE "alloc"
      /\ buf \in [Buffers -> Nat \cup {NULL}] /\ buf' = [buf EXCEPT ![next] = ret']
      /\ mymalloc(BufferSize[next]) /\ MallocInv
  BY DEF AllocBuffer, ServiceInv, CommIInv, CommTypeOK, StageInv
<1>2. BufferSize[next] \in Sizes \ {0} /\ BufferSize[next] \in Nat /\ n \in Nat
  BY <1>1, CommConstants, BlocksForCovers
<1>3. /\ calls * set \in Nat /\ calls \in Nat /\ set \in Nat /\ low \in Int
      /\ MEM1_ALLOC_TABLE_SIZE \in Nat /\ Blocks \subseteq Nat
  BY <1>1, ReachTypes
<1>4. next \in 1 .. (Len(BufferSize) + 1) /\ next + 1 \in 1 .. (Len(BufferSize) + 1)
  BY <1>1, CommConstants
<1>5. rest[next] = n + rest[next + 1] /\ rest[next] \in Nat /\ rest[next + 1] \in Nat
  BY <1>1, <1>4, ReachTypes DEF Proportioned
<1>6. 2 * set <= MEM1_ALLOC_TABLE_SIZE
  BY DEF Proportioned
<1>7. Reach(rest, spare) = calls * set - rest[next]
  BY <1>1 DEF Reach
<1>8. Reach(rest, spare)' = calls * set - (IF stage' = "alloc" THEN rest[next + 1] ELSE 0)
  BY <1>1 DEF Reach
<1>9. Reach(rest, spare) >= 0 /\ Reach(rest, spare) \in Int
  BY <1>1, ReachTypes DEF ServiceInv
<1>10. Reach(rest, spare)' >= Reach(rest, spare) + n
  <2> HIDE DEF set, n
  <2>1. CASE stage' = "alloc"
    BY <1>2, <1>3, <1>5, <1>7, <1>8, <2>1
  <2>2. CASE stage' = "phy"
    BY <1>2, <1>3, <1>5, <1>7, <1>8, <2>2
  <2>3. QED  BY <1>1, <2>1, <2>2
<1>11. Reach(rest, spare)' \in Int
  <2> HIDE DEF set
  <2>1. CASE stage' = "alloc"
    BY <1>3, <1>5, <1>8, <2>1
  <2>2. CASE stage' = "phy"
    BY <1>3, <1>8, <2>2
  <2>3. QED  BY <1>1, <2>1, <2>2
<1>12. low <= MEM1_ALLOC_TABLE_SIZE /\ \A b \in Blocks : live[b] # 0 => b >= low
  <2>1. low <= MEM1_ALLOC_TABLE_SIZE
    BY <1>3, <1>9
  <2>2. ASSUME NEW b \in Blocks, live[b] # 0 PROVE b >= low
    <3>1. b >= low - 0
      BY <1>1, <2>2 DEF ServiceInv, ReachInv
    <3> HIDE DEF low
    <3>2. QED  BY <1>3, <3>1
  <2>3. QED  BY <2>1, <2>2
<1>13. /\ low >= n => ret' # NULL
       /\ \A b \in Blocks : live'[b] # 0 /\ live[b] = 0 =>
            b * MEM1_BLOCK_SIZE = ret' /\ b >= low - n
  <2> HIDE DEF low
  <2>1. QED  BY <1>1, <1>2, <1>3, <1>12, MallocStaysHigh DEF n
<1>14. ASSUME NEW b \in Blocks, live'[b] # 0
       PROVE  b >= MEM1_ALLOC_TABLE_SIZE - Reach(rest, spare)' - 0
  <2>1. b >= low \/ b >= low - n
    BY <1>12, <1>13, <1>14
  <2>2. b \in Nat
    BY <1>3
  <2> HIDE DEF n
  <2>3. QED  BY <1>2, <1>3, <1>9, <1>10, <1>11, <2>1, <2>2
<1>15. ReachInv(rest, spare)'
  BY <1>1, <1>14 DEF ReachInv
<1>16. calls <= 2 => ret' # NULL
  <2> HIDE DEF set, n
  <2>1. SUFFICES ASSUME calls <= 2 PROVE low >= n
    BY <1>13
  <2>2. calls = 1 \/ calls = 2
    BY <1>1, <1>3, <2>1
  <2>3. calls * set <= 2 * set
    BY <1>3, <2>2
  <2>4. n - rest[next] = 0 - rest[next + 1]
    BY <1>2, <1>5
  <2>5. QED  BY <1>2, <1>3, <1>5, <1>6, <1>7, <2>3, <2>4
<1>17. ServedInv'
  <2>1. Requested = 1 .. (next - 1) /\ Requested' = 1 .. next /\ next \in Nat \ {0}
    BY <1>1, AllocRequests
  <2>2. Requested' \subseteq Buffers
    BY <1>1, AllocRequests
  <2>3. SUFFICES ASSUME calls <= 2, NEW m \in Requested' PROVE buf'[m] # NULL
    BY <1>1 DEF ServedInv
  <2>4. CASE m = next
    BY <1>1, <1>16, <2>3, <2>4
  <2>5. CASE m # next
    <3>1. m \in Requested /\ m \in Buffers
      BY <2>1, <2>2, <2>3, <2>5
    <3>2. buf[m] # NULL
      BY <2>3, <3>1 DEF ServiceInv, ServedInv
    <3>3. QED  BY <1>1, <2>5, <3>1, <3>2
  <2>6. QED  BY <2>4, <2>5
<1>18. QED
  <2>1. Reach(rest, spare)' >= 0
    <3> HIDE DEF n
    <3>1. QED  BY <1>2, <1>9, <1>10, <1>11
  <2>2. QED  BY <2>1, <1>15, <1>17

\* Other code asks while lwip_comm_init does not run: at most spare blocks deeper.
LEMMA AppMallocService ==
  ASSUME NEW rest, NEW spare, Proportioned(rest, spare),
         ServiceInv(rest, spare), AppMalloc
  PROVE  Reach(rest, spare)' >= 0 /\ ReachInv(rest, spare)' /\ ServedInv'
<1> DEFINE low == MEM1_ALLOC_TABLE_SIZE - Reach(rest, spare)
<1>1. PICK sz \in AppSizes : mymalloc(sz)
  BY DEF AppMalloc
<1>2. /\ stage = "idle" /\ stage' = stage /\ calls' = calls /\ buf' = buf /\ next' = next
      /\ app = NULL /\ app' = ret' /\ CommIInv /\ MallocInv
  BY DEF AppMalloc, ServiceInv, CommIInv, CommTypeOK
<1>3. sz \in Sizes \ {0} /\ sz \in Nat /\ BlocksFor(sz) \in Nat /\ BlocksFor(sz) <= spare
      /\ spare \in Nat
  BY CommConstants, BlocksForCovers DEF Proportioned
<1>4. /\ Reach(rest, spare) \in Int /\ Reach(rest, spare) >= 0 /\ low \in Int
      /\ MEM1_ALLOC_TABLE_SIZE \in Nat /\ Blocks \subseteq Nat
  BY <1>2, ReachTypes DEF ServiceInv
<1>5. Reach(rest, spare)' = Reach(rest, spare) /\ Requested' = Requested
  BY <1>2 DEF Reach, Requested
<1>6. ASSUME NEW b \in Blocks, live[b] # 0 PROVE b >= low
  <2>1. b * MEM1_BLOCK_SIZE # app
    BY <1>2, OffsetOf
  <2>2. b >= low - 0
    BY <1>6, <2>1 DEF ServiceInv, ReachInv
  <2> HIDE DEF low
  <2>3. QED  BY <1>4, <2>2
<1>7. \A b \in Blocks : live'[b] # 0 /\ live[b] = 0 =>
        b * MEM1_BLOCK_SIZE = ret' /\ b >= low - BlocksFor(sz)
  <2>1. low <= MEM1_ALLOC_TABLE_SIZE
    BY <1>4
  <2> HIDE DEF low
  <2>2. QED  BY <1>1, <1>2, <1>3, <1>4, <1>6, <2>1, MallocStaysHigh
<1>8. ASSUME NEW b \in Blocks, live'[b] # 0
      PROVE  b >= low - (IF b * MEM1_BLOCK_SIZE = ret' THEN spare ELSE 0)
  <2>1. b \in Nat
    BY <1>4
  <2> HIDE DEF low
  <2>2. CASE live[b] # 0
    <3>1. b >= low
      BY <1>6, <2>2
    <3>2. QED  BY <1>3, <1>4, <2>1, <3>1
  <2>3. CASE live[b] = 0
    <3>1. b * MEM1_BLOCK_SIZE = ret' /\ b >= low - BlocksFor(sz)
      BY <1>7, <1>8, <2>3
    <3>2. b >= low - spare
      BY <1>3, <1>4, <2>1, <3>1
    <3>3. QED  BY <3>1, <3>2
  <2>4. QED  BY <2>2, <2>3
<1>9. ReachInv(rest, spare)'
  BY <1>2, <1>5, <1>8 DEF ReachInv
<1>10. ServedInv'
  BY <1>2, <1>5 DEF ServedInv, ServiceInv
<1>11. QED  BY <1>4, <1>5, <1>9, <1>10

\* What it gives back was the region that might lie deeper.
LEMMA AppFreeService ==
  ASSUME NEW rest, NEW spare, Proportioned(rest, spare),
         ServiceInv(rest, spare), AppFree
  PROVE  Reach(rest, spare)' >= 0 /\ ReachInv(rest, spare)' /\ ServedInv'
<1>1. /\ stage = "idle" /\ stage' = stage /\ calls' = calls /\ buf' = buf /\ next' = next
      /\ app # NULL /\ app' = NULL /\ CommIInv /\ MallocInv /\ live \in [Blocks -> Nat]
  BY DEF AppFree, ServiceInv, CommIInv, CommTypeOK, MallocInv, TypeOK, PoolTypeOK
<1>2. PICK d \in Blocks : app = d * MEM1_BLOCK_SIZE /\ live[d] # 0
  BY <1>1, AppHolds
<1>3. live' = [live EXCEPT ![d] = 0]
  BY <1>1, <1>2, FreeGivesBack DEF AppFree
<1>4. Reach(rest, spare)' = Reach(rest, spare) /\ Requested' = Requested
  BY <1>1 DEF Reach, Requested
<1>5. ASSUME NEW b \in Blocks, live'[b] # 0
      PROVE  b >= MEM1_ALLOC_TABLE_SIZE - Reach(rest, spare) - 0
  <2>1. b # d /\ live[b] # 0
    BY <1>1, <1>3, <1>5
  <2>2. b * MEM1_BLOCK_SIZE # app
    BY <1>2, <2>1, OffsetOf
  <2>3. QED  BY <2>1, <2>2 DEF ServiceInv, ReachInv
<1>6. \A b \in Blocks : b * MEM1_BLOCK_SIZE # app'
  BY <1>1, OffsetOf
<1>7. ReachInv(rest, spare)'
  BY <1>4, <1>5, <1>6 DEF ReachInv
<1>8. ServedInv'
  BY <1>1, <1>4 DEF ServedInv, ServiceInv
<1>9. QED  BY <1>4, <1>7, <1>8 DEF ServiceInv

\* The other steps take nothing from the pool.
LEMMA ServiceStays ==
  ASSUME NEW rest, NEW spare, Proportioned(rest, spare), ServiceInv(rest, spare),
         UNCHANGED <<vars, buf, app, calls, next>>,
         \/ stage' = stage
         \/ (stage # "alloc" /\ stage' # "alloc" /\ stage # "idle")
  PROVE  Reach(rest, spare)' >= 0 /\ ReachInv(rest, spare)' /\ ServedInv'
<1>1. live' = live /\ CommIInv
  BY DEF vars, ServiceInv
<1>2. Reach(rest, spare)' = Reach(rest, spare) /\ Requested' = Requested
  BY DEF Reach, Requested
<1>3. ASSUME NEW b \in Blocks, live[b] # 0
      PROVE  b >= MEM1_ALLOC_TABLE_SIZE - Reach(rest, spare)
               - (IF stage' = "idle" /\ b * MEM1_BLOCK_SIZE = app THEN spare ELSE 0)
  <2>1. b >= MEM1_ALLOC_TABLE_SIZE - Reach(rest, spare)
               - (IF stage = "idle" /\ b * MEM1_BLOCK_SIZE = app THEN spare ELSE 0)
    BY <1>3 DEF ServiceInv, ReachInv
  <2>2. b \in Nat /\ Reach(rest, spare) \in Int /\ spare \in Nat
        /\ MEM1_ALLOC_TABLE_SIZE \in Nat
    BY <1>1, ReachTypes
  <2>3. CASE stage' = stage
    BY <2>1, <2>3
  <2>4. CASE stage # "idle"
    BY <2>1, <2>2, <2>4
  <2>5. QED  BY <2>3, <2>4
<1>4. ReachInv(rest, spare)'
  BY <1>1, <1>2, <1>3 DEF ReachInv
<1>5. ServedInv'
  BY <1>2 DEF ServedInv, ServiceInv
<1>6. QED  BY <1>2, <1>4, <1>5 DEF ServiceInv

LEMMA ServiceStep ==
  ASSUME NEW rest, NEW spare, Proportioned(rest, spare),
         ServiceInv(rest, spare), [CommNext]_allVars
  PROVE  ServiceInv(rest, spare)'
<1>1. CommIInv'
  BY CommStepInv DEF ServiceInv
<1>2. Reach(rest, spare)' >= 0 /\ ReachInv(rest, spare)' /\ ServedInv'
  <2>1. CASE CallInit
    BY <2>1, CallService
  <2>2. CASE AllocBuffer
    BY <2>2, AllocService
  <2>3. CASE AppMalloc
    BY <2>3, AppMallocService
  <2>4. CASE AppFree
    BY <2>4, AppFreeService
  <2>5. CASE PhyAnswers \/ PhyFails \/ StartCore
    <3>1. UNCHANGED <<vars, buf, app, calls, next>>
          /\ stage # "alloc" /\ stage' # "alloc" /\ stage # "idle"
      BY <2>5 DEF PhyAnswers, PhyFails, StartCore
    <3>2. QED  BY <3>1, ServiceStays
  <2>6. CASE UNCHANGED allVars
    <3>1. UNCHANGED <<vars, buf, app, calls, next>> /\ stage' = stage
      BY <2>6 DEF allVars, commVars
    <3>2. QED  BY <3>1, ServiceStays
  <2>7. QED
    BY <2>1, <2>2, <2>3, <2>4, <2>5, <2>6 DEF CommNext, lwip_comm_init
<1>3. QED  BY <1>1, <1>2 DEF ServiceInv

LEMMA ServiceInit ==
  ASSUME NEW rest, NEW spare, Proportioned(rest, spare), CommInit
  PROVE  ServiceInv(rest, spare)
<1>1. CommIInv /\ stage = "idle" /\ calls = 0 /\ Requested = {}
      /\ \A b \in Blocks : live[b] = 0
  BY CommInitInv DEF CommInit, Init, PoolInit, Requested
<1>2. Reach(rest, spare) = 0
  BY <1>1, ReachTypes DEF Reach
<1>3. ReachInv(rest, spare) /\ ServedInv
  BY <1>1 DEF ReachInv, ServedInv
<1>4. QED  BY <1>1, <1>2, <1>3 DEF ServiceInv

\* A pool proportioned like the firmware's holds the buffers of two calls, wherever
\* other code leaves its own regions: the core never starts with a buffer missing.
THEOREM TwoCallsAreServed == CommSpec /\ RoomForTwo => []TwoCallsFit
<1> SUFFICES ASSUME NEW rest, NEW spare, Proportioned(rest, spare)
             PROVE  CommSpec => []TwoCallsFit
  BY DEF RoomForTwo
<1>1. ServiceInv(rest, spare) => TwoCallsFit
  <2> SUFFICES ASSUME ServiceInv(rest, spare), stage = "core", calls <= 2
               PROVE  \A n \in Buffers : buf[n] # NULL
    BY DEF TwoCallsFit
  <2>1. Requested = Buffers
    BY DEF ServiceInv, CommIInv, StageInv, Requested
  <2>2. QED  BY <2>1 DEF ServiceInv, ServedInv
<1>2. CommInit => ServiceInv(rest, spare)
  BY ServiceInit
<1>3. ServiceInv(rest, spare) /\ [CommNext]_allVars => ServiceInv(rest, spare)'
  BY ServiceStep
<1>4. QED  BY <1>1, <1>2, <1>3, PTL DEF CommSpec
=============================================================================
