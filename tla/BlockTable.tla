------------------------------ MODULE BlockTable ------------------------------
(***************************************************************************)
(* The table of APP/src/malloc.c (mem1mapbase, mallco_dev.memmap) as a     *)
(* value: one number per block, 0 for a free block, otherwise the number   *)
(* of blocks of the region it belongs to - the SAME number in every block  *)
(* of the region, nothing says where a region starts.  What Malloc (a call *)
(* a step) and MallocLoop (a loop iteration a step) share.                 *)
(***************************************************************************)
EXTENDS BlockPool

\* Mutant: the scan loop ends at offset > 0 and never tries the lowest block.
Gaps_StopsAtOne(map, n) ==
  {b \in Blocks \ {0} : \A k \in Run(b, n) : k \in Blocks /\ map[k] = 0}

\* The gaps of n blocks in the table map.
Gaps(map, n) == {b \in Blocks : \A k \in Run(b, n) : k \in Blocks /\ map[k] = 0}

\* The downward scan of my_mem_malloc stops at the highest gap.
IsHighestGap(map, n, b) ==
  /\ b \in Gaps(map, n)
  /\ \A c \in Gaps(map, n) : c <= b

\* Mutant: the marking loop stops one block short.
Fill_OneShort(map, b, n, v) ==
  [k \in Blocks |-> IF k \in Run(b, n - 1) THEN v ELSE map[k]]

\* The table with the n blocks from b on set to v.
Fill(map, b, n, v) == [k \in Blocks |-> IF k \in Run(b, n) THEN v ELSE map[k]]

\* The offsets callers may pass to myfree: of a region they hold, of a block
\* that is free (the pointer was freed before), or outside the pool.
MayFree(off) ==
  \/ off >= MEM1_MAX_SIZE
  \/ \E b \in Blocks :
       /\ off = b * MEM1_BLOCK_SIZE
       /\ live[b] # 0 \/ \A c \in Blocks : b \notin Held(c)

-----------------------------------------------------------------------------

\* The blocks of the region that starts at b, among the regions of the given sizes.
Region(regions, b) == Run(b, BlocksFor(regions[b]))

\* The table map describes these regions: inside every one of them, and only
\* there, it holds the number of blocks of that region.
Describes(map, regions) ==
  /\ map \in [Blocks -> Nat]
  /\ \A b \in Blocks : \A k \in Region(regions, b) :
       k \in Blocks /\ map[k] = BlocksFor(regions[b])
  /\ \A k \in Blocks : map[k] # 0 => \E b \in Blocks : k \in Region(regions, b)

=============================================================================
