------------------------------ MODULE BlockPool ------------------------------
(***************************************************************************)
(* What the firmware's memory manager (APP/src/malloc.c) promises to its   *)
(* callers, without the table it keeps to do so: a pool of                 *)
(* MEM1_ALLOC_TABLE_SIZE blocks of MEM1_BLOCK_SIZE bytes from which        *)
(* callers are handed block-aligned regions, never two that share a block, *)
(* and which refuses a request only when no gap is long enough for it.     *)
(* WHICH gap is taken is left open.                                        *)
(***************************************************************************)
EXTENDS Integers

CONSTANTS MEM1_ALLOC_TABLE_SIZE,  \* number of blocks of the pool
          MEM1_BLOCK_SIZE,        \* bytes in a block
          Sizes                   \* the request sizes callers use, in bytes

ASSUME PoolAssumption ==
  /\ MEM1_ALLOC_TABLE_SIZE \in Nat \ {0}
  /\ MEM1_BLOCK_SIZE \in Nat \ {0}
  /\ Sizes \subseteq Nat

VARIABLES live,  \* live[b]: bytes handed out at block b, 0 if no region starts there
          req,   \* the size the last call of mymalloc asked for
          ret    \* the offset (or NULL) it returned

poolVars == <<live, req, ret>>

-----------------------------------------------------------------------------

Blocks == 0 .. (MEM1_ALLOC_TABLE_SIZE - 1)

MEM1_MAX_SIZE == MEM1_ALLOC_TABLE_SIZE * MEM1_BLOCK_SIZE

\* A pointer is modelled by its offset from mallco_dev.membase; NULL is none.
NULL == -1

\* Mutant: the remainder of the division is forgotten.
BlocksFor_RoundsDown(size) == size \div MEM1_BLOCK_SIZE

\* Mutant: every request is given a spare block.
BlocksFor_OneSpare(size) == size \div MEM1_BLOCK_SIZE + 1

\* The number of blocks a request occupies (nmemb of my_mem_malloc).
BlocksFor(size) ==
  size \div MEM1_BLOCK_SIZE + (IF size % MEM1_BLOCK_SIZE # 0 THEN 1 ELSE 0)

\* The blocks of a region of n blocks that starts at block b.
Run(b, n) == b .. (b + n - 1)

\* The blocks of the region handed out at b; empty when there is none.
Held(b) == Run(b, BlocksFor(live[b]))

\* The places where n more blocks can be handed out.
Room(n) ==
  {b \in Blocks : Run(b, n) \subseteq Blocks
                    /\ \A c \in Blocks : Run(b, n) \cap Held(c) = {}}

-----------------------------------------------------------------------------

PoolInit ==
  /\ live = [b \in Blocks |-> 0]
  /\ req = 0
  /\ ret = NULL

Grant(size) ==
  /\ size # 0
  /\ req' = size
  /\ \E b \in Room(BlocksFor(size)) :
        /\ live' = [live EXCEPT ![b] = size]
        /\ ret' = b * MEM1_BLOCK_SIZE

Refuse(size) ==
  /\ size = 0 \/ Room(BlocksFor(size)) = {}
  /\ req' = size
  /\ ret' = NULL
  /\ UNCHANGED live

Release(b) ==
  /\ live' = [live EXCEPT ![b] = 0]
  /\ UNCHANGED <<req, ret>>

PoolNext ==
  \/ \E size \in Sizes : Grant(size) \/ Refuse(size)
  \/ \E b \in Blocks : Release(b)

PoolSpec == PoolInit /\ [][PoolNext]_poolVars

-----------------------------------------------------------------------------

PoolTypeOK ==
  /\ live \in [Blocks -> Nat]
  /\ req \in Nat
  /\ ret \in Nat \cup {NULL}

\* No block belongs to two regions, and every region lies inside the pool.
HeldDisjoint ==
  \A b \in Blocks :
    /\ Held(b) \subseteq Blocks
    /\ \A c \in Blocks \ {b} : Held(b) \cap Held(c) = {}

PoolInv == PoolTypeOK /\ HeldDisjoint

\* The bytes of the region handed out at block b.
Bytes(b) == (b * MEM1_BLOCK_SIZE) .. (b * MEM1_BLOCK_SIZE + live[b] - 1)

\* No byte of the pool ever belongs to two regions mymalloc has handed out and
\* myfree has not yet been given back, and every byte of a region lies in
\* mem1base: two callers (a descriptor table and a frame buffer, say) can never
\* write over each other, however requests and releases are mixed.
NoOverlap ==
  \A b \in Blocks :
    /\ Bytes(b) \subseteq 0 .. (MEM1_MAX_SIZE - 1)
    /\ \A c \in Blocks \ {b} : Bytes(b) \cap Bytes(c) = {}

=============================================================================
