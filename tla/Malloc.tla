------------------------------- MODULE Malloc -------------------------------
(***************************************************************************)
(* The memory manager of APP/src/malloc.c over the table of BlockTable.    *)
(* my_mem_malloc looks from the top of the table down and takes the        *)
(* highest gap; my_mem_free trusts the number it finds in the table at the *)
(* offset it is given.                                                     *)
(*                                                                         *)
(* memmap and memrdy are the code's state.  live, req and ret (of          *)
(* BlockPool) are what callers see: the regions they hold, the last size   *)
(* asked for and the answer.  A call is one step here: no interrupt        *)
(* handler allocates from this pool.  MallocLoop splits the calls into     *)
(* loop iterations.                                                        *)
(***************************************************************************)
EXTENDS BlockTable, FiniteSets

VARIABLES memmap,  \* mallco_dev.memmap
          memrdy   \* mallco_dev.memrdy

vars == <<memmap, memrdy, live, req, ret>>

-----------------------------------------------------------------------------

Init ==
  /\ memmap = [b \in Blocks |-> 0]
  /\ memrdy = 0
  /\ PoolInit

\* The table a call works on: the first call of either function clears it.
my_mem_init == IF memrdy = 0 THEN [b \in Blocks |-> 0] ELSE memmap

mymalloc(size) ==
  LET nmemb == BlocksFor(size)
  IN  /\ memrdy' = 1
      /\ req' = size
      /\ \/ /\ size # 0
            /\ \E b \in Blocks :
                 /\ IsHighestGap(my_mem_init, nmemb, b)
                 /\ memmap' = Fill(my_mem_init, b, nmemb, nmemb)
                 /\ ret' = b * MEM1_BLOCK_SIZE
                 /\ live' = [live EXCEPT ![b] = size]
         \/ /\ size = 0 \/ Gaps(my_mem_init, nmemb) = {}
            /\ memmap' = my_mem_init
            /\ ret' = NULL
            /\ UNCHANGED live

myfree(offset) ==
  LET index == offset \div MEM1_BLOCK_SIZE
  IN  /\ memrdy' = 1
      /\ UNCHANGED <<req, ret>>
      /\ \/ /\ memrdy = 0
            /\ memmap' = my_mem_init
            /\ UNCHANGED live
         \/ /\ memrdy = 1
            /\ offset < MEM1_MAX_SIZE
            /\ memmap' = Fill(memmap, index, memmap[index], 0)
            /\ live' = [live EXCEPT ![index] = 0]
         \/ /\ memrdy = 1
            /\ offset >= MEM1_MAX_SIZE
            /\ UNCHANGED <<memmap, live>>

Next ==
  \/ \E size \in Sizes : mymalloc(size)
  \/ \E offset \in 0 .. MEM1_MAX_SIZE : MayFree(offset) /\ myfree(offset)

Spec == Init /\ [][Next]_vars

\* Mutant: the counting loop skips the last entry of the table.
my_mem_perused_SkipsLast ==
  (Cardinality({b \in Blocks : memmap[b] # 0 /\ b + 1 \in Blocks}) * 1000)
    \div MEM1_ALLOC_TABLE_SIZE

\* The share of the pool in use, in tenths of a percent.
my_mem_perused ==
  (Cardinality({b \in Blocks : memmap[b] # 0}) * 1000) \div MEM1_ALLOC_TABLE_SIZE

-----------------------------------------------------------------------------

TypeOK ==
  /\ memmap \in [Blocks -> Nat]
  /\ memrdy \in {0, 1}
  /\ PoolTypeOK

\* The invariant the manager lives by: inside every region handed out, and only
\* there, the table holds the number of blocks of that region.  myfree of any
\* region then clears exactly its blocks, and my_mem_malloc sees as free exactly
\* the blocks nobody holds - although the table never says where a region starts.
TableMatchesHeld == Describes(memmap, live)

\* Before the first call nothing is handed out, so the clearing of the table
\* that the first call does (my_mem_init) loses no region.
NotReadyIsEmpty ==
  memrdy = 0 => memmap = [b \in Blocks |-> 0] /\ live = [b \in Blocks |-> 0]

\* The inductive invariant.  PoolInv is needed beside TableMatchesHeld: two
\* adjacent regions of equal length look like any other two in the table.
MallocInv == TypeOK /\ PoolInv /\ TableMatchesHeld /\ NotReadyIsEmpty

\* A call of myfree with a pointer its caller does not hold - freed twice, or
\* outside the pool - takes no block from anybody, and no call at all changes the
\* table inside a region that is held before and after it.
OthersUntouched ==
  [][\A b \in Blocks :
       live[b] # 0 /\ live'[b] = live[b] =>
         \A k \in Held(b) : memmap'[k] = memmap[k]]_vars

\* my_mem_perused, which sees only the table, reports exactly the share of the
\* blocks that callers hold, and 1000 only when nothing is left.
PerusedIsHeld ==
  LET held == UNION {Held(b) : b \in Blocks}
  IN  /\ my_mem_perused = (Cardinality(held) * 1000) \div MEM1_ALLOC_TABLE_SIZE
      /\ my_mem_perused = 1000 <=> held = Blocks

=============================================================================
