----------------------------- MODULE MallocLoop -----------------------------
(***************************************************************************)
(* The memory manager of APP/src/malloc.c, one loop iteration at a time:   *)
(* the downward scan of my_mem_malloc that counts free blocks in cmemb,    *)
(* its marking loop, and the clearing loop of my_mem_free.  One call runs  *)
(* at a time (only the foreground allocates).  Implements Malloc: a call   *)
(* takes effect where it returns.                                          *)
(***************************************************************************)
EXTENDS Malloc

VARIABLES pc,      \* which loop runs: "scan", "mark", "clear"; "idle" between calls
          size,    \* the argument of mymalloc
          nmemb,   \* blocks wanted, or the number my_mem_free found in the table
          offset,  \* the scanned block; index in my_mem_free
          cmemb, i,
          wasrdy   \* history: memrdy when the call began

locals == <<size, nmemb, offset, cmemb, i>>
loopVars == <<vars, pc, locals, wasrdy>>

-----------------------------------------------------------------------------

\* What the table was when the call in progress began.
TableAtCall ==
  [b \in Blocks |->
     CASE b \in Run(offset, nmemb) /\ pc = "mark" -> 0
       [] b \in Run(offset, nmemb) /\ pc = "clear" -> nmemb
       [] OTHER -> memmap[b]]

Atomic == INSTANCE Malloc WITH
  memmap <- TableAtCall,
  memrdy <- IF pc = "idle" THEN memrdy ELSE wasrdy

Frame(s, n, o, c, k) ==
  /\ size' = s /\ nmemb' = n /\ offset' = o /\ cmemb' = c /\ i' = k

\* A call returns: its locals are dead.
Return == pc' = "idle" /\ Frame(0, 0, 0, 0, 0)

LoopInit ==
  /\ Init
  /\ wasrdy = 0
  /\ pc = "idle"
  /\ size = 0 /\ nmemb = 0 /\ offset = 0 /\ cmemb = 0 /\ i = 0

\* if(!mallco_dev.memrdy) mallco_dev.init();
EnsureReady ==
  /\ memmap' = IF memrdy = 0 THEN [b \in Blocks |-> 0] ELSE memmap
  /\ memrdy' = 1
  /\ wasrdy' = memrdy

CallMalloc(s) ==
  /\ pc = "idle"
  /\ EnsureReady
  /\ UNCHANGED live
  /\ \/ /\ s = 0
        /\ req' = 0 /\ ret' = NULL
        /\ Return
     \/ /\ s # 0
        /\ pc' = "scan"
        /\ Frame(s, BlocksFor(s), MEM1_ALLOC_TABLE_SIZE - 1, 0, 0)
        /\ UNCHANGED <<req, ret>>

\* Mutant: a block in use does not reset the count.
Scan_NoReset ==
  LET count == IF memmap[offset] = 0 THEN cmemb + 1 ELSE cmemb
  IN  /\ pc = "scan" /\ offset >= 0
      /\ pc' = IF count = nmemb THEN "mark" ELSE "scan"
      /\ Frame(size, nmemb, IF count = nmemb THEN offset ELSE offset - 1, count, 0)
      /\ UNCHANGED <<memmap, memrdy, live, req, ret, wasrdy>>

\* One iteration of the scan.
Scan ==
  LET count == IF memmap[offset] = 0 THEN cmemb + 1 ELSE 0
  IN  /\ pc = "scan" /\ offset >= 0
      /\ pc' = IF count = nmemb THEN "mark" ELSE "scan"
      /\ Frame(size, nmemb, IF count = nmemb THEN offset ELSE offset - 1, count, 0)
      /\ UNCHANGED <<memmap, memrdy, live, req, ret, wasrdy>>

\* The scan passed the lowest block.
NoGap ==
  /\ pc = "scan" /\ offset < 0
  /\ req' = size /\ ret' = NULL
  /\ Return
  /\ UNCHANGED <<memmap, memrdy, live, wasrdy>>

\* Mutant: i is not advanced.
Mark_Stuck ==
  /\ pc = "mark" /\ i < nmemb
  /\ memmap' = [memmap EXCEPT ![offset + i] = nmemb]
  /\ UNCHANGED <<memrdy, live, req, ret, pc, locals, wasrdy>>

\* One iteration of the marking loop.
Mark ==
  /\ pc = "mark" /\ i < nmemb
  /\ memmap' = [memmap EXCEPT ![offset + i] = nmemb]
  /\ i' = i + 1
  /\ UNCHANGED <<memrdy, live, req, ret, pc, size, nmemb, offset, cmemb, wasrdy>>

Granted ==
  /\ pc = "mark" /\ i = nmemb
  /\ req' = size
  /\ ret' = offset * MEM1_BLOCK_SIZE
  /\ live' = [live EXCEPT ![offset] = size]
  /\ Return
  /\ UNCHANGED <<memmap, memrdy, wasrdy>>

CallFree(off) ==
  LET index == off \div MEM1_BLOCK_SIZE
  IN  /\ pc = "idle"
      /\ EnsureReady
      /\ UNCHANGED <<live, req, ret>>
      /\ \/ /\ memrdy = 0 \/ off >= MEM1_MAX_SIZE
            /\ Return
         \/ /\ memrdy = 1 /\ off < MEM1_MAX_SIZE
            /\ pc' = "clear"
            /\ Frame(0, memmap[index], index, 0, 0)

\* Mutant: the clearing loop starts one block too far.
Clear_OneTooFar ==
  /\ pc = "clear" /\ i < nmemb
  /\ memmap' = [memmap EXCEPT ![offset + i + 1] = 0]
  /\ i' = i + 1
  /\ UNCHANGED <<memrdy, live, req, ret, pc, size, nmemb, offset, cmemb, wasrdy>>

\* One iteration of the clearing loop.
Clear ==
  /\ pc = "clear" /\ i < nmemb
  /\ memmap' = [memmap EXCEPT ![offset + i] = 0]
  /\ i' = i + 1
  /\ UNCHANGED <<memrdy, live, req, ret, pc, size, nmemb, offset, cmemb, wasrdy>>

Freed ==
  /\ pc = "clear" /\ i = nmemb
  /\ live' = [live EXCEPT ![offset] = 0]
  /\ Return
  /\ UNCHANGED <<memmap, memrdy, req, ret, wasrdy>>

\* The steps of a call that is in progress.
Continue == Scan \/ NoGap \/ Mark \/ Granted \/ Clear \/ Freed

LoopNext ==
  \/ Continue
  \/ \E s \in Sizes : CallMalloc(s)
  \/ \E off \in 0 .. MEM1_MAX_SIZE : MayFree(off) /\ CallFree(off)

\* The processor keeps executing a call it has begun; nobody has to make one.
LoopSpec == LoopInit /\ [][LoopNext]_loopVars /\ WF_loopVars(Continue)

-----------------------------------------------------------------------------

LoopTypeOK ==
  /\ TypeOK
  /\ wasrdy \in {0, 1}
  /\ pc \in {"idle", "scan", "mark", "clear"}
  /\ size \in Nat /\ nmemb \in Nat /\ cmemb \in Nat /\ i \in Nat
  /\ offset \in -1 .. (MEM1_ALLOC_TABLE_SIZE - 1)

\* The loop invariant of the scan: cmemb is the length of the free run that
\* starts just above the scanned block, it is shorter than what is wanted, and
\* no gap long enough lies above - so the first gap found is the highest one and
\* a scan that runs out refuses rightly.
ScanInv ==
  pc = "scan" =>
    /\ cmemb < nmemb
    /\ Run(offset + 1, cmemb) \subseteq Blocks
    /\ \A b \in Run(offset + 1, cmemb) : memmap[b] = 0
    /\ offset + 1 + cmemb \in Blocks => memmap[offset + 1 + cmemb] # 0
    /\ \A b \in Gaps(memmap, nmemb) : b <= offset

\* No loop writes outside mem1mapbase, and the marking loop writes only blocks
\* that were free: neither i nor the number found in the table leads my_mem_free
\* or my_mem_malloc past the end of the table or into another region.
LoopsInBounds ==
  /\ pc \in {"mark", "clear"} => i <= nmemb /\ Run(offset, nmemb) \subseteq Blocks
  /\ pc = "mark" =>
       \A b \in Run(offset, nmemb) :
         /\ memmap[b] = IF b < offset + i THEN nmemb ELSE 0
         /\ \A c \in Blocks : b \notin Held(c)

\* What holds of the loops between any two iterations.
LoopInv == LoopTypeOK /\ ScanInv /\ LoopsInBounds

\* mymalloc and myfree, iteration by iteration, do what Malloc does in one step,
\* so everything shown of Malloc holds of the loops.
ImplementsMalloc == Atomic!Spec

\* Every call of mymalloc or myfree returns (my_mem_malloc's three exits and
\* both exits of my_mem_free are reached).
CallsReturn == pc # "idle" ~> pc = "idle"

=============================================================================
