------------------------------ MODULE LwipComm ------------------------------
(***************************************************************************)
(* Bringing the network up: lwip_comm_init of LWIP/lwip_app/lwip_comm.c    *)
(* with ETH_Mem_Malloc and LAN8720_Init of BSP/src/lan8720.c, on top of    *)
(* the memory manager.  Six buffers are requested one after the other,     *)
(* then the PHY is tried until it answers or the retries are used up, then *)
(* the lwIP core and its interface are started in the buffers.             *)
(*                                                                         *)
(* The two checks that are to notice a buffer that could not be had test   *)
(* the ADDRESS of the pointer variables (!(uint32_t)&DMARxDscrTab), which  *)
(* is never 0: they never fire, so ETH_Mem_Free, lwip_comm_mem_free and    *)
(* the returns of 1 and 2 are never reached and have no action here.  Nor  *)
(* has the return of 4: netif_add fails only if ethernetif_init does, and  *)
(* that returns ERR_OK on its only path.                                   *)
(***************************************************************************)
EXTENDS Malloc, Sequences, SequencesExt

CONSTANTS BufferSize,  \* bytes lwip_comm_init asks for, in the order it asks
          AppSizes,    \* bytes other code may ask for
          MaxCalls     \* bound: calls of lwip_comm_init

Buffers == 1 .. Len(BufferSize)

ASSUME LwipCommAssumption ==
  /\ BufferSize \in Seq(Sizes \ {0})
  /\ BufferSize # <<>>
  /\ AppSizes \subseteq Sizes \ {0}
  /\ MaxCalls \in Nat

VARIABLES buf,     \* DMARxDscrTab, DMATxDscrTab, Rx_Buff, Tx_Buff, memp_memory, ram_heap
          app,     \* a pointer of other code (p of main.c)
          stage,      \* lwip_comm_init: "idle", "alloc", "phy", "core"
          next,    \* the buffer requested next
          retry,
          result,  \* what lwip_comm_init returned last; -1 before its first return
          calls    \* history: calls of lwip_comm_init

commVars == <<buf, app, stage, next, retry, result, calls>>
allVars == <<vars, commVars>>

-----------------------------------------------------------------------------

CommInit ==
  /\ Init
  /\ buf = [n \in Buffers |-> NULL]
  /\ app = NULL
  /\ stage = "idle" /\ next = 1 /\ retry = 0
  /\ result = -1
  /\ calls = 0

\* A caller may try again after a failure.
CallInit ==
  /\ stage = "idle" /\ result # 0 /\ calls < MaxCalls
  /\ calls' = calls + 1
  /\ stage' = "alloc"
  /\ next' = 1 /\ retry' = 0
  /\ UNCHANGED <<vars, buf, app, result>>

\* Mutant: the heap's pointer ends up in the variable of the pools.
AllocBuffer_WrongVariable ==
  /\ stage = "alloc"
  /\ mymalloc(BufferSize[next])
  /\ buf' = [buf EXCEPT ![IF next = 6 THEN 5 ELSE next] = ret']
  /\ next' = next + 1
  /\ stage' = IF next = Len(BufferSize) THEN "phy" ELSE "alloc"
  /\ UNCHANGED <<app, retry, result, calls>>

\* X =mymalloc(...); the checks after the fourth and the last never fire.
AllocBuffer ==
  /\ stage = "alloc"
  /\ mymalloc(BufferSize[next])
  /\ buf' = [buf EXCEPT ![next] = ret']
  /\ next' = next + 1
  /\ stage' = IF next = Len(BufferSize) THEN "phy" ELSE "alloc"
  /\ UNCHANGED <<app, retry, result, calls>>

PhyAnswers ==
  /\ stage = "phy"
  /\ stage' = "core"
  /\ UNCHANGED <<vars, buf, app, next, retry, result, calls>>

\* Mutant: a retry begins with the buffers again.
PhyFails_FromTheStart ==
  /\ stage = "phy" /\ retry < 5
  /\ retry' = retry + 1
  /\ stage' = "alloc" /\ next' = 1
  /\ UNCHANGED <<vars, buf, app, result, calls>>

\* retry++; if(retry>5) {retry=0;return 3;}
PhyFails ==
  /\ stage = "phy"
  /\ \/ /\ retry + 1 <= 5
        /\ retry' = retry + 1
        /\ UNCHANGED <<stage, result>>
     \/ /\ retry + 1 > 5
        /\ retry' = 0
        /\ stage' = "idle"
        /\ result' = 3
  /\ UNCHANGED <<vars, buf, app, next, calls>>

\* lwip_init, netif_add, dhcp_start, netif_set_up: the buffers are in use.
StartCore ==
  /\ stage = "core"
  /\ stage' = "idle"
  /\ result' = 0
  /\ UNCHANGED <<vars, buf, app, next, retry, calls>>

\* Other code uses the pool between calls, as the lines commented out in main.c do.
AppMalloc ==
  /\ stage = "idle" /\ app = NULL
  /\ \E size \in AppSizes : mymalloc(size)
  /\ app' = ret'
  /\ UNCHANGED <<buf, stage, next, retry, result, calls>>

\* The regions nobody points to any more.
Lost ==
  {b \in Blocks : live[b] # 0
                    /\ b * MEM1_BLOCK_SIZE \notin Range(buf) \cup {app}}

AppFree ==
  /\ stage = "idle" /\ app # NULL
  /\ myfree(app)
  /\ app' = NULL
  /\ UNCHANGED <<buf, stage, next, retry, result, calls>>

lwip_comm_init == AllocBuffer \/ PhyAnswers \/ PhyFails \/ StartCore

CommNext == CallInit \/ lwip_comm_init \/ AppMalloc \/ AppFree

\* A call once begun is carried on with; nobody has to make one.
CommSpec == CommInit /\ [][CommNext]_allVars /\ WF_allVars(lwip_comm_init)

-----------------------------------------------------------------------------

CommTypeOK ==
  /\ MallocInv
  /\ buf \in [Buffers -> Nat \cup {NULL}]
  /\ app \in Nat \cup {NULL}
  /\ stage \in {"idle", "alloc", "phy", "core"}
  /\ next \in 1 .. (Len(BufferSize) + 1)
  /\ retry \in 0 .. 5
  /\ result \in {-1, 0, 3}
  /\ calls \in 0 .. MaxCalls

\* The block a pointer points to.
BlockOf(ptr) == ptr \div MEM1_BLOCK_SIZE

\* The buffers of the running or last call that have been requested.
Requested == IF stage = "alloc" THEN 1 .. (next - 1) ELSE {n \in Buffers : calls > 0}

\* What the drivers are given is theirs: every buffer of the current call is
\* NULL or the start of a region of the size asked for, no two of them and not
\* the application's - so a frame the DMA writes into Rx_Buff lands in nothing
\* else, even after failed calls and releases by other code.
BuffersAreHeld ==
  /\ \A n \in Requested :
       buf[n] # NULL =>
         /\ live[BlockOf(buf[n])] = BufferSize[n]
         /\ buf[n] # app
         /\ \A m \in Requested \ {n} : buf[m] # buf[n]
  /\ app # NULL => live[BlockOf(app)] \in AppSizes

\* What holds between any two steps of lwip_comm_init, the table of Malloc included.
CommInv == CommTypeOK /\ BuffersAreHeld

\* Memory is lost by failed calls only, one set of buffers each: a call that
\* gives up on the PHY keeps its buffers, and the next one replaces them.
LostByFailureOnly ==
  /\ Cardinality(Lost) <= Len(BufferSize) * (IF calls > 0 THEN calls - 1 ELSE 0)
  /\ calls <= 1 => Lost = {}

\* The pool is large enough for the buffers of a first call and, after one that
\* failed, of a second: no buffer is missing when the core starts.
TwoCallsFit == stage = "core" /\ calls <= 2 => \A n \in Buffers : buf[n] # NULL

=============================================================================
