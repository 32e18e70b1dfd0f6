--------------------------------- MODULE Mem ---------------------------------
(***************************************************************************)
(* The heap of lwIP (core/mem.c): a doubly linked list of struct mem laid  *)
(* over the array ram, from 0 to the sentinel ram_end, with lfree at the   *)
(* lowest free one.  The two loops of mem_malloc are modelled one          *)
(* iteration at a time, and the block it found is taken in a step of its   *)
(* own; mem_free and mem_trim have no loops and are one step each.         *)
(*                                                                         *)
(* NO_SYS is 1 and SYS_LIGHTWEIGHT_PROT 0 (lwip_app/lwipopts.h), so that   *)
(* every lock of mem.c is empty.  Contexts are the callers: main, and the  *)
(* interrupt handler when it runs lwIP, as ETH_IRQHandler is written to.   *)
(* A struct mem is named by its offset in ram, a pointer by the offset of  *)
(* the struct mem before it.                                               *)
(***************************************************************************)
EXTENDS Integers

CONSTANTS MEM_SIZE_ALIGNED,   \* bytes of the heap
          SIZEOF_STRUCT_MEM, MIN_SIZE, MEM_ALIGNMENT,
          MemSizeT,           \* number of values of mem_size_t (2^16)
          Contexts,           \* who calls: {"main"} or {"main", "isr"}
          Sizes               \* the sizes callers ask for

LWIP_MEM_ALIGN_SIZE(size) ==
  (((size + MEM_ALIGNMENT - 1) \div MEM_ALIGNMENT) * MEM_ALIGNMENT) % MemSizeT

MIN_SIZE_ALIGNED == LWIP_MEM_ALIGN_SIZE(MIN_SIZE)

ASSUME MemAssumption ==
  /\ MEM_ALIGNMENT \in Nat \ {0}
  /\ SIZEOF_STRUCT_MEM \in Nat \ {0}
  /\ MIN_SIZE \in Nat /\ MIN_SIZE_ALIGNED \in Nat \ {0} /\ MIN_SIZE <= MIN_SIZE_ALIGNED
  /\ MEM_SIZE_ALIGNED \in Nat /\ MEM_SIZE_ALIGNED < MemSizeT
  /\ SIZEOF_STRUCT_MEM + MIN_SIZE_ALIGNED <= MEM_SIZE_ALIGNED
  /\ MemSizeT \in Nat
  /\ Contexts \subseteq {"main", "isr"}
  /\ Sizes \subseteq 0 .. (MemSizeT - 1)

VARIABLES ram,    \* ram[o]: the struct mem at offset o, whatever lies there if none does
          lfree,  \* offset of the lowest free struct mem
          pc,     \* where each context is in mem_malloc
          arg, size, ptr, cur,  \* its argument and locals
          live,   \* history: the size asked for of the region at o, 0 if none is handed out
          blocks  \* history: the offsets at which a struct mem lies

locals == <<pc, arg, size, ptr, cur>>
heap == <<ram, lfree, live, blocks>>
vars == <<heap, locals>>

Offsets == 0 .. MEM_SIZE_ALIGNED
ram_end == MEM_SIZE_ALIGNED

\* Mutant: the struct mem itself is counted as room.
Room_WithHeader(r, o) == r[o].next - o

\* The bytes a struct mem has for data.
Room(r, o) == r[o].next - (o + SIZEOF_STRUCT_MEM)

\* The size mem_malloc and mem_trim work with.
Rounded(s) ==
  IF LWIP_MEM_ALIGN_SIZE(s) < MIN_SIZE_ALIGNED THEN MIN_SIZE_ALIGNED
  ELSE LWIP_MEM_ALIGN_SIZE(s)

-----------------------------------------------------------------------------

\* What lies where there is no struct mem.
Data == [next |-> 0, prev |-> 0, used |-> FALSE]

\* mem_init.
Init ==
  /\ ram = [o \in Offsets |->
              CASE o = 0       -> [next |-> ram_end, prev |-> 0, used |-> FALSE]
                [] o = ram_end -> [next |-> ram_end, prev |-> ram_end, used |-> TRUE]
                [] OTHER       -> Data]
  /\ lfree = 0
  /\ pc = [c \in Contexts |-> "idle"]
  /\ arg = [c \in Contexts |-> 0] /\ size = [c \in Contexts |-> 0]
  /\ ptr = [c \in Contexts |-> 0] /\ cur = [c \in Contexts |-> 0]
  /\ live = [o \in Offsets |-> 0]
  /\ blocks = {0}

\* The handler runs to its end before main goes on.
MayRun(c) == c = "main" => \A d \in Contexts \ {"main"} : pc[d] = "idle"

At(c, here) == MayRun(c) /\ pc[c] = here

\* A struct mem that was joined to its neighbour keeps its contents, which only a
\* mem_malloc that was interrupted can still look at.
Forget(r, gone) ==
  IF \A c \in Contexts : pc[c] = "idle"
  THEN [o \in Offsets |-> IF o \in gone THEN Data ELSE r[o]]
  ELSE r

\* mem_malloc returns: its locals are dead.
Return(c) ==
  /\ pc' = [pc EXCEPT ![c] = "idle"]
  /\ arg' = [arg EXCEPT ![c] = 0] /\ size' = [size EXCEPT ![c] = 0]
  /\ ptr' = [ptr EXCEPT ![c] = 0] /\ cur' = [cur EXCEPT ![c] = 0]

-----------------------------------------------------------------------------

\* The entry of mem_malloc: sizes that are refused at once, and the scan's start.
CallMalloc(c, s) ==
  /\ At(c, "idle")
  /\ UNCHANGED heap
  /\ \/ /\ s = 0 \/ Rounded(s) > MEM_SIZE_ALIGNED
        /\ UNCHANGED locals
     \/ /\ s # 0 /\ Rounded(s) <= MEM_SIZE_ALIGNED
        /\ pc' = [pc EXCEPT ![c] = "scan"]
        /\ arg' = [arg EXCEPT ![c] = s]
        /\ size' = [size EXCEPT ![c] = Rounded(s)]
        /\ ptr' = [ptr EXCEPT ![c] = lfree]
        /\ UNCHANGED cur

\* Mutant: lfree is not lowered.
Lowered_Not(o) == lfree

\* lfree when the struct mem at o has become free.
Lowered(o) == IF o < lfree THEN o ELSE lfree

Fits(r, o, n) == ~r[o].used /\ Room(r, o) >= n

\* Mutant: the scan does not go on to the next struct mem.
Scan_Stuck(c) ==
  /\ At(c, "scan") /\ ptr[c] < MEM_SIZE_ALIGNED - size[c]
  /\ UNCHANGED <<heap, arg, size, ptr, cur>>
  /\ pc' = [pc EXCEPT ![c] = IF Fits(ram, ptr[c], size[c]) THEN "take" ELSE "scan"]

\* One iteration of the scan.
Scan(c) ==
  /\ At(c, "scan") /\ ptr[c] < MEM_SIZE_ALIGNED - size[c]
  /\ UNCHANGED <<heap, arg, size, cur>>
  /\ IF Fits(ram, ptr[c], size[c])
     THEN pc' = [pc EXCEPT ![c] = "take"] /\ UNCHANGED ptr
     ELSE ptr' = [ptr EXCEPT ![c] = ram[ptr[c]].next] /\ UNCHANGED pc

\* The scan ran out: NULL is returned.
NoRoom(c) ==
  /\ At(c, "scan") /\ ptr[c] >= MEM_SIZE_ALIGNED - size[c]
  /\ Return(c)
  /\ UNCHANGED heap

\* Mutant: the struct mem that follows is not linked back.
Insert_NoPrev(r, o, p2, next) ==
  [r EXCEPT ![p2] = [next |-> next, prev |-> o, used |-> FALSE], ![o].next = p2]

\* r with a free struct mem at p2 put in between o and next.
Insert(r, o, p2, next) ==
  LET s == [r EXCEPT ![p2] = [next |-> next, prev |-> o, used |-> FALSE],
                     ![o].next = p2]
  IN  IF next # ram_end THEN [s EXCEPT ![next].prev = p2] ELSE s

\* The block is split if what is left holds a struct mem and MIN_SIZE_ALIGNED.
Take(c) ==
  LET m     == ptr[c]
      p2    == m + SIZEOF_STRUCT_MEM + size[c]
      split == Room(ram, m) >= size[c] + SIZEOF_STRUCT_MEM + MIN_SIZE_ALIGNED
      r     == IF split THEN Insert(ram, m, p2, ram[m].next) ELSE ram
  IN  /\ At(c, "take")
      /\ ram' = [r EXCEPT ![m].used = TRUE]
      /\ live' = [live EXCEPT ![m] = arg[c]]
      /\ blocks' = IF split THEN blocks \cup {p2} ELSE blocks
      /\ UNCHANGED lfree
      /\ IF m = lfree
         THEN /\ pc' = [pc EXCEPT ![c] = "adjust"]
              /\ cur' = [cur EXCEPT ![c] = lfree]
              /\ UNCHANGED <<arg, size, ptr>>
         ELSE Return(c)

\* One iteration of the loop that looks for the next free struct mem.
Adjust(c) ==
  /\ At(c, "adjust") /\ ram[cur[c]].used /\ cur[c] # ram_end
  /\ cur' = [cur EXCEPT ![c] = ram[cur[c]].next]
  /\ UNCHANGED <<heap, pc, arg, size, ptr>>

Adjusted(c) ==
  /\ At(c, "adjust") /\ (~ram[cur[c]].used \/ cur[c] = ram_end)
  /\ lfree' = cur[c]
  /\ Return(c)
  /\ UNCHANGED <<ram, live, blocks>>

-----------------------------------------------------------------------------

\* r with the struct mem n, next above o, joined to o.
Join(r, o, n) == [[r EXCEPT ![o].next = r[n].next] EXCEPT ![r[n].next].prev = o]

\* Both halves of plug_holes: r and lfree after o was joined with a free neighbour.
PlugForward(r, l, o) ==
  LET n == r[o].next
  IN  IF n # o /\ ~r[n].used /\ n # ram_end
      THEN [ram |-> Join(r, o, n), lfree |-> IF l = n THEN o ELSE l, gone |-> {n}]
      ELSE [ram |-> r, lfree |-> l, gone |-> {}]

\* Mutant: a free struct mem below is left alone.
PlugBackward_Not(r, l, o) == [ram |-> r, lfree |-> l, gone |-> {}]

PlugBackward(r, l, o) ==
  LET p == r[o].prev
  IN  IF p # o /\ ~r[p].used
      THEN [ram |-> Join(r, p, o), lfree |-> IF l = o THEN p ELSE l, gone |-> {o}]
      ELSE [ram |-> r, lfree |-> l, gone |-> {}]

mem_free(c, o) ==
  LET forward == PlugForward([ram EXCEPT ![o].used = FALSE],
                             Lowered(o), o)
      plugged == PlugBackward(forward.ram, forward.lfree, o)
  IN  /\ At(c, "idle")
      /\ live[o] # 0
      /\ ram' = Forget(plugged.ram, forward.gone \cup plugged.gone)
      /\ lfree' = plugged.lfree
      /\ blocks' = blocks \ (forward.gone \cup plugged.gone)
      /\ live' = [live EXCEPT ![o] = 0]
      /\ UNCHANGED locals

\* mem_trim: the end of the region becomes free, as part of a free struct mem that
\* follows it or as one of its own if that is worth a struct mem.  A region cannot
\* grow: the call returns NULL then.  (pbuf_realloc, the only caller, never trims to 0.)
mem_trim(c, o, newsize) ==
  LET s    == Rounded(newsize)
      room == Room(ram, o)
      n    == ram[o].next
      p2   == o + SIZEOF_STRUCT_MEM + s
  IN  /\ At(c, "idle")
      /\ live[o] # 0 /\ newsize # 0
      /\ s <= MEM_SIZE_ALIGNED /\ s <= room
      /\ live' = [live EXCEPT ![o] = newsize]
      /\ UNCHANGED locals
      /\ CASE s # room /\ ~ram[n].used ->
                /\ ram' = Forget(Insert(ram, o, p2, ram[n].next), {n})
                /\ lfree' = IF lfree = n THEN p2 ELSE lfree
                /\ blocks' = (blocks \ {n}) \cup {p2}
           [] s # room /\ ram[n].used /\ s + SIZEOF_STRUCT_MEM + MIN_SIZE_ALIGNED <= room ->
                /\ ram' = Insert(ram, o, p2, n)
                /\ lfree' = Lowered(p2)
                /\ blocks' = blocks \cup {p2}
           [] OTHER -> UNCHANGED <<ram, lfree, blocks>>

-----------------------------------------------------------------------------

\* The steps of a mem_malloc in progress.
Continue(c) == Scan(c) \/ NoRoom(c) \/ Take(c) \/ Adjust(c) \/ Adjusted(c)

Next ==
  \E c \in Contexts :
    \/ Continue(c)
    \/ \E s \in Sizes : CallMalloc(c, s)
    \/ \E o \in blocks : mem_free(c, o)
    \/ \E o \in blocks, s \in Sizes : mem_trim(c, o, s)

\* A call goes on, a handler's before main's; nobody has to make one.
Spec == Init /\ [][Next]_vars /\ \A c \in Contexts : WF_vars(Continue(c))

-----------------------------------------------------------------------------

TypeOK ==
  /\ ram \in [Offsets -> [next : Offsets, prev : Offsets, used : BOOLEAN]]
  /\ lfree \in Offsets
  /\ pc \in [Contexts -> {"idle", "scan", "take", "adjust"}]
  /\ arg \in [Contexts -> 0 .. (MemSizeT - 1)]
  /\ size \in [Contexts -> 0 .. MEM_SIZE_ALIGNED]
  /\ ptr \in [Contexts -> Offsets] /\ cur \in [Contexts -> Offsets]
  /\ live \in [Offsets -> 0 .. (MemSizeT - 1)]
  /\ blocks \subseteq Offsets \ {ram_end}

\* next leads from each struct mem to the one above it, the last to ram_end, prev
\* leads back, and each has room for MIN_SIZE_ALIGNED.  (prev of ram_end is not
\* kept: mem_malloc and mem_trim skip it.)
ListIsLinked ==
  /\ 0 \in blocks
  /\ ram[0].prev = 0
  /\ ram[ram_end].used /\ ram[ram_end].next = ram_end
  /\ \A o \in blocks :
       /\ ram[o].next \in blocks \cup {ram_end}
       /\ Room(ram, o) >= MIN_SIZE_ALIGNED
       /\ \A b \in blocks : b <= o \/ ram[o].next <= b
       /\ ram[o].next # ram_end => ram[ram[o].next].prev = o
       /\ o # 0 => ram[o].prev \in blocks /\ ram[ram[o].prev].next = o

\* plug_holes leaves no two free struct mems side by side.
NoHoles == \A o \in blocks : ram[o].used \/ ram[ram[o].next].used

\* The struct mems in use are the regions handed out, and a region has the room
\* mem_malloc or mem_trim promised for it.
UsedIsLive ==
  \A o \in Offsets :
    /\ live[o] # 0 <=> o \in blocks /\ ram[o].used
    /\ live[o] # 0 => Rounded(live[o]) <= Room(ram, o)

\* lfree is the lowest free struct mem, or ram_end; while mem_malloc looks for it,
\* cur has not passed it.
LowestFree ==
  /\ lfree \in blocks \cup {ram_end}
  /\ \A c \in Contexts : pc[c] = "adjust" =>
       /\ cur[c] \in blocks \cup {ram_end}
       /\ \A o \in blocks : ~ram[o].used => cur[c] <= o
  /\ (\A c \in Contexts : pc[c] # "adjust") =>
       /\ lfree # ram_end => ~ram[lfree].used
       /\ \A o \in blocks : ~ram[o].used => lfree <= o

\* The scan has passed no free struct mem that is large enough, and the one it
\* takes is.
ScanIsSound ==
  \A c \in Contexts :
    /\ pc[c] \in {"scan", "take"} =>
         /\ ptr[c] \in blocks \cup {ram_end}
         /\ size[c] = Rounded(arg[c]) /\ arg[c] # 0
         /\ \A o \in blocks : o < ptr[c] => ~Fits(ram, o, size[c])
    /\ pc[c] = "take" => ptr[c] # ram_end /\ Fits(ram, ptr[c], size[c])

\* The list of mem.c is sound after every call and in the middle of one, whatever
\* sequence of mem_malloc, mem_free and mem_trim came before.
MemInv ==
  /\ TypeOK
  /\ ListIsLinked
  /\ NoHoles
  /\ UsedIsLive
  /\ LowestFree
  /\ ScanIsSound

\* The bytes of the region at o that its holder asked for.
Bytes(o) == (o + SIZEOF_STRUCT_MEM) .. (o + SIZEOF_STRUCT_MEM + live[o] - 1)

\* Can the size be rounded up in a mem_size_t?
Representable(s) == s + MEM_ALIGNMENT <= MemSizeT

\* No byte belongs to two holders, none lies outside the heap and none under a
\* struct mem, so long as the sizes asked for can be rounded up.
NoOverlap ==
  \A o \in Offsets : live[o] # 0 /\ Representable(live[o]) =>
    /\ Bytes(o) \subseteq 0 .. (MEM_SIZE_ALIGNED - 1)
    /\ \A b \in blocks : Bytes(o) \cap b .. (b + SIZEOF_STRUCT_MEM - 1) = {}
    /\ \A b \in Offsets \ {o} : Representable(live[b]) => Bytes(o) \cap Bytes(b) = {}

\* mem_malloc returns NULL after a scan only if no free struct mem is large enough,
\* those below where it started included.
RefusedRightly ==
  [][\A c \in Contexts : NoRoom(c) => \A o \in blocks : ~Fits(ram, o, size[c])]_vars

\* When everything was given back the heap is one free struct mem again: no
\* sequence of calls leaves it in pieces.
NothingLeaks ==
  (\A o \in Offsets : live[o] = 0) => blocks = {0} /\ ram[0].next = ram_end

\* Both loops of mem_malloc end.
MallocReturns == \A c \in Contexts : pc[c] # "idle" ~> pc[c] = "idle"

=============================================================================
