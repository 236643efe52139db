----------------------------- MODULE MemoryHeap -----------------------------
(***************************************************************************)
(* ppl7::MemoryHeap (src/src/core/MemoryHeap.cpp): elements of one size    *)
(* out of blocks.  The blocks are a doubly linked list, from which         *)
(* cleanup() unlinks some in the middle; the free elements of a block are  *)
(* a chain that only its head is taken from and put back to, here a        *)
(* sequence.  The object belongs to one thread; a loop over the list is    *)
(* one step for each block, so that every pointer it follows can be seen.  *)
(***************************************************************************)
EXTENDS Naturals, Sequences, FiniteSets

CONSTANTS
  Blocks,        (* addresses at which the system may allocate a block     *)
  NULL,
  IncreaseSize,  (* init's increase                                        *)
  GrowPercent,   (* init's growpercent                                     *)
  Sizes,         (* arguments of init (startnum) and of reserve            *)
  CleanupAfter,  (* calls of free after which cleanup runs: 1000           *)
  MaxElements    (* bound: the system has no memory for a larger block     *)

ASSUME HeapAssumption ==
  /\ NULL \notin Blocks
  /\ IncreaseSize \in Nat \ {0}
  /\ GrowPercent \in Nat
  /\ Sizes \subseteq Nat
  /\ CleanupAfter \in Nat
  /\ MaxElements \in Nat

VARIABLES
  ready,            (* myElementSize is set                                *)
  blocks,           (* the first block                                     *)
  next, previous,   (* of each block                                       *)
  elements,         (* of each block: how many it has                      *)
  num_free,         (* of each block                                       *)
  free,             (* of each block: its free chain                       *)
  increaseSize,
  blocksAllocated, blocksUsed, freeCount,
  live,             (* the blocks that are allocated                       *)
  held,             (* the elements that the application has               *)
  pc,               (* the method that is executed                         *)
  bl,               (* its loop is at this block                           *)
  mem,              (* the element it is to free                           *)
  flag              (* cleanup has seen a block without elements in use    *)

list == <<blocks, next, previous, live>>
chains == <<elements, num_free, free>>
vars == <<ready, list, chains, increaseSize, blocksAllocated, blocksUsed,
          freeCount, held, pc, bl, mem, flag>>

Nothing == <<NULL, 0>>

Init ==
  /\ ready = FALSE
  /\ blocks = NULL
  /\ next = [b \in Blocks |-> NULL]
  /\ previous = [b \in Blocks |-> NULL]
  /\ elements = [b \in Blocks |-> 0]
  /\ num_free = [b \in Blocks |-> 0]
  /\ free = [b \in Blocks |-> <<>>]
  /\ increaseSize = 0
  /\ blocksAllocated = 0 /\ blocksUsed = 0 /\ freeCount = 0
  /\ live = {}
  /\ held = {}
  /\ pc = "idle" /\ bl = NULL /\ mem = Nothing /\ flag = FALSE

-----------------------------------------------------------------------------
(* A new block in front of the list, all of its elements in its chain.     *)
increase(b, num) ==
  /\ b \notin live
  /\ num <= MaxElements
  /\ live' = live \cup {b}
  /\ next' = [next EXCEPT ![b] = blocks]
  /\ previous' = [c \in Blocks |->
       IF c = b THEN NULL ELSE IF c = blocks THEN b ELSE previous[c]]
  /\ blocks' = b
  /\ elements' = [elements EXCEPT ![b] = num]
  /\ num_free' = [num_free EXCEPT ![b] = num]
  /\ free' = [free EXCEPT ![b] = [i \in 1..num |-> i - 1]]
  /\ blocksAllocated' = blocksAllocated + num

Idle == pc = "idle" /\ UNCHANGED <<pc, bl, mem, flag>>

(* When the first block cannot be had, the heap is ready all the same.     *)
init(num) ==
  /\ ~ready
  /\ ready' = TRUE
  /\ increaseSize' = IncreaseSize
  /\ \/ UNCHANGED <<list, chains, blocksAllocated>>
     \/ num > 0 /\ \E b \in Blocks : increase(b, num)
  /\ UNCHANGED <<blocksUsed, freeCount, held>>
  /\ Idle

reserve(num) ==
  /\ ready
  /\ num > blocksAllocated
  /\ \E b \in Blocks : increase(b, num - blocksAllocated)
  /\ UNCHANGED <<ready, increaseSize, blocksUsed, freeCount, held>>
  /\ Idle

-----------------------------------------------------------------------------
(* Loops: a call begins at the first block, goes on to the next one and    *)
(* comes to an end.                                                        *)

Begin(method, e) ==
  /\ ready
  /\ pc = "idle"
  /\ pc' = method
  /\ bl' = blocks
  /\ mem' = e
  /\ UNCHANGED <<flag, ready, list, chains, increaseSize, blocksAllocated,
                 blocksUsed, freeCount>>

AtBlock(method) == pc = method /\ bl # NULL
AtEnd(method) == pc = method /\ bl = NULL

Advance ==
  /\ bl' = next[bl]
  /\ UNCHANGED <<ready, list, chains, increaseSize, blocksAllocated, blocksUsed,
                 freeCount, held, pc, mem>>

Returns == pc' = "idle" /\ bl' = NULL /\ mem' = Nothing /\ flag' = FALSE

malloc == Begin("malloc", Nothing) /\ UNCHANGED held

(* The first block that has a free element gives the head of its chain.    *)
MallocTake ==
  /\ AtBlock("malloc")
  /\ num_free[bl] > 0
  /\ free' = [free EXCEPT ![bl] = Tail(@)]
  /\ num_free' = [num_free EXCEPT ![bl] = @ - 1]
  /\ blocksUsed' = blocksUsed + 1
  /\ held' = held \cup {<<bl, Head(free[bl])>>}
  /\ Returns
  /\ UNCHANGED <<ready, list, elements, increaseSize, blocksAllocated, freeCount>>

(* A mistake: only the first block is asked.                               *)
MallocNextFirst ==
  /\ AtBlock("malloc")
  /\ num_free[bl] = 0
  /\ bl' = NULL
  /\ UNCHANGED <<ready, list, chains, increaseSize, blocksAllocated, blocksUsed,
                 freeCount, held, pc, mem, flag>>

MallocNext == AtBlock("malloc") /\ num_free[bl] = 0 /\ Advance /\ UNCHANGED flag

(* The heap grows and malloc begins again.                                 *)
MallocGrow ==
  /\ AtEnd("malloc")
  /\ \E b \in Blocks : increase(b, increaseSize) /\ bl' = b
  /\ increaseSize' = increaseSize + (increaseSize * GrowPercent) \div 100
  /\ UNCHANGED <<ready, blocksUsed, freeCount, held, pc, mem, flag>>

(* A mistake: malloc searches again until it has an element.               *)
OutOfMemoryAgain ==
  /\ AtEnd("malloc")
  /\ bl' = blocks
  /\ UNCHANGED <<ready, list, chains, increaseSize, blocksAllocated, blocksUsed,
                 freeCount, held, pc, mem, flag>>

(* increase gets no memory, and malloc throws what it throws.              *)
OutOfMemory ==
  /\ AtEnd("malloc")
  /\ Returns
  /\ UNCHANGED <<ready, list, chains, increaseSize, blocksAllocated, blocksUsed,
                 freeCount, held>>

(* Addresses in a buffer, or at its end, at which no element begins.       *)
Strays == {<<b, elements[b]>> : b \in live}

(* An element that the application has, an address of another heap, or one *)
(* that belongs to none.                                                   *)
Addresses == held \cup {Nothing} \cup Strays
Free(e) == Begin("free", e) /\ UNCHANGED held

(* The element becomes the head of its block's chain.  Now and then the    *)
(* same call cleans up.                                                    *)
FreeTake ==
  /\ AtBlock("free") /\ mem[1] = bl
  /\ mem[2] < elements[bl]
  /\ free' = [free EXCEPT ![bl] = <<mem[2]>> \o @]
  /\ num_free' = [num_free EXCEPT ![bl] = @ + 1]
  /\ held' = held \ {mem}
  /\ blocksUsed' = blocksUsed - 1
  /\ freeCount' = freeCount + 1
  /\ IF freeCount + 1 > CleanupAfter
     THEN pc' = "cleanup" /\ bl' = blocks /\ mem' = Nothing /\ flag' = FALSE
     ELSE Returns
  /\ UNCHANGED <<ready, list, elements, increaseSize, blocksAllocated>>

(* Another address is compared with what the books say of it; that what is *)
(* behind the books of the last element happens to be the end of the       *)
(* buffer is left out.                                                     *)
HeapCorrupted ==
  /\ AtBlock("free") /\ mem[1] = bl
  /\ mem[2] >= elements[bl]
  /\ Returns
  /\ UNCHANGED <<ready, list, chains, increaseSize, blocksAllocated, blocksUsed,
                 freeCount, held>>

FreeNext == AtBlock("free") /\ mem[1] # bl /\ Advance /\ UNCHANGED flag

ElementNotInHeap ==
  /\ AtEnd("free")
  /\ Returns
  /\ UNCHANGED <<ready, list, chains, increaseSize, blocksAllocated, blocksUsed,
                 freeCount, held>>

-----------------------------------------------------------------------------
cleanup == Begin("cleanup", Nothing) /\ UNCHANGED held

(* A mistake: one element too few is asked for.                            *)
UnusedNearly(b) == num_free[b] + 1 >= elements[b]

Unused(b) == num_free[b] = elements[b]

(* A mistake: only a block before this one counts.                         *)
CleanupKeepLast ==
  /\ AtBlock("cleanup")
  /\ ~ (Unused(bl) /\ flag)
  /\ flag' = Unused(bl)
  /\ Advance

CleanupKeep ==
  /\ AtBlock("cleanup")
  /\ ~ (Unused(bl) /\ flag)
  /\ flag' = (flag \/ Unused(bl))
  /\ Advance

(* What a block that is given back to the system held is gone.             *)
Release ==
  /\ live' = live \ {bl}
  /\ elements' = [elements EXCEPT ![bl] = 0]
  /\ num_free' = [num_free EXCEPT ![bl] = 0]
  /\ free' = [free EXCEPT ![bl] = <<>>]

(* A mistake: the successor keeps its pointer to the deleted block.        *)
UnlinkForward ==
  /\ next' = [c \in Blocks |->
       IF c = bl THEN NULL ELSE IF c = previous[bl] THEN next[bl] ELSE next[c]]
  /\ previous' = [previous EXCEPT ![bl] = NULL]
  /\ blocks' = IF bl = blocks THEN next[bl] ELSE blocks

(* A mistake: the list ends in front of the deleted block.                 *)
UnlinkTail ==
  /\ next' = [c \in Blocks |->
       IF c = bl \/ c = previous[bl] THEN NULL ELSE next[c]]
  /\ previous' = [c \in Blocks |->
       IF c = bl THEN NULL ELSE IF c = next[bl] THEN previous[bl] ELSE previous[c]]
  /\ blocks' = IF bl = blocks THEN next[bl] ELSE blocks

Unlink ==
  /\ next' = [c \in Blocks |->
       IF c = bl THEN NULL ELSE IF c = previous[bl] THEN next[bl] ELSE next[c]]
  /\ previous' = [c \in Blocks |->
       IF c = bl THEN NULL ELSE IF c = next[bl] THEN previous[bl] ELSE previous[c]]
  /\ blocks' = IF bl = blocks THEN next[bl] ELSE blocks

(* A mistake: the elements of the deleted block still count.               *)
CleanupDeleteCounted ==
  /\ AtBlock("cleanup")
  /\ Unused(bl) /\ flag
  /\ Unlink
  /\ Release
  /\ bl' = next[bl]
  /\ UNCHANGED <<ready, increaseSize, blocksAllocated, blocksUsed, freeCount,
                 held, pc, mem, flag>>

(* Of the blocks without elements in use all but the first are deleted.    *)
CleanupDelete ==
  /\ AtBlock("cleanup")
  /\ Unused(bl) /\ flag
  /\ Unlink
  /\ Release
  /\ blocksAllocated' = blocksAllocated - elements[bl]
  /\ bl' = next[bl]
  /\ UNCHANGED <<ready, increaseSize, blocksUsed, freeCount, held, pc, mem, flag>>

CleanupEnd ==
  /\ AtEnd("cleanup")
  /\ freeCount' = 0
  /\ Returns
  /\ UNCHANGED <<ready, list, chains, increaseSize, blocksAllocated, blocksUsed, held>>

(* The elements lose their validity with the call.                         *)
clear == Begin("clear", Nothing) /\ held' = {}

ClearDelete ==
  /\ AtBlock("clear")
  /\ Release
  /\ next' = [next EXCEPT ![bl] = NULL]
  /\ previous' = [previous EXCEPT ![bl] = NULL]
  /\ bl' = next[bl]
  /\ UNCHANGED <<ready, blocks, increaseSize, blocksAllocated, blocksUsed,
                 freeCount, held, pc, mem, flag>>

ClearEnd ==
  /\ AtEnd("clear")
  /\ blocks' = NULL
  /\ blocksAllocated' = 0 /\ blocksUsed' = 0 /\ freeCount' = 0
  /\ Returns
  /\ UNCHANGED <<ready, next, previous, live, chains, increaseSize, held>>

Call ==
  \/ \E num \in Sizes : init(num) \/ reserve(num)
  \/ malloc \/ cleanup \/ clear
  \/ \E e \in Addresses : Free(e)

Step ==
  \/ MallocTake \/ MallocNext \/ MallocGrow \/ OutOfMemory
  \/ FreeTake \/ HeapCorrupted \/ FreeNext \/ ElementNotInHeap
  \/ CleanupKeep \/ CleanupDelete \/ CleanupEnd
  \/ ClearDelete \/ ClearEnd

Next == Call \/ Step

Spec == Init /\ [][Next]_vars
FairSpec == Spec /\ WF_vars(Step)

-----------------------------------------------------------------------------
Pointers == Blocks \cup {NULL}

(* The values of the variables.  The count of frees does not go on after   *)
(* the limit: it is reset in the same call.                                *)
TypeOK ==
  /\ ready \in BOOLEAN
  /\ blocks \in Pointers
  /\ next \in [Blocks -> Pointers]
  /\ previous \in [Blocks -> Pointers]
  /\ elements \in [Blocks -> Nat]
  /\ num_free \in [Blocks -> Nat]
  /\ free \in [Blocks -> Seq(Nat)]
  /\ increaseSize \in Nat
  /\ blocksAllocated \in Nat
  /\ blocksUsed \in Nat
  /\ freeCount \in Nat
  /\ freeCount > CleanupAfter => pc = "cleanup"
  /\ live \subseteq Blocks
  /\ held \subseteq Blocks \X Nat
  /\ pc \in {"idle", "malloc", "free", "cleanup", "clear"}
  /\ bl \in Pointers
  /\ mem \in Pointers \X Nat
  /\ flag \in BOOLEAN

(* Nothing points to a block that was given back to the system: no element *)
(* the application has, no pointer of the list, and none that the loop of  *)
(* cleanup or clear, which give blocks back while they walk, goes on with. *)
NoDanglingPointer ==
  /\ bl \in live \cup {NULL}
  /\ \A e \in held : e[1] \in live
  /\ \A b \in live : next[b] \in live \cup {NULL}
  /\ pc # "clear" =>
       /\ blocks \in live \cup {NULL}
       /\ \A b \in live : previous[b] \in live \cup {NULL}

InUse(b) == {e \in held : e[1] = b}

(* The free elements of a block and those in use are all it has, none      *)
(* twice, and count() and the number of free ones agree with them.         *)
ChainsAreComplete ==
  pc # "clear" =>
    /\ blocksUsed = Cardinality(held)
    /\ \A b \in live :
         /\ num_free[b] = Len(free[b])
         /\ num_free[b] + Cardinality(InUse(b)) = elements[b]
         /\ \A i, j \in DOMAIN free[b] : free[b][i] = free[b][j] => i = j
         /\ \A i \in DOMAIN free[b] : free[b][i] < elements[b] /\ <<b, free[b][i]>> \notin held

(* Every block that is allocated can be reached from the first one: free   *)
(* finds its elements and clear gives it back.                             *)
NoBlockLost ==
  pc # "clear" =>
    \A S \in SUBSET live :
      blocks \in S \cup {NULL} /\ (\A b \in S : next[b] \in S \cup {NULL}) => S = live

Owned == {e \in live \X (0..MaxElements) : e[2] < elements[e[1]]}

(* capacity() is the number of elements of the allocated blocks.           *)
CapacityAgrees == pc # "clear" => blocksAllocated = Cardinality(Owned)

(* The books of the heap: chains, elements in use and both counters agree  *)
(* with the blocks that are allocated, whichever of them come and go.      *)
HeapKeepsBooks == ChainsAreComplete /\ CapacityAgrees

(* cleanup leaves no more than one block without elements in use, and      *)
(* keeps one if there was one.                                             *)
KeepsReserve ==
  [][pc = "cleanup" =>
       /\ live' # live => \E b \in live' : Unused(b)'
       /\ pc' = "idle" => \A b, c \in live : Unused(b) /\ Unused(c) => b = c]_vars

(* malloc asks the system for memory only when every element is in use.    *)
GrowsOnlyWhenFull ==
  [][pc = "malloc" /\ live' # live => \A b \in live : num_free[b] = 0]_vars

(* The heap is a pool of elements: none is handed out twice.               *)
Pool == INSTANCE ElementPool WITH
  Elements <- Blocks \X (0..MaxElements),
  inUse <- held,
  count <- IF pc = "clear" THEN 0 ELSE blocksUsed

ImplementsPool == Pool!Spec

(* Every call comes to an end: the loops over the list do.                 *)
CallsReturn == pc # "idle" ~> pc = "idle"

=============================================================================
