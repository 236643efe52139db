---------------------------- MODULE MemoryGroup ----------------------------
(***************************************************************************)
(* ppl7::MemoryGroup (src/src/core/MemoryGroup.cpp): blocks of the libc's  *)
(* heap, each with a header that is a node of a doubly linked list, so     *)
(* that all can be given back at once.  A block is named by its header.    *)
(***************************************************************************)
EXTENDS Naturals, Sequences, SequencesExt

CONSTANTS
  Blocks,   (* addresses at which the system may allocate a block          *)
  NULL,
  Sizes,    (* the sizes that are asked for                                *)
  mysize,   (* of a header                                                 *)
  Own       (* sizeof(MemoryGroup)                                         *)

VARIABLES
  list,     (* first, last, the links of the headers and the two counters  *)
  size,     (* of each block                                               *)
  live,     (* the blocks that are allocated                               *)
  order,    (* those the application has, in the order of their addition   *)
  passed,   (* how many of them clear has passed over                      *)
  life      (* of the object: constructed, destroyed, or the process ended *)

vars == <<list, size, live, order, passed, life>>

Empty == [first |-> NULL, last |-> NULL,
          next |-> [b \in Blocks |-> NULL], previous |-> [b \in Blocks |-> NULL],
          totalSize |-> Own, totalBlocks |-> 0]

Init ==
  /\ list = Empty
  /\ size = [b \in Blocks |-> 0]
  /\ live = {}
  /\ order = <<>> /\ passed = 0
  /\ life = "constructed"

(* if (b) b->field = v                                                     *)
Put(field, b, v) == IF b = NULL THEN field ELSE [field EXCEPT ![b] = v]

(* l with the block m, of n bytes, at its end.                             *)
addToList(l, m, n) ==
  [l EXCEPT !.previous[m] = l.last,
            !.next = Put([@ EXCEPT ![m] = NULL], l.last, m),
            !.last = m,
            !.first = IF @ = NULL THEN m ELSE @,
            !.totalSize = @ + n + mysize,
            !.totalBlocks = @ + 1]

removeFromList(l, m) ==
  [l EXCEPT !.next = Put(@, l.previous[m], l.next[m]),
            !.previous = Put(@, l.next[m], l.previous[m]),
            !.first = IF @ = m THEN l.next[m] ELSE @,
            !.last = IF @ = m THEN l.previous[m] ELSE @,
            !.totalSize = @ - (size[m] + mysize),
            !.totalBlocks = @ - 1]

Position(m) == CHOOSE i \in DOMAIN order : order[i] = m
Without(m) == RemoveAt(order, Position(m))
PassedWithout(m) == IF Position(m) <= passed THEN passed - 1 ELSE passed

-----------------------------------------------------------------------------
(* malloc, calloc, strdup and strndup; without memory, or for a size of 0, *)
(* an exception before anything is changed.                                *)
malloc(n) ==
  /\ n > 0
  /\ \E m \in Blocks \ live :
       /\ list' = addToList(list, m, n)
       /\ size' = [size EXCEPT ![m] = n]
       /\ live' = live \cup {m}
       /\ order' = Append(order, m)
  /\ UNCHANGED <<passed, life>>

(* A mistake: without memory the block does not come back into the list.   *)
reallocLosing(m, n) ==
  /\ \/ \E to \in {m} \cup (Blocks \ live) :
          /\ list' = addToList(removeFromList(list, m), to, n)
          /\ size' = [size EXCEPT ![to] = n]
          /\ live' = (live \ {m}) \cup {to}
          /\ order' = Append(Without(m), to)
     \/ /\ list' = removeFromList(list, m)
        /\ order' = Without(m)
        /\ UNCHANGED <<size, live>>
  /\ passed' = PassedWithout(m)
  /\ UNCHANGED life

(* The block leaves the list and comes back at its end, at another address *)
(* perhaps, and as it was when there is no memory.                         *)
realloc(m, n) ==
  /\ \/ \E to \in {m} \cup (Blocks \ live) :
          /\ list' = addToList(removeFromList(list, m), to, n)
          /\ size' = [size EXCEPT ![to] = n]
          /\ live' = (live \ {m}) \cup {to}
          /\ order' = Append(Without(m), to)
     \/ /\ list' = addToList(removeFromList(list, m), m, size[m])
        /\ order' = Append(Without(m), m)
        /\ UNCHANGED <<size, live>>
  /\ passed' = PassedWithout(m)
  /\ UNCHANGED life

free(m) ==
  /\ list' = removeFromList(list, m)
  /\ live' = live \ {m}
  /\ order' = Without(m)
  /\ passed' = PassedWithout(m)
  /\ UNCHANGED <<size, life>>

(* The call free(m) in the loop is that of the method, which takes the     *)
(* header for a block, looks for a header in front of it and throws: one   *)
(* block is passed over.  Without a first block everything is forgotten,   *)
(* and the pointers the application may still have are no longer valid.    *)
clear ==
  /\ \/ /\ list.first # NULL
        /\ list' = [list EXCEPT !.first = list.next[list.first]]
        /\ passed' = passed + 1
        /\ UNCHANGED order
     \/ /\ list.first = NULL
        /\ list' = [list EXCEPT !.last = NULL, !.totalSize = Own, !.totalBlocks = 0]
        /\ order' = <<>> /\ passed' = 0
  /\ UNCHANGED <<size, live, life>>

(* The exception leaves a destructor: std::terminate.                      *)
destructor ==
  /\ life' = IF list.first # NULL THEN "terminated" ELSE "destroyed"
  /\ order' = <<>> /\ passed' = 0
  /\ UNCHANGED <<list, size, live>>

Next ==
  /\ life = "constructed"
  /\ \/ \E n \in Sizes : malloc(n)
     \/ \E m \in ToSet(order) : free(m) \/ \E n \in Sizes : realloc(m, n)
     \/ clear
     \/ destructor

-----------------------------------------------------------------------------
(* What the object and the first i blocks of the list take.                *)
taken[i \in 0..Len(order)] ==
  IF i = 0 THEN Own ELSE taken[i - 1] + size[order[i]] + mysize

(* The list read from its end has every block the application holds, in    *)
(* the order of their (re)allocation: each can be freed and resized.  From *)
(* its start it has those that clear has not passed over; size and count   *)
(* agree with it.                                                          *)
Books ==
  LET n == Len(order)
      at(i) == IF i \in 1..n THEN order[i] ELSE NULL
  IN  life = "constructed" =>
        /\ ToSet(order) \subseteq live
        /\ list.first = at(passed + 1)
        /\ list.last = at(n)
        /\ \A i \in 1..n :
             list.previous[order[i]] = at(i - 1) /\ list.next[order[i]] = at(i + 1)
        /\ list.totalBlocks = n
        /\ list.totalSize = taken[n]

(* Blocks that are allocated and that nobody can give back any more.       *)
Lost == live \ ToSet(order)

(* clear and the destructor release every block ("werden sämtliche         *)
(* Speicherblöcke freigegeben", MemoryGroup.cpp 59-63, 102-103, 114-116).  *)
Releases ==
  /\ order' = <<>> /\ live' = Lost
  /\ life' = IF destructor THEN "destroyed" ELSE life

(* What they do instead as soon as the group has a block: they release     *)
(* none.  As long as there is a block clear has not passed over they throw,*)
(* and the destructor ends the process; after as many calls of clear as    *)
(* there were blocks they return, and all the blocks are lost.             *)
ReleasesNothing ==
  /\ order # <<>> /\ live' = live
  /\ IF passed < Len(order)
     THEN IF destructor THEN life' = "terminated"
          ELSE UNCHANGED <<order, life>> /\ passed' = passed + 1
     ELSE order' = <<>> /\ life' = IF destructor THEN "destroyed" ELSE life

(* The group keeps its books, whatever was called before and however often *)
(* clear has failed between, and no call loses a block but a clear or a    *)
(* destructor of a group that has one: these are documented to release     *)
(* all, and the code releases nothing.                                     *)
GroupKeepsBooks ==
  /\ []Books
  /\ [][IF clear \/ destructor THEN Releases \/ ReleasesNothing ELSE Lost' = Lost]_vars

=============================================================================
