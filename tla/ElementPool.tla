---------------------------- MODULE ElementPool ----------------------------
(***************************************************************************)
(* What ppl7::MemoryHeap is for: elements are handed out, one that is in   *)
(* use is never handed out again, and it stays in use until it is given    *)
(* back, alone or with all others; count is what count() returns.  How the *)
(* heap finds a free one is not said here.                                 *)
(***************************************************************************)
EXTENDS Naturals

CONSTANT Elements
VARIABLES inUse, count

Init == inUse = {} /\ count = 0

(* malloc() and calloc().                                                  *)
Take == (\E e \in Elements \ inUse : inUse' = inUse \cup {e}) /\ count' = count + 1

(* free().                                                                 *)
Give == (\E e \in inUse : inUse' = inUse \ {e}) /\ count' = count - 1

(* clear().                                                                *)
GiveAll == inUse' = {} /\ count' = 0

Next == Take \/ Give \/ GiveAll

Spec == Init /\ [][Next]_<<inUse, count>>

=============================================================================
