-------------------------- MODULE MemoryHeapProofs --------------------------
(***************************************************************************)
(* The invariants of MemoryHeap hold, and it implements ElementPool, for   *)
(* any number of blocks, any sizes and any limit of cleanup.               *)
(*                                                                         *)
(* The list is described by what holds at each block (Linked); that it has *)
(* no cycle and reaches all blocks follows from ranks that grow along it   *)
(* (Ranked), of which a set of blocks has a least one.                     *)
(***************************************************************************)
EXTENDS MemoryHeap, FiniteSetTheorems, SequenceTheorems, WellFoundedInduction, TLAPS

(* While clear deletes the blocks, the list begins where clear is.         *)
First == IF pc = "clear" THEN bl ELSE blocks

Linked ==
  /\ First \in live \cup {NULL}
  /\ bl \in live \cup {NULL}
  /\ \A b \in live :
       /\ next[b] \in live \cup {NULL}
       /\ next[b] # NULL => previous[next[b]] = b
       /\ b = First => previous[b] \notin live /\ (pc # "clear" => previous[b] = NULL)
       /\ b # First => previous[b] \in live /\ next[previous[b]] = b

Ranked ==
  \E rank \in [Blocks -> Nat] :
    \A b \in live : next[b] # NULL => rank[b] < rank[next[b]]

Elements ==
  /\ \A e \in held : e[1] \in live /\ e[2] < elements[e[1]]
  /\ IsFiniteSet(held)
  /\ pc = "clear" => held = {}
  /\ pc = "free" => mem \in Addresses
  /\ \A b \in live : elements[b] <= MaxElements

Counted == IsFiniteSet(live) /\ CapacityAgrees

HeapInv == TypeOK /\ Linked /\ Ranked /\ Elements /\ ChainsAreComplete /\ Counted

-----------------------------------------------------------------------------
(* Any non-empty set of naturals has a least element.                      *)
LEMMA LeastElement ==
  ASSUME NEW T \in SUBSET Nat, T # {}
  PROVE  \E x \in T : \A y \in T : x <= y
<1>1. PICK x \in T : \A y \in T : ~ (<<y, x>> \in OpToRel(<, Nat))
  BY NatLessThanWellFounded, WFMin
<1>2. \A y \in T : ~ (y < x)
  BY <1>1 DEF OpToRel
<1> QED
  BY <1>2

(* The blocks from which the first one and the successors of a set of      *)
(* blocks are left out are none at all.                                    *)
LEMMA AllReached ==
  ASSUME HeapInv, NEW S \in SUBSET live, First \in S \cup {NULL},
         \A b \in S : next[b] \in S \cup {NULL}
  PROVE  S = live
<1>1. PICK rank \in [Blocks -> Nat] :
        \A b \in live : next[b] # NULL => rank[b] < rank[next[b]]
  BY DEF HeapInv, Ranked
<1>2. SUFFICES ASSUME live \ S # {} PROVE FALSE
  OBVIOUS
<1> DEFINE T == {rank[b] : b \in live \ S}
<1>3. PICK b \in live \ S : \A c \in live \ S : rank[b] <= rank[c]
  <2>1. T \in SUBSET Nat /\ T # {}
    BY <1>1, <1>2 DEF HeapInv, TypeOK
  <2>2. PICK x \in T : \A y \in T : x <= y
    BY <2>1, LeastElement
  <2> QED
    BY <2>2
<1>4. NULL \notin live
  BY HeapAssumption DEF HeapInv, TypeOK
<1>5. previous[b] \in live /\ next[previous[b]] = b
  BY <1>3, <1>4 DEF HeapInv, Linked
<1>6. rank[previous[b]] < rank[b]
  BY <1>1, <1>4, <1>5
<1>7. rank[previous[b]] \in Nat /\ rank[b] \in Nat
  BY <1>1, <1>3, <1>5 DEF HeapInv, TypeOK
<1>8. previous[b] \in S
  BY <1>3, <1>5, <1>6, <1>7
<1> QED
  BY <1>3, <1>4, <1>5, <1>8

-----------------------------------------------------------------------------
(* The list after each kind of change.                                     *)

(* Ranks can make room for a new first block.                              *)
LEMMA ShiftedRank ==
  ASSUME NEW rank \in [Blocks -> Nat], NEW b \in Blocks
  PROVE  \E up \in [Blocks -> Nat] :
           \A c, d \in Blocks :
             d # b /\ (c = b \/ rank[c] < rank[d]) => up[c] < up[d]
<1> DEFINE up == [c \in Blocks |-> IF c = b THEN 0 ELSE rank[c] + 1]
<1>1. \A c \in Blocks : rank[c] \in Nat
  OBVIOUS
<1>2. \A c \in Blocks : up[c] \in Nat /\ up[c] = (IF c = b THEN 0 ELSE rank[c] + 1)
  BY <1>1
<1>3. up \in [Blocks -> Nat]
  BY <1>2
<1>4. ASSUME NEW c \in Blocks, NEW d \in Blocks, d # b, c = b \/ rank[c] < rank[d]
      PROVE  up[c] < up[d]
  BY <1>1, <1>2, <1>4
<1> HIDE DEF up
<1> QED
  BY <1>3, <1>4

(* increase puts the new block in front of the first one.                  *)
LEMMA IncreaseList ==
  ASSUME HeapInv, pc # "clear", pc' # "clear", NEW b \in Blocks, NEW num \in Nat,
         increase(b, num), bl' \in live' \cup {NULL}
  PROVE  Linked' /\ Ranked'
<1> USE DEF HeapInv, TypeOK, increase, Pointers
<1>1. NULL \notin Blocks /\ b \notin live /\ live \subseteq Blocks
  BY HeapAssumption
<1>2. First = blocks /\ First' = b /\ live' = live \cup {b}
  BY DEF First
<1>3. blocks # NULL => previous[blocks] = NULL /\ blocks \in live
  BY <1>1, <1>2 DEF Linked
<1>4. \A c \in live' :
        /\ next'[c] = (IF c = b THEN blocks ELSE next[c])
        /\ previous'[c] = (IF c = b THEN NULL ELSE IF c = blocks THEN b ELSE previous[c])
  BY <1>1
<1>5. Linked'
  <2>1. First' \in live' \cup {NULL} /\ bl' \in live' \cup {NULL}
    BY <1>2
  <2>2. ASSUME NEW c \in live'
        PROVE  /\ next'[c] \in live' \cup {NULL}
               /\ next'[c] # NULL => previous'[next'[c]] = c
               /\ c = b => previous'[c] \notin live' /\ (pc' # "clear" => previous'[c] = NULL)
               /\ c # b => previous'[c] \in live' /\ next'[previous'[c]] = c
    <3>1. CASE c = b
      BY <1>1, <1>2, <1>3, <1>4, <3>1
    <3>2. CASE c # b
      <4>1. c \in live
        BY <1>2, <3>2
      <4>2. next[c] # NULL => next[c] # blocks /\ next[c] \in live /\ previous[next[c]] = c
        BY <1>1, <1>2, <1>3, <4>1 DEF Linked
      <4>3. next'[c] = next[c] /\ (next[c] # NULL => previous'[next[c]] = c)
        BY <1>1, <1>2, <1>4, <3>2, <4>1, <4>2 DEF Linked
      <4>4. CASE c = blocks
        BY <1>1, <1>2, <1>4, <3>2, <4>1, <4>2, <4>3, <4>4 DEF Linked
      <4>5. CASE c # blocks
        <5>1. previous[c] \in live /\ next[previous[c]] = c
          BY <1>2, <4>1, <4>5 DEF Linked
        <5> QED
          BY <1>1, <1>2, <1>4, <3>2, <4>1, <4>2, <4>3, <4>5, <5>1
      <4> QED
        BY <4>4, <4>5
    <3> QED
      BY <3>1, <3>2
  <2> QED
    BY <1>2, <2>1, <2>2 DEF Linked
<1>6. Ranked'
  <2>1. PICK rank \in [Blocks -> Nat] :
          \A c \in live : next[c] # NULL => rank[c] < rank[next[c]]
    BY DEF Ranked
  <2>2. PICK up \in [Blocks -> Nat] :
          \A c, d \in Blocks :
            d # b /\ (c = b \/ rank[c] < rank[d]) => up[c] < up[d]
    BY <2>1, ShiftedRank
  <2>3. ASSUME NEW c \in live', next'[c] # NULL
        PROVE  up[c] < up[next'[c]]
    <3>1. CASE c = b
      BY <1>1, <1>3, <1>4, <2>2, <2>3, <3>1
    <3>2. CASE c # b
      <4>1. c \in live /\ next'[c] = next[c] /\ next[c] \in live
        BY <1>2, <1>4, <2>3, <3>2 DEF Linked
      <4> QED
        BY <1>1, <2>1, <2>2, <2>3, <4>1
    <3> QED
      BY <3>1, <3>2
  <2> QED
    BY <2>2, <2>3 DEF Ranked
<1> QED
  BY <1>5, <1>6

(* The block that cleanup deletes is neither its own neighbour nor are its *)
(* two neighbours the same.                                                *)
LEMMA UnlinkList ==
  ASSUME HeapInv, CleanupDelete
  PROVE  Linked' /\ Ranked'
<1> USE DEF HeapInv, TypeOK, Pointers
<1> DEFINE x == bl
           p == previous[bl]
           n == next[bl]
<1>1. NULL \notin Blocks /\ live \subseteq Blocks /\ x \in live
  BY HeapAssumption DEF CleanupDelete, AtBlock, Linked
<1>2. /\ pc = "cleanup" /\ pc' = "cleanup"
      /\ live' = live \ {x}
      /\ bl' = n
      /\ blocks' = IF x = blocks THEN n ELSE blocks
  BY DEF CleanupDelete, AtBlock, Unlink, Release
<1>3. \A c \in live' :
        /\ next'[c] = (IF c = p THEN n ELSE next[c])
        /\ previous'[c] = (IF c = n THEN p ELSE previous[c])
  BY <1>1, <1>2 DEF CleanupDelete, Unlink
<1>4. First = blocks /\ First' = blocks'
  BY <1>2 DEF First
<1>5. PICK rank \in [Blocks -> Nat] :
        \A c \in live : next[c] # NULL => rank[c] < rank[next[c]]
  BY DEF Ranked
<1>a. \A c \in Blocks : rank[c] \in Nat
  BY <1>5
<1>6. /\ n \in live \cup {NULL}
      /\ n # NULL => previous[n] = x /\ rank[x] < rank[n] /\ n # x
      /\ x = blocks => p = NULL
      /\ x # blocks => p \in live /\ next[p] = x /\ rank[p] < rank[x] /\ p # x
  BY <1>1, <1>2, <1>4, <1>5, <1>a DEF Linked
<1>7. n # NULL => n # p
  BY <1>1, <1>6, <1>a
<1>8. Linked'
  <2>1. First' \in live' \cup {NULL} /\ bl' \in live' \cup {NULL}
    BY <1>1, <1>2, <1>4, <1>6 DEF Linked
  <2>2. ASSUME NEW c \in live'
        PROVE  /\ next'[c] \in live' \cup {NULL}
               /\ next'[c] # NULL => previous'[next'[c]] = c
               /\ c = blocks' => previous'[c] \notin live' /\ previous'[c] = NULL
               /\ c # blocks' => previous'[c] \in live' /\ next'[previous'[c]] = c
    <3>1. /\ c \in live /\ c # x
          /\ next[c] \in live \cup {NULL}
          /\ next[c] # NULL => previous[next[c]] = c
          /\ c = blocks => previous[c] = NULL
          /\ c # blocks => previous[c] \in live /\ next[previous[c]] = c
      BY <1>1, <1>2, <1>4 DEF Linked
    <3>2. next[c] = x => c = p
      BY <1>1, <3>1
    <3>3. next'[c] \in live' \cup {NULL} /\ (next'[c] # NULL => previous'[next'[c]] = c)
      <4>1. CASE c = p
        BY <1>1, <1>2, <1>3, <1>6, <1>7, <4>1
      <4>2. CASE c # p
        BY <1>1, <1>2, <1>3, <1>6, <3>1, <3>2, <4>2
      <4> QED
        BY <4>1, <4>2
    <3>4. c = blocks' => previous'[c] \notin live' /\ previous'[c] = NULL
      BY <1>1, <1>2, <1>3, <1>6, <3>1
    <3>5. ASSUME c # blocks'
          PROVE  previous'[c] \in live' /\ next'[previous'[c]] = c
      <4>1. CASE c = n
        BY <1>1, <1>2, <1>3, <1>6, <1>7, <3>1, <3>5, <4>1
      <4>2. CASE c # n
        <5>1. c # blocks
          BY <1>2, <3>1, <3>5
        <5>2. previous[c] \in live /\ next[previous[c]] = c /\ previous[c] # x
          BY <3>1, <4>2, <5>1
        <5>3. previous[c] # p
          BY <1>1, <1>6, <3>1, <5>2
        <5> QED
          BY <1>2, <1>3, <4>2, <5>2, <5>3
      <4> QED
        BY <4>1, <4>2
    <3> QED
      BY <3>3, <3>4, <3>5
  <2> QED
    BY <1>2, <1>4, <2>1, <2>2 DEF Linked
<1>9. Ranked'
  <2>1. ASSUME NEW c \in live', next'[c] # NULL
        PROVE  rank[c] < rank[next'[c]]
    <3>1. CASE c = p
      <4>1. next'[c] = n /\ rank[c] < rank[x] /\ rank[x] < rank[n]
        BY <1>1, <1>2, <1>3, <1>6, <2>1, <3>1
      <4>2. c \in Blocks /\ x \in Blocks /\ n \in Blocks
        BY <1>1, <1>2, <1>6, <2>1, <4>1
      <4> QED
        BY <1>a, <4>1, <4>2
    <3>2. CASE c # p
      BY <1>2, <1>3, <1>5, <2>1, <3>2
    <3> QED
      BY <3>1, <3>2
  <2> QED
    BY <1>5, <2>1 DEF Ranked
<1> QED
  BY <1>8, <1>9

(* clear deletes the block at which the list now begins.                   *)
LEMMA ClearList ==
  ASSUME HeapInv, ClearDelete
  PROVE  Linked' /\ Ranked'
<1> USE DEF HeapInv, TypeOK, Pointers
<1>1. NULL \notin Blocks /\ live \subseteq Blocks /\ bl \in live
  BY HeapAssumption DEF ClearDelete, AtBlock, Linked
<1>2. /\ pc = "clear" /\ pc' = "clear" /\ First = bl /\ First' = next[bl]
      /\ live' = live \ {bl} /\ bl' = next[bl]
      /\ \A c \in live' : next'[c] = next[c] /\ previous'[c] = previous[c]
  BY <1>1 DEF ClearDelete, AtBlock, Release, First
<1>3. /\ next[bl] \in live \cup {NULL}
      /\ next[bl] # NULL => previous[next[bl]] = bl
      /\ previous[bl] \notin live
      /\ next[bl] # bl
  BY <1>1, <1>2 DEF Linked
<1>4. Linked'
  <2>1. ASSUME NEW c \in live'
        PROVE  /\ next'[c] \in live' \cup {NULL}
               /\ next'[c] # NULL => previous'[next'[c]] = c
               /\ c = next[bl] => previous'[c] \notin live'
               /\ c # next[bl] => previous'[c] \in live' /\ next'[previous'[c]] = c
    <3>1. c \in live /\ c # bl
      BY <1>2
    <3>2. next[c] # bl
      BY <1>1, <1>3, <3>1 DEF Linked
    <3>3. /\ next[c] \in live' \cup {NULL}
          /\ next[c] # NULL => previous[next[c]] = c
          /\ c = next[bl] => previous[c] \notin live'
          /\ c # next[bl] => previous[c] \in live' /\ next[previous[c]] = c
      BY <1>1, <1>2, <1>3, <3>1, <3>2 DEF Linked
    <3> QED
      BY <1>1, <1>2, <3>3
  <2> QED
    BY <1>2, <1>3, <2>1 DEF Linked
<1>5. Ranked'
  BY <1>2 DEF Ranked
<1> QED
  BY <1>4, <1>5

-----------------------------------------------------------------------------
(* Chains.                                                                 *)

Distinct(s) == \A i, j \in DOMAIN s : s[i] = s[j] => i = j

(* A chain that loses its head keeps the rest.                             *)
LEMMA WithoutHead ==
  ASSUME NEW s \in Seq(Nat), Len(s) > 0, Distinct(s)
  PROVE  /\ Head(s) \in Nat /\ Tail(s) \in Seq(Nat)
         /\ Len(Tail(s)) = Len(s) - 1
         /\ Distinct(Tail(s))
         /\ 1 \in DOMAIN s /\ Head(s) = s[1]
         /\ \A i \in DOMAIN Tail(s) :
              i + 1 \in DOMAIN s /\ Tail(s)[i] = s[i + 1] /\ Tail(s)[i] # Head(s)
<1>1. s # <<>> /\ DOMAIN s = 1..Len(s) /\ Len(s) \in Nat
  BY EmptySeq, LenProperties
<1>2. /\ Head(s) \in Nat /\ Tail(s) \in Seq(Nat) /\ Len(Tail(s)) = Len(s) - 1
      /\ \A i \in 1..Len(Tail(s)) : Tail(s)[i] = s[i + 1]
  BY <1>1, HeadTailProperties
<1>3. DOMAIN Tail(s) = 1..(Len(s) - 1)
  BY <1>2, LenProperties
<1>4. Head(s) = s[1]
  OBVIOUS
<1>5. \A i \in 1..(Len(s) - 1) : i + 1 \in DOMAIN s /\ i + 1 # 1
  BY <1>1
<1> QED
  BY <1>1, <1>2, <1>3, <1>4, <1>5 DEF Distinct

(* A chain that gets a head it did not have.                               *)
LEMMA WithHead ==
  ASSUME NEW s \in Seq(Nat), NEW x \in Nat, Distinct(s),
         \A i \in DOMAIN s : s[i] # x
  PROVE  /\ <<x>> \o s \in Seq(Nat)
         /\ Len(<<x>> \o s) = Len(s) + 1
         /\ Distinct(<<x>> \o s)
         /\ \A i \in DOMAIN (<<x>> \o s) :
              (<<x>> \o s)[i] = x \/ \E j \in DOMAIN s : (<<x>> \o s)[i] = s[j]
<1> DEFINE t == <<x>> \o s
<1>1. DOMAIN s = 1..Len(s) /\ Len(s) \in Nat
  BY LenProperties
<1>2. <<x>> \in Seq(Nat) /\ Len(<<x>>) = 1 /\ <<x>>[1] = x
  OBVIOUS
<1>3. /\ t \in Seq(Nat) /\ Len(t) = 1 + Len(s)
      /\ \A i \in 1..(1 + Len(s)) : t[i] = IF i <= 1 THEN <<x>>[i] ELSE s[i - 1]
  BY <1>2, ConcatProperties
<1>4. DOMAIN t = 1..(1 + Len(s))
  BY <1>3, LenProperties
<1> HIDE DEF t
<1>5. \A i \in DOMAIN t : (i = 1 /\ t[i] = x) \/ (i - 1 \in DOMAIN s /\ t[i] = s[i - 1])
  BY <1>1, <1>2, <1>3, <1>4
<1>6. Distinct(t)
  <2>1. SUFFICES ASSUME NEW i \in DOMAIN t, NEW j \in DOMAIN t, t[i] = t[j] PROVE i = j
    BY DEF Distinct
  <2>2. i \in Nat /\ j \in Nat
    BY <1>1, <1>4
  <2> QED
    BY <1>5, <2>1, <2>2 DEF Distinct
<1>7. \A i \in DOMAIN t : t[i] = x \/ \E j \in DOMAIN s : t[i] = s[j]
  BY <1>5
<1> QED
  BY <1>1, <1>3, <1>6, <1>7 DEF t

(* The elements of a block are as many as it has.                          *)
LEMMA BlockElements ==
  ASSUME NEW b, NEW n \in Nat, n <= MaxElements,
         NEW E, E = {e \in {b} \X (0..MaxElements) : e[2] < n}
  PROVE  IsFiniteSet(E) /\ Cardinality(E) = n
<1>1. E = {b} \X (0..(n - 1))
  <2>1. MaxElements \in Nat
    BY HeapAssumption
  <2>2. \A i : (i \in 0..MaxElements /\ i < n) <=> i \in 0..(n - 1)
    BY <2>1
  <2> QED
    BY <2>2
<1>2. IsFiniteSet(0..(n - 1)) /\ Cardinality(0..(n - 1)) = n
  BY FS_Interval
<1>3. IsFiniteSet({b}) /\ Cardinality({b}) = 1
  BY FS_Singleton
<1>4. IsFiniteSet({b} \X (0..(n - 1))) /\ Cardinality({b} \X (0..(n - 1))) = 1 * n
  BY <1>2, <1>3, FS_Product
<1>5. 1 * n = n
  OBVIOUS
<1> QED
  BY <1>1, <1>4, <1>5

(* What finitely many blocks have is finite.                               *)
LEMMA OwnedIsFinite ==
  ASSUME IsFiniteSet(live)
  PROVE  IsFiniteSet(Owned)
<1>1. IsFiniteSet(0..MaxElements)
  BY HeapAssumption, FS_Interval
<1>2. IsFiniteSet(live \X (0..MaxElements))
  BY <1>1, FS_Product
<1>3. Owned \subseteq live \X (0..MaxElements)
  BY DEF Owned
<1> QED
  BY <1>2, <1>3, FS_Subset

-----------------------------------------------------------------------------
(* What the heap owns.                                                     *)

OneChain(b) ==
  /\ num_free[b] = Len(free[b])
  /\ num_free[b] + Cardinality(InUse(b)) = elements[b]
  /\ Distinct(free[b])
  /\ \A i \in DOMAIN free[b] : free[b][i] < elements[b] /\ <<b, free[b][i]>> \notin held

(* The conjuncts of ChainsAreComplete for one block, with a name.          *)
LEMMA ChainsOf ==
  ChainsAreComplete <=>
    (pc # "clear" => blocksUsed = Cardinality(held) /\ \A b \in live : OneChain(b))
  BY DEF ChainsAreComplete, OneChain, Distinct

(* A step that changes neither the blocks nor what is in use.              *)
LEMMA Unchanged ==
  ASSUME HeapInv, TypeOK', UNCHANGED <<list, chains, blocksAllocated, blocksUsed, held>>,
         (pc = "clear") = (pc' = "clear"),
         First' = First, bl' \in live \cup {NULL},
         pc' = "free" => mem' \in Addresses
  PROVE  HeapInv'
<1> USE DEF HeapInv, list, chains
<1>1. Linked'
  BY DEF Linked
<1>2. Ranked'
  BY DEF Ranked
<1>3. Elements'
  BY DEF Elements, Addresses, Strays, Nothing
<1>4. ChainsAreComplete'
  BY DEF ChainsAreComplete, InUse
<1>5. Counted'
  BY DEF Counted, CapacityAgrees, Owned
<1> QED
  BY <1>1, <1>2, <1>3, <1>4, <1>5

(* A step that takes or gives back elements of one block.                  *)
LEMMA OneBlock ==
  ASSUME HeapInv, TypeOK', pc # "clear", pc' # "clear", pc' # "free", NEW x \in live,
         UNCHANGED <<list, elements, blocksAllocated>>, bl' \in live \cup {NULL},
         \A b \in live : b # x => free'[b] = free[b] /\ num_free'[b] = num_free[b],
         \A e : e[1] # x => (e \in held' <=> e \in held),
         \A e \in held' : e[1] \in live /\ e[2] < elements[e[1]], IsFiniteSet(held'),
         blocksUsed' = Cardinality(held'),
         OneChain(x)'
  PROVE  HeapInv'
<1> USE DEF HeapInv, list
<1>1. Linked'
  BY DEF Linked, First
<1>2. Ranked'
  BY DEF Ranked
<1>3. Elements'
  BY DEF Elements
<1>4. ChainsAreComplete'
  <2>1. ASSUME NEW b \in live, b # x
        PROVE  OneChain(b)'
    <3>1. OneChain(b) /\ free'[b] = free[b] /\ num_free'[b] = num_free[b] /\ elements'[b] = elements[b]
      BY <2>1, ChainsOf
    <3>2. InUse(b)' = InUse(b)
      BY <2>1 DEF InUse
    <3>3. \A i : <<b, i>> \in held' <=> <<b, i>> \in held
      BY <2>1
    <3> QED
      BY <3>1, <3>2, <3>3 DEF OneChain
  <2>2. \A b \in live' : OneChain(b)'
    BY <2>1
  <2> QED
    BY <2>2 DEF ChainsAreComplete, OneChain, Distinct
<1>5. Counted'
  BY DEF Counted, CapacityAgrees, Owned
<1> QED
  BY <1>1, <1>2, <1>3, <1>4, <1>5

-----------------------------------------------------------------------------
(* The steps.                                                              *)

(* The values that a variable has when it points nowhere.                  *)
LEMMA NothingIsTyped ==
  Nothing \in Pointers \X Nat /\ NULL \in Pointers /\ <<>> \in Seq(Nat)
  BY EmptySeq DEF Nothing, Pointers

(* The new heap.                                                           *)
LEMMA InitInv == Init => HeapInv
<1> SUFFICES ASSUME Init PROVE HeapInv
  OBVIOUS
<1> USE DEF Init
<1>1. TypeOK
  <2>1. /\ mem \in Pointers \X Nat /\ bl \in Pointers /\ blocks \in Pointers
        /\ next \in [Blocks -> Pointers] /\ previous \in [Blocks -> Pointers]
    BY NothingIsTyped
  <2>2. /\ free \in [Blocks -> Seq(Nat)]
        /\ elements \in [Blocks -> Nat] /\ num_free \in [Blocks -> Nat]
    BY NothingIsTyped
  <2>3. freeCount \in Nat /\ ~ (freeCount > CleanupAfter)
    BY HeapAssumption
  <2> QED
    BY <2>1, <2>2, <2>3 DEF TypeOK
<1>2. Linked
  BY DEF Linked, First
<1>3. Ranked
  <2>1. [b \in Blocks |-> 0] \in [Blocks -> Nat]
    OBVIOUS
  <2> QED
    BY <2>1 DEF Ranked
<1>4. Elements
  BY FS_EmptySet DEF Elements
<1>5. ChainsAreComplete
  BY FS_EmptySet DEF ChainsAreComplete
<1>6. Counted
  <2>1. Owned = {}
    BY DEF Owned
  <2> QED
    BY <2>1, FS_EmptySet DEF Counted, CapacityAgrees
<1> QED
  BY <1>1, <1>2, <1>3, <1>4, <1>5, <1>6 DEF HeapInv

(* malloc, cleanup and free begin.                                         *)
LEMMA BeginInv ==
  ASSUME HeapInv, NEW method \in {"malloc", "cleanup", "free"},
         NEW e \in Addresses, Begin(method, e), UNCHANGED held
  PROVE  HeapInv'
<1> USE DEF HeapInv, Begin
<1>1. TypeOK'
  <2>1. e \in Pointers \X Nat
    BY NothingIsTyped DEF TypeOK, Pointers, Addresses, Strays
  <2> QED
    BY <2>1 DEF TypeOK, list, chains
<1>2. bl' \in live \cup {NULL} /\ First' = First
  BY DEF Linked, First, list
<1> QED
  BY <1>1, <1>2, Unchanged

(* clear begins: the list begins where its loop is.                        *)
LEMMA ClearInv ==
  ASSUME HeapInv, clear
  PROVE  HeapInv'
<1> USE DEF HeapInv, clear, Begin, list, chains
<1>1. TypeOK'
  BY DEF TypeOK, Pointers, Nothing
<1>2. Linked'
  BY HeapAssumption DEF Linked, First, TypeOK
<1>3. Ranked'
  BY DEF Ranked
<1>4. Elements'
  BY FS_EmptySet DEF Elements
<1>5. ChainsAreComplete'
  BY DEF ChainsAreComplete
<1>6. Counted'
  BY DEF Counted, CapacityAgrees
<1> QED
  BY <1>1, <1>2, <1>3, <1>4, <1>5, <1>6

(* A loop goes on with the next block.                                     *)
LEMMA AdvanceInv ==
  ASSUME HeapInv, MallocNext \/ FreeNext \/ CleanupKeep
  PROVE  HeapInv'
<1> USE DEF HeapInv, MallocNext, FreeNext, CleanupKeep, Advance, AtBlock
<1>1. TypeOK'
  BY DEF TypeOK, list, chains, Pointers, Unused
<1>2. bl \in live /\ bl' \in live \cup {NULL} /\ First' = First
  BY DEF Linked, First, list
<1>3. /\ UNCHANGED <<list, chains, blocksAllocated, blocksUsed, held>>
      /\ pc' = pc /\ mem' = mem /\ pc # "clear"
  OBVIOUS
<1>4. pc' = "free" => mem' \in Addresses
  BY <1>3 DEF Elements
<1> QED
  BY <1>1, <1>2, <1>3, <1>4, Unchanged

(* malloc or free throws, or cleanup returns.                              *)
LEMMA ReturnInv ==
  ASSUME HeapInv, OutOfMemory \/ HeapCorrupted \/ ElementNotInHeap \/ CleanupEnd
  PROVE  HeapInv'
<1> USE DEF HeapInv, OutOfMemory, HeapCorrupted, ElementNotInHeap, CleanupEnd, Returns, AtBlock, AtEnd
<1>1. TypeOK'
  <2>1. mem' \in Pointers \X Nat /\ bl' \in Pointers /\ flag' \in BOOLEAN
    BY NothingIsTyped
  <2>2. freeCount' \in Nat /\ (freeCount' > CleanupAfter => pc' = "cleanup")
    BY HeapAssumption DEF TypeOK
  <2> QED
    BY <2>1, <2>2 DEF TypeOK, list, chains
<1>2. bl' \in live \cup {NULL} /\ First' = First
  BY DEF First, list
<1>3. /\ UNCHANGED <<list, chains, blocksAllocated, blocksUsed, held>>
      /\ pc' = "idle" /\ pc # "clear"
  OBVIOUS
<1> QED
  BY <1>1, <1>2, <1>3, Unchanged

(* clear deletes a block.                                                  *)
LEMMA ClearDeleteInv ==
  ASSUME HeapInv, ClearDelete
  PROVE  HeapInv'
<1>1. Linked' /\ Ranked'
  BY ClearList
<1> USE DEF HeapInv, ClearDelete, AtBlock, Release
<1>2. TypeOK'
  BY DEF TypeOK, Pointers
<1>3. Elements'
  BY DEF Elements
<1>4. ChainsAreComplete'
  BY DEF ChainsAreComplete
<1>5. Counted'
  BY FS_Subset DEF Counted, CapacityAgrees
<1> QED
  BY <1>1, <1>2, <1>3, <1>4, <1>5

(* Without a block left for clear to delete there is none at all.          *)
LEMMA ClearEndInv ==
  ASSUME HeapInv, ClearEnd
  PROVE  HeapInv'
<1>1. live = {}
  <2>1. First = NULL
    BY DEF First, ClearEnd, AtEnd
  <2>2. \A S \in SUBSET live : S = {} => S = live
    BY <2>1, AllReached
  <2>3. {} \in SUBSET live
    OBVIOUS
  <2> QED
    BY <2>2, <2>3
<1> USE DEF HeapInv, ClearEnd, AtEnd, Returns, chains
<1>2. TypeOK'
  <2>1. mem' \in Pointers \X Nat /\ bl' \in Pointers /\ blocks' \in Pointers
    BY NothingIsTyped
  <2>2. freeCount' \in Nat /\ ~ (freeCount' > CleanupAfter)
    BY HeapAssumption DEF TypeOK
  <2> QED
    BY <2>1, <2>2 DEF TypeOK
<1>3. Linked' /\ Ranked'
  BY <1>1 DEF Linked, First, Ranked
<1>4. Elements'
  BY <1>1 DEF Elements
<1>5. ChainsAreComplete'
  BY <1>1, FS_EmptySet DEF ChainsAreComplete, Elements
<1>6. Counted'
  <2>1. Owned' = {}
    BY <1>1 DEF Owned
  <2> QED
    BY <1>1, <2>1, FS_EmptySet DEF Counted, CapacityAgrees
<1> QED
  BY <1>2, <1>3, <1>4, <1>5, <1>6

(* The elements of the new block are one of the two parts of what is owned *)
(* afterwards.                                                             *)
LEMMA IncreaseInv ==
  ASSUME HeapInv, pc # "clear", pc' # "clear", NEW b \in Blocks, NEW num \in Nat,
         increase(b, num), bl' \in live' \cup {NULL}, TypeOK',
         UNCHANGED <<blocksUsed, held>>,
         pc' = "free" => mem' \in Addresses
  PROVE  HeapInv'
<1>1. Linked' /\ Ranked'
  BY IncreaseList
<1> USE DEF HeapInv, increase
<1>2. /\ b \notin live /\ num <= MaxElements /\ live' = live \cup {b}
      /\ \A c \in live : elements'[c] = elements[c] /\ num_free'[c] = num_free[c] /\ free'[c] = free[c]
      /\ elements'[b] = num /\ num_free'[b] = num /\ free'[b] = [i \in 1..num |-> i - 1]
  BY DEF TypeOK
<1>3. Elements'
  BY <1>2 DEF Elements, Addresses, Strays, Nothing
<1>4. ChainsAreComplete'
  <2>1. ASSUME NEW c \in live
        PROVE  OneChain(c)'
    <3>1. OneChain(c) /\ InUse(c)' = InUse(c) /\ held' = held
      BY ChainsOf DEF InUse
    <3>2. elements'[c] = elements[c] /\ num_free'[c] = num_free[c] /\ free'[c] = free[c]
      BY <1>2
    <3> HIDE DEF increase, HeapInv
    <3> QED
      BY <3>1, <3>2 DEF OneChain
  <2>2. OneChain(b)'
    <3>1. free'[b] \in Seq(Nat) /\ Len(free'[b]) = num /\ DOMAIN free'[b] = 1..num
      BY <1>2, LenProperties DEF TypeOK
    <3>2. InUse(b)' = {}
      BY <1>2 DEF Elements, InUse
    <3>3. Cardinality(InUse(b)') = 0 /\ num + 0 = num
      BY <3>2, FS_EmptySet
    <3>4. \A i \in 1..num : free'[b][i] = i - 1 /\ i - 1 < num
      BY <1>2
    <3>5. Distinct(free'[b])
      BY <3>1, <3>4 DEF Distinct
    <3>6. \A i \in DOMAIN free'[b] : free'[b][i] < elements'[b] /\ <<b, free'[b][i]>> \notin held'
      BY <1>2, <3>1, <3>4 DEF Elements
    <3>7. elements'[b] = num /\ num_free'[b] = num
      BY <1>2
    <3> HIDE DEF increase, HeapInv
    <3> QED
      BY <3>1, <3>3, <3>5, <3>6, <3>7 DEF OneChain
  <2>3. blocksUsed' = Cardinality(held')
    BY ChainsOf
  <2>4. \A c \in live' : OneChain(c)'
    BY <1>2, <2>1, <2>2
  <2> QED
    BY <2>3, <2>4 DEF ChainsAreComplete, OneChain, Distinct
<1>5. Counted'
  <2> DEFINE E == {e \in {b} \X (0..MaxElements) : e[2] < num}
  <2>1. IsFiniteSet(E) /\ Cardinality(E) = num
    BY <1>2, BlockElements
  <2>2. IsFiniteSet(Owned) /\ Cardinality(Owned) = blocksAllocated
    BY OwnedIsFinite DEF Counted, CapacityAgrees
  <2>3. Owned' = Owned \cup E /\ Owned \cap E = {}
    BY <1>2 DEF Owned
  <2>4. IsFiniteSet(live')
    BY <1>2, FS_AddElement DEF Counted
  <2> HIDE DEF E
  <2>5. Cardinality(Owned \cup E) = blocksAllocated + num - 0
    BY <2>1, <2>2, <2>3, FS_Union, FS_EmptySet
  <2> QED
    BY <2>3, <2>4, <2>5 DEF Counted, CapacityAgrees, TypeOK
<1> QED
  BY <1>1, <1>3, <1>4, <1>5

(* increase keeps the types.                                               *)
LEMMA IncreaseIsTyped ==
  ASSUME TypeOK, NEW b \in Blocks, NEW num \in Nat, increase(b, num)
  PROVE  /\ blocks' \in Pointers
         /\ next' \in [Blocks -> Pointers] /\ previous' \in [Blocks -> Pointers]
         /\ elements' \in [Blocks -> Nat] /\ num_free' \in [Blocks -> Nat]
         /\ free' \in [Blocks -> Seq(Nat)]
         /\ blocksAllocated' \in Nat /\ live' \subseteq Blocks
<1>1. [i \in 1..num |-> i - 1] \in Seq(Nat)
  OBVIOUS
<1> QED
  BY <1>1 DEF TypeOK, increase, Pointers

(* init and reserve, with memory or without.                               *)
LEMMA InitReserveInv ==
  ASSUME HeapInv, NEW num \in Nat, init(num) \/ reserve(num)
  PROVE  HeapInv'
<1> USE DEF HeapInv, init, reserve, Idle
<1>1. pc = "idle" /\ UNCHANGED <<pc, bl, mem, blocksUsed, held, flag, freeCount>>
  OBVIOUS
<1>2. CASE UNCHANGED <<list, chains, blocksAllocated>>
  <2>1. TypeOK'
    <3>1. ready' \in BOOLEAN /\ increaseSize' \in Nat
      BY HeapAssumption DEF TypeOK
    <3> QED
      BY <1>1, <1>2, <3>1 DEF TypeOK, list, chains
  <2>2. First' = First /\ bl' \in live \cup {NULL}
    BY <1>1, <1>2 DEF First, Linked, list
  <2> QED
    BY <1>1, <1>2, <2>1, <2>2, Unchanged
<1>3. CASE \E b \in Blocks, n \in Nat : increase(b, n)
  <2>1. PICK b \in Blocks, n \in Nat : increase(b, n)
    BY <1>3
  <2>2. TypeOK'
    <3>1. ready' \in BOOLEAN /\ increaseSize' \in Nat
      BY HeapAssumption DEF TypeOK
    <3> QED
      BY <1>1, <2>1, <3>1, IncreaseIsTyped DEF TypeOK
  <2>3. bl' \in live' \cup {NULL}
    BY <1>1, <2>1 DEF Linked, increase
  <2> QED
    BY <1>1, <2>1, <2>2, <2>3, IncreaseInv
<1> QED
  <2>1. reserve(num) => num - blocksAllocated \in Nat
    BY DEF TypeOK
  <2> QED
    BY <1>2, <1>3, <2>1

(* The increase of the next time is a number.                              *)
LEMMA GrownSize ==
  ASSUME NEW m \in Nat, NEW p \in Nat
  PROVE  m + (m * p) \div 100 \in Nat
<1>1. m * p \in Nat
  OBVIOUS
<1>2. \A k \in Nat : k \div 100 \in Nat
  OBVIOUS
<1> QED
  BY <1>1, <1>2

(* malloc finds nothing free and the heap grows.                           *)
LEMMA MallocGrowInv ==
  ASSUME HeapInv, MallocGrow
  PROVE  HeapInv'
<1> USE DEF HeapInv, MallocGrow, AtEnd
<1>1. PICK b \in Blocks : increase(b, increaseSize) /\ bl' = b
  OBVIOUS
<1>2. increaseSize \in Nat /\ increaseSize' \in Nat
  BY HeapAssumption, GrownSize DEF TypeOK
<1>3. TypeOK'
  BY <1>1, <1>2, IncreaseIsTyped DEF TypeOK, Pointers
<1>4. bl' \in live'
  BY <1>1 DEF increase
<1> QED
  BY <1>1, <1>2, <1>3, <1>4, IncreaseInv

(* malloc takes an element: one that nobody has.                           *)
LEMMA MallocTakeInv ==
  ASSUME HeapInv, MallocTake
  PROVE  /\ HeapInv'
         /\ <<bl, Head(free[bl])>> \in (Blocks \X (0..MaxElements)) \ held
<1> DEFINE h == Head(free[bl])
           e == <<bl, h>>
<1> USE DEF HeapInv
<1>1. /\ bl \in live /\ bl \in Blocks /\ pc = "malloc" /\ num_free[bl] > 0
      /\ free[bl] \in Seq(Nat) /\ num_free[bl] \in Nat /\ elements[bl] \in Nat
  BY HeapAssumption DEF MallocTake, AtBlock, Linked, TypeOK
<1>2. OneChain(bl) /\ blocksUsed = Cardinality(held)
  BY <1>1, ChainsOf
<1>3. /\ h \in Nat /\ Tail(free[bl]) \in Seq(Nat)
      /\ Len(Tail(free[bl])) = Len(free[bl]) - 1
      /\ Distinct(Tail(free[bl]))
      /\ 1 \in DOMAIN free[bl] /\ h = free[bl][1]
      /\ \A i \in DOMAIN Tail(free[bl]) :
           /\ i + 1 \in DOMAIN free[bl]
           /\ Tail(free[bl])[i] = free[bl][i + 1]
           /\ Tail(free[bl])[i] # h
  BY <1>1, <1>2, WithoutHead DEF OneChain
<1>4. h < elements[bl] /\ e \notin held
  BY <1>2, <1>3 DEF OneChain
<1>5. h <= MaxElements
  BY <1>1, <1>3, <1>4, HeapAssumption DEF Elements
<1>6. /\ UNCHANGED <<ready, list, elements, increaseSize, blocksAllocated, freeCount>>
      /\ pc' = "idle" /\ bl' = NULL /\ mem' = Nothing /\ flag' = FALSE
      /\ held' = held \cup {e}
      /\ blocksUsed' = blocksUsed + 1
      /\ free' = [free EXCEPT ![bl] = Tail(@)]
      /\ num_free' = [num_free EXCEPT ![bl] = @ - 1]
  BY DEF MallocTake, Returns
<1>7. free'[bl] = Tail(free[bl]) /\ num_free'[bl] = num_free[bl] - 1
  BY <1>1, <1>6 DEF TypeOK
<1> HIDE DEF h
<1>8. TypeOK'
  <2>1. mem' \in Pointers \X Nat /\ bl' \in Pointers
    BY <1>6, NothingIsTyped
  <2>2. num_free' \in [Blocks -> Nat] /\ free' \in [Blocks -> Seq(Nat)]
    BY <1>1, <1>3, <1>6 DEF TypeOK
  <2>3. held' \subseteq Blocks \X Nat
    BY <1>1, <1>3, <1>6 DEF TypeOK
  <2>4. blocksUsed' \in Nat /\ ~ (freeCount' > CleanupAfter)
    BY <1>1, <1>6, HeapAssumption DEF TypeOK
  <2> QED
    BY <1>6, <2>1, <2>2, <2>3, <2>4 DEF TypeOK, list
<1>9. IsFiniteSet(held') /\ blocksUsed' = Cardinality(held')
  BY <1>2, <1>4, <1>6, FS_AddElement DEF Elements
<1>10. ASSUME NEW x \in live, x = bl
       PROVE  OneChain(x)'
  <2>1. InUse(x)' = InUse(x) \cup {e}
    BY <1>6, <1>10 DEF InUse
  <2>2. IsFiniteSet(InUse(x)) /\ e \notin InUse(x)
    BY <1>4, FS_Subset DEF InUse, Elements
  <2>3. /\ Cardinality(InUse(x)) \in Nat
        /\ Cardinality(InUse(x)') = Cardinality(InUse(x)) + 1
    BY <2>1, <2>2, FS_AddElement, FS_CardinalityType
  <2>4. /\ num_free'[x] = Len(free'[x])
        /\ num_free'[x] + Cardinality(InUse(x)') = elements'[x]
    <3>1. /\ num_free[x] = Len(free[x]) /\ num_free[x] \in Nat
          /\ num_free[x] + Cardinality(InUse(x)) = elements[x]
      BY <1>1, <1>2, <1>10 DEF OneChain
    <3>2. /\ num_free'[x] = num_free[x] - 1 /\ elements'[x] = elements[x]
          /\ Len(free'[x]) = Len(free[x]) - 1
      BY <1>3, <1>6, <1>7, <1>10
    <3> HIDE DEF HeapInv
    <3> QED
      BY <2>3, <3>1, <3>2
  <2>5. Distinct(free'[x])
    BY <1>3, <1>7, <1>10
  <2>6. ASSUME NEW k \in DOMAIN free'[x]
        PROVE  free'[x][k] < elements'[x] /\ <<x, free'[x][k]>> \notin held'
    <3>1. /\ k + 1 \in DOMAIN free[x] /\ free'[x][k] = free[x][k + 1] /\ free'[x][k] # h
      BY <1>3, <1>7, <1>10, <2>6
    <3>2. free[x][k + 1] < elements[x] /\ <<x, free[x][k + 1]>> \notin held
      BY <1>2, <1>10, <3>1 DEF OneChain
    <3> HIDE DEF HeapInv
    <3> QED
      BY <1>6, <1>10, <3>1, <3>2
  <2> HIDE DEF HeapInv
  <2> QED
    BY <2>4, <2>5, <2>6 DEF OneChain
<1>11. PICK x \in live : x = bl
  BY <1>1
<1>12. OneChain(x)'
  BY <1>10, <1>11
<1>13. HeapInv'
  <2>1. \A b \in live : b # x => free'[b] = free[b] /\ num_free'[b] = num_free[b]
    BY <1>6, <1>11 DEF TypeOK
  <2>2. \A f : f[1] # x => (f \in held' <=> f \in held)
    BY <1>6, <1>11
  <2>3. \A f \in held' : f[1] \in live /\ f[2] < elements[f[1]]
    BY <1>1, <1>4, <1>6 DEF Elements
  <2>4. pc' # "clear" /\ pc' # "free" /\ bl' = NULL
    BY <1>6
  <2> QED
    BY <1>1, <1>6, <1>8, <1>9, <1>12, <2>1, <2>2, <2>3, <2>4, OneBlock
<1>14. e \in (Blocks \X (0..MaxElements)) \ held
  BY <1>1, <1>3, <1>4, <1>5, HeapAssumption
<1> QED
  BY <1>13, <1>14 DEF h

(* free puts back an element: one that the application had.                *)
LEMMA FreeTakeInv ==
  ASSUME HeapInv, FreeTake
  PROVE  HeapInv' /\ mem \in held
<1> DEFINE h == mem[2]
<1> USE DEF HeapInv
<1>1. /\ bl \in live /\ bl \in Blocks /\ pc = "free" /\ mem[1] = bl
      /\ free[bl] \in Seq(Nat) /\ num_free[bl] \in Nat /\ elements[bl] \in Nat
  BY HeapAssumption DEF FreeTake, AtBlock, Linked, TypeOK
<1>2. OneChain(bl) /\ blocksUsed = Cardinality(held)
  BY <1>1, ChainsOf
<1>3. mem \in held /\ mem = <<bl, h>> /\ h \in Nat
  <2>1. mem \in Addresses /\ h < elements[bl]
    BY <1>1 DEF Elements, FreeTake
  <2>2. mem \notin Strays
    BY <1>1, <2>1 DEF Strays, TypeOK
  <2> QED
    BY <1>1, <2>1, <2>2, HeapAssumption DEF Addresses, Nothing, TypeOK
<1>4. \A i \in DOMAIN free[bl] : free[bl][i] # h
  BY <1>2, <1>3 DEF OneChain
<1>5. /\ <<h>> \o free[bl] \in Seq(Nat)
      /\ Len(<<h>> \o free[bl]) = Len(free[bl]) + 1
      /\ Distinct(<<h>> \o free[bl])
      /\ \A i \in DOMAIN (<<h>> \o free[bl]) :
           \/ (<<h>> \o free[bl])[i] = h
           \/ \E j \in DOMAIN free[bl] : (<<h>> \o free[bl])[i] = free[bl][j]
  BY <1>1, <1>2, <1>3, <1>4, WithHead DEF OneChain
<1>6. /\ UNCHANGED <<ready, list, elements, increaseSize, blocksAllocated>>
      /\ held' = held \ {mem}
      /\ blocksUsed' = blocksUsed - 1
      /\ freeCount' = freeCount + 1
      /\ free' = [free EXCEPT ![bl] = <<h>> \o @]
      /\ num_free' = [num_free EXCEPT ![bl] = @ + 1]
      /\ \/ pc' = "cleanup" /\ bl' = blocks
         \/ pc' = "idle" /\ bl' = NULL /\ ~ (freeCount' > CleanupAfter)
      /\ mem' = Nothing /\ flag' = FALSE
  BY DEF FreeTake, Returns
<1>7. free'[bl] = <<h>> \o free[bl] /\ num_free'[bl] = num_free[bl] + 1
  BY <1>1, <1>6 DEF TypeOK
<1>8. /\ IsFiniteSet(held) /\ Cardinality(held) \in Nat
      /\ IsFiniteSet(held') /\ Cardinality(held') \in Nat
      /\ Cardinality(held') = Cardinality(held) - 1
  BY <1>3, <1>6, FS_RemoveElement, FS_CardinalityType DEF Elements
<1>9. TypeOK'
  <2>1. mem' \in Pointers \X Nat /\ bl' \in Pointers
    BY <1>6, NothingIsTyped DEF TypeOK
  <2>2. num_free' \in [Blocks -> Nat] /\ free' \in [Blocks -> Seq(Nat)]
    BY <1>1, <1>5, <1>6 DEF TypeOK
  <2>3. held' \subseteq Blocks \X Nat
    BY <1>6 DEF TypeOK
  <2>4. blocksUsed' \in Nat /\ freeCount' \in Nat
    BY <1>2, <1>6, <1>8 DEF TypeOK
  <2> QED
    BY <1>6, <2>1, <2>2, <2>3, <2>4 DEF TypeOK, list
<1>10. ASSUME NEW x \in live, x = bl
       PROVE  OneChain(x)'
  <2>1. InUse(x)' = InUse(x) \ {mem} /\ mem \in InUse(x)
    BY <1>3, <1>6, <1>10 DEF InUse
  <2>2. IsFiniteSet(InUse(x))
    BY FS_Subset DEF InUse, Elements
  <2>3. /\ Cardinality(InUse(x)) \in Nat
        /\ Cardinality(InUse(x)') = Cardinality(InUse(x)) - 1
    BY <2>1, <2>2, FS_RemoveElement, FS_CardinalityType
  <2>4. /\ num_free'[x] = Len(free'[x])
        /\ num_free'[x] + Cardinality(InUse(x)') = elements'[x]
    BY <1>1, <1>2, <1>5, <1>6, <1>7, <1>10, <2>3, LenProperties DEF OneChain
  <2>5. Distinct(free'[x])
    BY <1>5, <1>7, <1>10
  <2>6. ASSUME NEW k \in DOMAIN free'[x]
        PROVE  free'[x][k] < elements'[x] /\ <<x, free'[x][k]>> \notin held'
    BY <1>1, <1>2, <1>3, <1>5, <1>6, <1>7, <1>10, <2>6 DEF OneChain, Elements
  <2> HIDE DEF HeapInv
  <2> QED
    BY <2>4, <2>5, <2>6 DEF OneChain
<1>11. PICK x \in live : x = bl
  BY <1>1
<1>12. OneChain(x)'
  BY <1>10, <1>11
<1>13. HeapInv'
  <2>1. \A b \in live : b # x => free'[b] = free[b] /\ num_free'[b] = num_free[b]
    BY <1>6, <1>11 DEF TypeOK
  <2>2. \A f : f[1] # x => (f \in held' <=> f \in held)
    BY <1>1, <1>6, <1>11
  <2>3. \A f \in held' : f[1] \in live /\ f[2] < elements[f[1]]
    BY <1>6 DEF Elements
  <2>4. pc' # "clear" /\ pc' # "free" /\ bl' \in live \cup {NULL} /\ pc # "clear"
    BY <1>1, <1>6 DEF Linked, First
  <2> QED
    BY <1>2, <1>6, <1>8, <1>9, <1>12, <2>1, <2>2, <2>3, <2>4, OneBlock
<1> QED
  BY <1>3, <1>13

(* The deleted block has no element in use, so nothing the application has *)
(* goes with it.                                                           *)
LEMMA CleanupDeleteInv ==
  ASSUME HeapInv, CleanupDelete
  PROVE  HeapInv'
<1>1. Linked' /\ Ranked'
  BY UnlinkList
<1> USE DEF HeapInv
<1>2. /\ bl \in live /\ bl \in Blocks /\ pc = "cleanup" /\ num_free[bl] = elements[bl]
      /\ num_free[bl] \in Nat /\ elements[bl] \in Nat
  BY HeapAssumption DEF CleanupDelete, AtBlock, Unused, Linked, TypeOK
<1>3. /\ UNCHANGED <<ready, increaseSize, blocksUsed, freeCount, held, pc, mem, flag>>
      /\ live' = live \ {bl}
      /\ elements' = [elements EXCEPT ![bl] = 0]
      /\ num_free' = [num_free EXCEPT ![bl] = 0]
      /\ free' = [free EXCEPT ![bl] = <<>>]
      /\ blocksAllocated' = blocksAllocated - elements[bl]
      /\ bl' = next[bl]
  BY DEF CleanupDelete, Release
<1>4. \A c \in live' : /\ c \in live /\ c # bl
                       /\ elements'[c] = elements[c]
                       /\ num_free'[c] = num_free[c] /\ free'[c] = free[c]
  BY <1>3 DEF TypeOK
<1>5. \A e \in held : e[1] # bl
  <2>1. num_free[bl] + Cardinality(InUse(bl)) = elements[bl]
    BY <1>2, ChainsOf DEF OneChain
  <2>2. IsFiniteSet(InUse(bl))
    BY FS_Subset DEF InUse, Elements
  <2>3. Cardinality(InUse(bl)) = 0
    BY <1>2, <2>1, <2>2, FS_CardinalityType
  <2> QED
    BY <2>2, <2>3, FS_EmptySet DEF InUse
<1>6. Elements'
  BY <1>2, <1>3, <1>4, <1>5 DEF Elements
<1>7. ChainsAreComplete'
  <2>1. ASSUME NEW c \in live'
        PROVE  OneChain(c)'
    <3>1. /\ OneChain(c) /\ InUse(c)' = InUse(c) /\ held' = held
          /\ elements'[c] = elements[c] /\ num_free'[c] = num_free[c] /\ free'[c] = free[c]
      BY <1>2, <1>3, <1>4, ChainsOf DEF InUse
    <3> HIDE DEF HeapInv
    <3> QED
      BY <3>1 DEF OneChain
  <2>2. blocksUsed' = Cardinality(held')
    BY <1>2, <1>3, ChainsOf
  <2> QED
    BY <2>1, <2>2 DEF ChainsAreComplete, OneChain, Distinct
<1> DEFINE E == {e \in {bl} \X (0..MaxElements) : e[2] < elements[bl]}
<1>8. IsFiniteSet(E) /\ Cardinality(E) = elements[bl]
  BY <1>2, BlockElements DEF Elements
<1>9. IsFiniteSet(Owned) /\ Cardinality(Owned) = blocksAllocated
  BY <1>2, OwnedIsFinite DEF Counted, CapacityAgrees
<1>10. Owned' = Owned \ E /\ Owned \cap E = E /\ E \subseteq Owned
  BY <1>2, <1>3, <1>4 DEF Owned
<1> HIDE DEF E
<1>11. elements[bl] <= blocksAllocated /\ Cardinality(Owned') = blocksAllocated - elements[bl]
  <2>1. Cardinality(Owned \ E) = Cardinality(Owned) - Cardinality(E)
    BY <1>9, <1>10, FS_Difference
  <2>2. Cardinality(E) <= Cardinality(Owned)
    BY <1>9, <1>10, FS_Subset
  <2> QED
    BY <1>8, <1>9, <1>10, <2>1, <2>2
<1>12. Counted'
  <2>1. IsFiniteSet(live')
    BY <1>3, FS_RemoveElement DEF Counted
  <2> QED
    BY <1>3, <1>11, <2>1 DEF Counted, CapacityAgrees
<1>13. TypeOK'
  <2>1. blocksAllocated' \in Nat
    BY <1>2, <1>3, <1>11 DEF TypeOK
  <2>2. /\ elements' \in [Blocks -> Nat] /\ num_free' \in [Blocks -> Nat]
        /\ free' \in [Blocks -> Seq(Nat)]
    BY <1>2, <1>3, NothingIsTyped DEF TypeOK
  <2>3. /\ next' \in [Blocks -> Pointers] /\ previous' \in [Blocks -> Pointers]
        /\ blocks' \in Pointers /\ bl' \in Pointers
    BY <1>2 DEF CleanupDelete, Unlink, TypeOK, Pointers
  <2>4. live' \subseteq Blocks
    BY <1>3 DEF TypeOK
  <2> QED
    BY <1>3, <2>1, <2>2, <2>3, <2>4 DEF TypeOK
<1> QED
  BY <1>1, <1>6, <1>7, <1>12, <1>13

(* Every step.                                                             *)
LEMMA NextInv ==
  ASSUME HeapInv, [Next]_vars
  PROVE  HeapInv'
<1>1. ASSUME NEW num \in Sizes, init(num) \/ reserve(num)
      PROVE  HeapInv'
  BY <1>1, HeapAssumption, InitReserveInv
<1>2. CASE malloc
  BY <1>2, BeginInv DEF malloc, Addresses
<1>3. CASE cleanup
  BY <1>3, BeginInv DEF cleanup, Addresses
<1>4. ASSUME NEW e \in Addresses, Free(e)
      PROVE  HeapInv'
  BY <1>4, BeginInv DEF Free
<1>5. CASE UNCHANGED vars
  <2>1. TypeOK' /\ bl' \in live \cup {NULL} /\ First' = First
    BY <1>5 DEF HeapInv, TypeOK, Linked, First, vars, list, chains
  <2>2. pc' = "free" => mem' \in Addresses
    BY <1>5 DEF HeapInv, Elements, vars
  <2>3. UNCHANGED <<list, chains, blocksAllocated, blocksUsed, held, pc>>
    BY <1>5 DEF vars
  <2> QED
    BY <2>1, <2>2, <2>3, Unchanged
<1> QED
  BY <1>1, <1>2, <1>3, <1>4, <1>5, ClearInv, AdvanceInv, ReturnInv, ClearDeleteInv,
     ClearEndInv, MallocGrowInv, MallocTakeInv, FreeTakeInv, CleanupDeleteInv
  DEF Next, Call, Step

(* The invariant from which the properties follow holds in every state.    *)
THEOREM HeapInvHolds == Spec => []HeapInv
<1>1. Init => HeapInv
  BY InitInv
<1>2. HeapInv /\ [Next]_vars => HeapInv'
  BY NextInv
<1> QED
  BY <1>1, <1>2, PTL DEF Spec

-----------------------------------------------------------------------------
(* The properties.                                                         *)

(* The variables keep their types; the count of frees never stays above    *)
(* the limit outside of cleanup.                                           *)
THEOREM TypeCorrect == Spec => []TypeOK
<1>1. HeapInv => TypeOK
  BY DEF HeapInv
<1> QED
  BY <1>1, HeapInvHolds, PTL

(* No pointer of the list, of a loop or of the application leads to a      *)
(* block that was given back, however the calls follow each other.         *)
THEOREM NoDanglingPointerHolds == Spec => []NoDanglingPointer
<1>1. HeapInv => NoDanglingPointer
  BY DEF HeapInv, Linked, Elements, First, NoDanglingPointer
<1> QED
  BY <1>1, HeapInvHolds, PTL

(* Each block's chain and what is in use of it are all of its elements,    *)
(* and count() and capacity() are what the blocks add up to.               *)
THEOREM HeapKeepsBooksHolds == Spec => []HeapKeepsBooks
<1>1. HeapInv => HeapKeepsBooks
  BY DEF HeapInv, Counted, HeapKeepsBooks
<1> QED
  BY <1>1, HeapInvHolds, PTL

(* The list reaches every block that is allocated.                         *)
THEOREM NoBlockLostHolds == Spec => []NoBlockLost
<1>1. HeapInv => NoBlockLost
  BY AllReached DEF NoBlockLost, First
<1> QED
  BY <1>1, HeapInvHolds, PTL

(* The heap hands out and takes back elements as a pool does; growing,     *)
(* walking and cleaning up are not visible.                                *)
THEOREM HeapIsAPool == Spec => ImplementsPool
<1> DEFINE count == IF pc = "clear" THEN 0 ELSE blocksUsed
<1>1. Init => Pool!Init
  BY DEF Init, Pool!Init
<1>2. ASSUME HeapInv, [Next]_vars
      PROVE  [Pool!Next]_<<held, count>>
  <2>1. CASE clear
    BY <2>1 DEF clear, Begin, Pool!Next, Pool!GiveAll
  <2>2. CASE MallocTake
    <3>1. PICK e : e = <<bl, Head(free[bl])>>
      OBVIOUS
    <3>2. e \in (Blocks \X (0..MaxElements)) \ held
      BY <1>2, <2>2, <3>1, MallocTakeInv
    <3>3. held' = held \cup {e} /\ count' = count + 1
      BY <2>2, <3>1 DEF MallocTake, AtBlock, Returns
    <3> QED
      BY <3>2, <3>3 DEF Pool!Next, Pool!Take
  <2>3. CASE FreeTake
    <3>1. PICK e \in held : e = mem
      BY <1>2, <2>3, FreeTakeInv
    <3>2. held' = held \ {e} /\ count' = count - 1
      BY <2>3, <3>1 DEF FreeTake, AtBlock, Returns
    <3> QED
      BY <3>2 DEF Pool!Next, Pool!Give
  <2>4. CASE ClearEnd
    BY <2>4 DEF ClearEnd, AtEnd, Returns
  <2>5. CASE /\ UNCHANGED <<held, blocksUsed>> 
             /\ pc' = "clear" <=> pc = "clear"
    BY <2>5
  <2>6. ASSUME NEW num \in Sizes, init(num) \/ reserve(num)
        PROVE  UNCHANGED <<held, blocksUsed>> /\ (pc' = "clear" <=> pc = "clear")
    BY <2>6 DEF init, reserve, Idle
  <2>7. ASSUME malloc \/ cleanup \/ \E e \in Addresses : Free(e)
        PROVE  UNCHANGED <<held, blocksUsed>> /\ (pc' = "clear" <=> pc = "clear")
    BY <2>7 DEF malloc, cleanup, Free, Begin
  <2>8. ASSUME MallocNext \/ FreeNext \/ CleanupKeep
        PROVE  UNCHANGED <<held, blocksUsed>> /\ (pc' = "clear" <=> pc = "clear")
    BY <2>8 DEF MallocNext, FreeNext, CleanupKeep, Advance
  <2>9. ASSUME MallocGrow \/ OutOfMemory \/ HeapCorrupted \/ ElementNotInHeap \/ CleanupEnd \/ CleanupDelete \/ ClearDelete
        PROVE  UNCHANGED <<held, blocksUsed>> /\ (pc' = "clear" <=> pc = "clear")
    BY <2>9 DEF MallocGrow, OutOfMemory, HeapCorrupted, ElementNotInHeap, CleanupEnd, CleanupDelete, ClearDelete, AtEnd, AtBlock, Returns
  <2>10. ASSUME UNCHANGED vars
         PROVE  UNCHANGED <<held, blocksUsed>> /\ (pc' = "clear" <=> pc = "clear")
    BY <2>10 DEF vars
  <2> QED
    BY <1>2, <2>1, <2>2, <2>3, <2>4, <2>5, <2>6, <2>7, <2>8, <2>9, <2>10
    DEF Next, Call, Step
<1> QED
  BY <1>1, <1>2, HeapInvHolds, PTL DEF Spec, ImplementsPool, Pool!Spec

-----------------------------------------------------------------------------
(* What a walk along the list has found out.  The blocks behind it are the *)
(* front part of the list; malloc found no free element there, and cleanup *)
(* left one block without elements in use there if it has set its flag.    *)

FrontPart(V) ==
  /\ bl \notin V
  /\ First \in V \cup {bl}
  /\ \A b \in V : next[b] \in V \cup {bl} /\ (b # First => previous[b] \in V)

Found(V) ==
  /\ pc = "malloc" => \A b \in V : num_free[b] = 0
  /\ pc = "cleanup" => /\ flag <=> \E b \in V : Unused(b)
                       /\ \A b, c \in V : Unused(b) /\ Unused(c) => b = c

Walked ==
  /\ pc # "cleanup" => flag = FALSE
  /\ pc \in {"malloc", "cleanup"} => \E V \in SUBSET live : FrontPart(V) /\ Found(V)

(* A walk that begins.                                                     *)
LEMMA WalkBegins ==
  ASSUME bl' = blocks', pc' \in {"malloc", "cleanup"}, flag' = FALSE
  PROVE  Walked'
<1>1. {} \in SUBSET live'
  OBVIOUS
<1>2. FrontPart({})' /\ Found({})'
  BY DEF FrontPart, Found, First
<1> QED
  BY <1>1, <1>2 DEF Walked

(* The list has no cycle: a walk never comes back.                         *)
LEMMA NextIsNew ==
  ASSUME HeapInv, NEW V \in SUBSET live, FrontPart(V), NEW x \in live, x = bl
  PROVE  next[x] # x /\ next[x] \notin V
<1>1. PICK rank \in [Blocks -> Nat] :
        \A b \in live : next[b] # NULL => rank[b] < rank[next[b]]
  BY DEF HeapInv, Ranked
<1>2. x # NULL
  BY HeapAssumption DEF HeapInv, TypeOK
<1>3. next[x] # x
  BY <1>1, <1>2 DEF HeapInv, TypeOK
<1>4. next[x] \notin V
  <2>1. SUFFICES ASSUME NEW y \in V, next[x] = y PROVE FALSE
    OBVIOUS
  <2>2. y \in live /\ y # NULL
    BY HeapAssumption DEF HeapInv, TypeOK
  <2>3. previous[y] = x /\ y # First
    BY <2>1, <2>2 DEF HeapInv, Linked
  <2> QED
    BY <2>3 DEF FrontPart
<1> QED
  BY <1>3, <1>4

(* A walk that goes on with the next block.                                *)
LEMMA WalkGoesOn ==
  ASSUME HeapInv, Walked, MallocNext \/ CleanupKeep
  PROVE  Walked'
<1>1. /\ pc' = pc /\ pc \in {"malloc", "cleanup"} /\ bl' = next[bl] /\ bl # NULL
      /\ UNCHANGED <<list, chains>>
      /\ pc = "malloc" => num_free[bl] = 0 /\ flag' = flag
      /\ pc = "cleanup" => ~ (Unused(bl) /\ flag) /\ flag' = (flag \/ Unused(bl))
  BY DEF MallocNext, CleanupKeep, Advance, AtBlock
<1>2. PICK V \in SUBSET live : FrontPart(V) /\ Found(V)
  BY <1>1 DEF Walked
<1>3. PICK x \in live : x = bl
  BY <1>1 DEF HeapInv, Linked
<1>4. next[x] # x /\ next[x] \notin V
  BY <1>2, <1>3, NextIsNew
<1>5. x # First => previous[x] \in V
  <2>1. SUFFICES ASSUME x # First PROVE previous[x] \in V
    OBVIOUS
  <2>2. PICK b \in V : next[b] = x
    <3>1. SUFFICES ASSUME \A b \in V : next[b] # x PROVE FALSE
      OBVIOUS
    <3>2. First \in V \cup {NULL} /\ \A b \in V : next[b] \in V \cup {NULL}
      BY <1>2, <1>3, <2>1, <3>1 DEF FrontPart
    <3>3. V = live
      BY <3>2, AllReached
    <3> QED
      BY <1>2, <1>3, <3>3 DEF FrontPart
  <2>3. next[b] # NULL
    BY <1>1, <1>3, <2>2
  <2> QED
    BY <2>2, <2>3 DEF HeapInv, Linked
<1>6. FrontPart(V \cup {x})'
  BY <1>1, <1>2, <1>3, <1>4, <1>5 DEF FrontPart, First, list
<1>7. Found(V \cup {x})'
  BY <1>1, <1>2, <1>3 DEF Found, Unused, chains
<1>8. pc' # "cleanup" => flag' = FALSE
  BY <1>1 DEF Walked
<1>9. V \cup {x} \in SUBSET live'
  BY <1>1 DEF list
<1> QED
  BY <1>6, <1>7, <1>8, <1>9 DEF Walked

(* cleanup deletes the block at which it is: the ones behind it stay.      *)
LEMMA WalkDeletes ==
  ASSUME HeapInv, Walked, CleanupDelete
  PROVE  Walked' /\ \E b \in live' : Unused(b)'
<1>1. /\ pc' = pc /\ pc = "cleanup" /\ bl' = next[bl] /\ bl # NULL /\ flag /\ flag' = flag
      /\ live' = live \ {bl}
      /\ blocks' = IF bl = blocks THEN next[bl] ELSE blocks
      /\ First = blocks /\ First' = blocks'
  BY DEF CleanupDelete, AtBlock, Unlink, Release, First
<1>2. PICK V \in SUBSET live : FrontPart(V) /\ Found(V)
  BY <1>1 DEF Walked
<1>3. PICK x \in live : x = bl
  BY <1>1 DEF HeapInv, Linked
<1>4. ASSUME NEW c \in V
      PROVE  /\ c # x
             /\ next'[c] = (IF c = previous[x] THEN next[x] ELSE next[c])
             /\ previous'[c] = (IF c = next[x] THEN previous[x] ELSE previous[c])
             /\ num_free'[c] = num_free[c] /\ elements'[c] = elements[c]
  <2>1. c \in Blocks /\ c # bl
    BY <1>2, <1>3, <1>4 DEF HeapInv, TypeOK, FrontPart
  <2> QED
    BY <1>3, <2>1 DEF CleanupDelete, Unlink, Release, HeapInv, TypeOK
<1>5. next[x] # x /\ next[x] \notin V
  BY <1>2, <1>3, NextIsNew
<1>6. \A b \in V : next[b] = x => b = previous[x]
  BY <1>1, <1>3 DEF HeapInv, Linked
<1>7. FrontPart(V)'
  <2>1. bl' \notin V /\ First' \in V \cup {bl'}
    BY <1>1, <1>2, <1>3, <1>5 DEF FrontPart
  <2>2. ASSUME NEW b \in V
        PROVE  next'[b] \in V \cup {bl'} /\ (b # First' => previous'[b] \in V)
    <3>1. next[b] \in V \cup {x} /\ (b # First => previous[b] \in V) /\ b # next[x]
      BY <1>2, <1>3, <1>5, <2>2 DEF FrontPart
    <3>2. b # First' => b # First
      BY <1>1, <1>2, <1>3, <1>4, <1>5
    <3> QED
      BY <1>1, <1>3, <1>4, <1>6, <3>1, <3>2
  <2> QED
    BY <2>1, <2>2 DEF FrontPart
<1>8. \A b \in V : Unused(b)' <=> Unused(b)
  BY <1>4 DEF Unused
<1>9. Found(V)'
  BY <1>1, <1>2, <1>8 DEF Found
<1>10. V \in SUBSET live'
  BY <1>1, <1>3, <1>4
<1>11. Walked'
  BY <1>1, <1>7, <1>9, <1>10 DEF Walked
<1>12. \E b \in V : Unused(b)'
  BY <1>1, <1>2, <1>8 DEF Found
<1> QED
  BY <1>10, <1>11, <1>12

(* Every step keeps what the walks have found out.                         *)
LEMMA WalkStep ==
  ASSUME HeapInv, Walked, [Next]_vars
  PROVE  Walked'
<1>1. ASSUME pc' \notin {"malloc", "cleanup"}, flag' = FALSE
      PROVE  Walked'
  BY <1>1 DEF Walked
<1>2. ASSUME NEW num \in Sizes, init(num) \/ reserve(num)
      PROVE  Walked'
  BY <1>1, <1>2 DEF init, reserve, Idle, Walked
<1>3. CASE malloc
  BY <1>3, WalkBegins DEF malloc, Begin, list, Walked
<1>4. CASE cleanup
  BY <1>4, WalkBegins DEF cleanup, Begin, list, Walked
<1>5. CASE clear
  BY <1>1, <1>5 DEF clear, Begin, Walked
<1>6. ASSUME NEW e \in Addresses, Free(e)
      PROVE  Walked'
  BY <1>1, <1>6 DEF Free, Begin, Walked
<1>7. CASE MallocTake \/ OutOfMemory \/ HeapCorrupted \/ ElementNotInHeap \/ CleanupEnd \/ ClearEnd
  BY <1>1, <1>7 DEF MallocTake, OutOfMemory, HeapCorrupted, ElementNotInHeap, CleanupEnd, ClearEnd, Returns
<1>8. CASE FreeNext \/ ClearDelete
  BY <1>1, <1>8 DEF FreeNext, ClearDelete, Advance, AtBlock, Walked
<1>9. CASE FreeTake
  <2>1. CASE pc' = "cleanup" /\ bl' = blocks /\ flag' = FALSE
    BY <1>9, <2>1, WalkBegins DEF FreeTake, list
  <2> QED
    BY <1>1, <1>9, <2>1 DEF FreeTake, Returns
<1>10. CASE MallocGrow
  BY <1>10, WalkBegins DEF MallocGrow, increase, AtEnd, Walked
<1>11. CASE UNCHANGED vars
  BY <1>11 DEF vars, list, chains, Walked, FrontPart, Found, First, Unused
<1> QED
  BY <1>2, <1>3, <1>4, <1>5, <1>6, <1>7, <1>8, <1>9, <1>10, <1>11, WalkGoesOn, WalkDeletes
  DEF Next, Call, Step

(* A walk that has come to the end has seen every block.                   *)
LEMMA WalkedAll ==
  ASSUME HeapInv, Walked, bl = NULL, pc \in {"malloc", "cleanup"}
  PROVE  Found(live)
<1>1. PICK V \in SUBSET live : FrontPart(V) /\ Found(V)
  BY DEF Walked
<1>2. V = live
  BY <1>1, AllReached DEF FrontPart
<1> QED
  BY <1>1, <1>2

(* What a walk has found out holds in every state.                         *)
THEOREM WalkedHolds == Spec => [](HeapInv /\ Walked)
<1>1. Init => HeapInv /\ Walked
  BY InitInv DEF Init, Walked
<1>2. HeapInv /\ Walked /\ [Next]_vars => (HeapInv /\ Walked)'
  BY NextInv, WalkStep
<1> QED
  BY <1>1, <1>2, PTL DEF Spec

(* malloc asks the system for memory only when every element is in use.    *)
THEOREM GrowsOnlyWhenFullHolds == Spec => GrowsOnlyWhenFull
<1>1. ASSUME HeapInv, Walked, [Next]_vars, pc = "malloc", live' # live
      PROVE  \A b \in live : num_free[b] = 0
  <2>1. MallocGrow
    BY <1>1 DEF Next, Call, Step, init, reserve, Idle, malloc, cleanup, clear, Free, Begin,
         MallocTake, MallocNext, OutOfMemory, HeapCorrupted, ElementNotInHeap, FreeTake, FreeNext, CleanupKeep, CleanupDelete,
         CleanupEnd, ClearDelete, ClearEnd, Advance, AtBlock, AtEnd, list, vars
  <2> QED
    BY <1>1, <2>1, WalkedAll DEF MallocGrow, AtEnd, Found
<1> QED
  BY <1>1, WalkedHolds, PTL DEF Spec, GrowsOnlyWhenFull

(* cleanup keeps one block without elements in use, and no second one.     *)
THEOREM KeepsReserveHolds == Spec => KeepsReserve
<1>1. ASSUME HeapInv, Walked, [Next]_vars, pc = "cleanup"
      PROVE  /\ live' # live => \E b \in live' : Unused(b)'
             /\ pc' = "idle" => \A b, c \in live : Unused(b) /\ Unused(c) => b = c
  <2>1. CleanupKeep \/ CleanupDelete \/ CleanupEnd \/ UNCHANGED vars
    BY <1>1 DEF Next, Call, Step, init, reserve, Idle, malloc, cleanup, clear, Free, Begin,
         MallocTake, MallocNext, MallocGrow, OutOfMemory, HeapCorrupted, ElementNotInHeap, FreeTake, FreeNext,
         ClearDelete, ClearEnd, AtBlock, AtEnd
  <2>2. CASE CleanupKeep
    BY <1>1, <2>2 DEF CleanupKeep, Advance, list
  <2>3. CASE CleanupDelete
    BY <1>1, <2>3, WalkDeletes DEF CleanupDelete
  <2>4. CASE CleanupEnd
    BY <1>1, <2>4, WalkedAll DEF CleanupEnd, AtEnd, Found, list
  <2>5. CASE UNCHANGED vars
    BY <1>1, <2>5 DEF vars, list
  <2> QED
    BY <2>1, <2>2, <2>3, <2>4, <2>5
<1> QED
  BY <1>1, WalkedHolds, PTL DEF Spec, KeepsReserve

=============================================================================
