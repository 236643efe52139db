---------------------------- MODULE ObjectProofs ----------------------------
(***************************************************************************)
(* What ppl7::MemoryGroup (src/src/core/MemoryGroup.cpp), ppl7::MemFile    *)
(* (src/src/core/MemFile.cpp) and ppl7::Array (src/src/types/Array.cpp)    *)
(* keep, for any blocks, sizes, bytes, texts and calls: the counters of a  *)
(* group are those of its list, a file in memory is the file that ByteFile *)
(* describes, and the rows of an array are the list of StringList.         *)
(***************************************************************************)
EXTENDS Objects, SequenceTheorems, FiniteSetTheorems, WellFoundedInduction, TLAPS

-----------------------------------------------------------------------------
(* The group. Its list is the sequence order, of which clear has passed    *)
(* some blocks already, and its size is counted along that sequence.       *)
Address == Blocks \cup {NULL}

GroupLists ==
  [first : Address, last : Address, next : [Blocks -> Address], previous : [Blocks -> Address],
   totalSize : Int, totalBlocks : Nat]

(* Row i of a list o.                                                      *)
Node(o, i) == IF i \in 1..Len(o) THEN o[i] ELSE NULL

NoneTwice(o) == \A i, j \in 1..Len(o) : o[i] = o[j] => i = j

Linked(l, o, p) ==
  /\ l.first = Node(o, p + 1) /\ l.last = Node(o, Len(o))
  /\ \A i \in 1..Len(o) :
       l.previous[o[i]] = Node(o, i - 1) /\ l.next[o[i]] = Node(o, i + 1)
  /\ l.totalBlocks = Len(o)

(* g has the sums of the sizes of the rows.                                *)
Sums(g, o, sz) ==
  /\ g[0] = GroupSize
  /\ \A i \in 1..Len(o) : g[i] = g[i - 1] + sz[o[i]] + HeaderSize

Counted(o, sz, n) == \E g \in [0..Len(o) -> Int] : Sums(g, o, sz) /\ g[Len(o)] = n

Books(l, sz, o, p) ==
  /\ l \in GroupLists /\ sz \in [Blocks -> Nat]
  /\ o \in Seq(Blocks) /\ NoneTwice(o) /\ p \in 0..Len(o)
  /\ Linked(l, o, p)
  /\ Counted(o, sz, l.totalSize)

(* The list and the counters, in every state; all in the list is allocated.*)
GroupInv ==
  /\ groupLive \subseteq Blocks
  /\ life = "constructed" =>
       /\ Books(groupList, groupSize, order, passed)
       /\ \A i \in 1..Len(order) : order[i] \in groupLive

-----------------------------------------------------------------------------
(* Any non-empty set of naturals has a least element.                      *)
LEMMA LeastElement ==
  ASSUME NEW T \in SUBSET Nat, T # {}
  PROVE  \E x \in T : \A y \in T : x <= y
<1>1. PICK x \in T : \A y \in T : ~ (<<y, x>> \in OpToRel(<, Nat))
  BY NatLessThanWellFounded, WFMin
<1>2. \A y \in T : ~ (y < x)
  BY <1>1 DEF OpToRel
<1> QED
  BY <1>2

(* Sums that agree with the rows agree with each other.                    *)
LEMMA SumsAreUnique ==
  ASSUME NEW o \in Seq(Blocks), NEW sz \in [Blocks -> Nat],
         NEW g \in [0..Len(o) -> Int], Sums(g, o, sz), NEW f, Sums(f, o, sz)
  PROVE  \A i \in 0..Len(o) : f[i] = g[i]
<1> DEFINE T == {i \in 0..Len(o) : f[i] # g[i]}
<1>1. SUFFICES ASSUME T # {} PROVE FALSE
  OBVIOUS
<1>2. T \in SUBSET Nat
  OBVIOUS
<1>3. PICK i \in T : \A j \in T : i <= j
  BY <1>1, <1>2, LeastElement
<1>4. i # 0
  BY DEF Sums
<1>5. i \in 1..Len(o) /\ i - 1 \in 0..Len(o) /\ ~(i <= i - 1)
  BY <1>4
<1>6. f[i - 1] = g[i - 1]
  BY <1>3, <1>5
<1>7. f[i] = g[i]
  BY <1>5, <1>6 DEF Sums
<1> QED
  BY <1>7

LEMMA TakenIsTheSum ==
  ASSUME NEW n, order \in Seq(Blocks), groupSize \in [Blocks -> Nat],
         Counted(order, groupSize, n)
  PROVE  Group!taken[Len(order)] = n
<1>1. PICK g \in [0..Len(order) -> Int] : Sums(g, order, groupSize) /\ g[Len(order)] = n
  BY DEF Counted
<1>2. g = [i \in 0..Len(order) |->
             IF i = 0 THEN GroupSize ELSE g[i - 1] + groupSize[order[i]] + HeaderSize]
  BY <1>1 DEF Sums
<1>3. Group!taken = [i \in 0..Len(order) |->
         IF i = 0 THEN GroupSize ELSE Group!taken[i - 1] + groupSize[order[i]] + HeaderSize]
  BY <1>2 DEF Group!taken
<1>4. Sums(Group!taken, order, groupSize)
  <2>1. PICK f : f = Group!taken
    OBVIOUS
  <2>2. f = [i \in 0..Len(order) |->
         IF i = 0 THEN GroupSize ELSE f[i - 1] + groupSize[order[i]] + HeaderSize]
    BY <1>3, <2>1
  <2>3. f[0] = GroupSize
    BY <2>2
  <2>4. ASSUME NEW i \in 1..Len(order)
        PROVE  f[i] = f[i - 1] + groupSize[order[i]] + HeaderSize
    <3>1. i \in 0..Len(order) /\ i # 0
      OBVIOUS
    <3> QED
      BY <2>2, <3>1, Zenon
  <2> QED
    BY <2>1, <2>3, <2>4 DEF Sums
<1> HIDE DEF Group!taken
<1>5. \A i \in 0..Len(order) : Group!taken[i] = g[i]
  BY <1>1, <1>4, SumsAreUnique
<1> QED
  BY <1>1, <1>5

-----------------------------------------------------------------------------
(* A block that is not in the list, behind its end.                        *)
LEMMA AddKeepsBooks ==
  ASSUME NEW l, NEW sz, NEW o, NEW p, Books(l, sz, o, p),
         NEW m \in Blocks, \A i \in 1..Len(o) : o[i] # m, NEW n \in Nat
  PROVE  Books(Group!addToList(l, m, n), [sz EXCEPT ![m] = n], Append(o, m), p)
<1> DEFINE k == Group!addToList(l, m, n)
           q == Append(o, m)
           s == [sz EXCEPT ![m] = n]
<1>1. /\ l \in GroupLists /\ sz \in [Blocks -> Nat] /\ o \in Seq(Blocks) /\ NoneTwice(o)
      /\ p \in 0..Len(o) /\ Linked(l, o, p) /\ Counted(o, sz, l.totalSize)
  BY DEF Books
<1>2. /\ q \in Seq(Blocks) /\ Len(q) = Len(o) + 1 /\ Len(o) \in Nat
      /\ \A i \in 1..Len(o) : q[i] = o[i] /\ q[i] \in Blocks
      /\ q[Len(o) + 1] = m
  BY <1>1
<1> HIDE DEF q
<1>3. NULL \notin Blocks
  BY HeapAssumption
<1>4. /\ DOMAIN k = DOMAIN l
      /\ k.previous = [l.previous EXCEPT ![m] = l.last]
      /\ k.next = IF l.last = NULL THEN [l.next EXCEPT ![m] = NULL]
                  ELSE [l.next EXCEPT ![m] = NULL, ![l.last] = m]
      /\ k.last = m
      /\ k.first = IF l.first = NULL THEN m ELSE l.first
      /\ k.totalSize = l.totalSize + n + HeaderSize
      /\ k.totalBlocks = l.totalBlocks + 1
  <2>1. DOMAIN l = {"first", "last", "next", "previous", "totalSize", "totalBlocks"}
    BY <1>1 DEF GroupLists
  <2>2. DOMAIN k = DOMAIN l
    BY Zenon DEF Group!addToList
  <2>3. k.previous = [l.previous EXCEPT ![m] = l.last] /\ k.last = m
    BY <2>1, Zenon DEF Group!addToList
  <2>4. k.next = Group!Put([l.next EXCEPT ![m] = NULL], l.last, m)
    BY <2>1, Zenon DEF Group!addToList
  <2>5. k.first = IF l.first = NULL THEN m ELSE l.first
    BY <2>1, Zenon DEF Group!addToList
  <2>6. k.totalSize = l.totalSize + n + HeaderSize /\ k.totalBlocks = l.totalBlocks + 1
    BY <2>1, Zenon DEF Group!addToList
  <2> HIDE DEF k
  <2> QED
    BY <2>2, <2>3, <2>4, <2>5, <2>6, Zenon DEF Group!Put
<1>9. k \in GroupLists
  <2>1. k.totalSize \in Int /\ k.totalBlocks \in Nat
    BY <1>1, <1>4, GroupAssumption DEF GroupLists
  <2>2. k.first \in Address /\ k.last \in Address
    BY <1>1, <1>4 DEF GroupLists, Address
  <2>3. k.next \in [Blocks -> Address] /\ k.previous \in [Blocks -> Address]
    BY <1>1, <1>4 DEF GroupLists, Address
  <2>4. k = [first |-> k.first, last |-> k.last, next |-> k.next, previous |-> k.previous,
             totalSize |-> k.totalSize, totalBlocks |-> k.totalBlocks]
    <3>1. DOMAIN k = {"first", "last", "next", "previous", "totalSize", "totalBlocks"}
      BY <1>1, <1>4 DEF GroupLists
    <3>2. k = [x \in DOMAIN k |-> k[x]]
      BY <1>1 DEF Group!addToList, GroupLists
    <3> HIDE DEF k
    <3> QED
      BY <3>1, <3>2
  <2> HIDE DEF k
  <2> QED
    BY <2>1, <2>2, <2>3, <2>4 DEF GroupLists
<1> HIDE DEF k
<1>10. \A j \in 0..Len(o) : Node(o, j) = Node(q, j)
  BY <1>2 DEF Node
<1>11. Node(q, Len(o) + 1) = m
  BY <1>2 DEF Node
<1>5. NoneTwice(q)
  BY <1>1, <1>2 DEF NoneTwice
<1>6. Linked(k, q, p)
  <2>1. l.last = Node(o, Len(o)) /\ l.first = Node(o, p + 1) /\ l.totalBlocks = Len(o)
    BY <1>1 DEF Linked
  <2>2. k.first = Node(q, p + 1)
    BY <1>1, <1>2, <1>3, <1>4, <2>1 DEF Node
  <2>3. k.last = Node(q, Len(q)) /\ k.totalBlocks = Len(q)
    BY <1>1, <1>2, <1>4, <2>1 DEF Node
  <2>4. ASSUME NEW i \in 1..Len(q)
        PROVE  k.previous[q[i]] = Node(q, i - 1) /\ k.next[q[i]] = Node(q, i + 1)
    <3>1. l.next \in [Blocks -> Address] /\ l.previous \in [Blocks -> Address]
      BY <1>1 DEF GroupLists
    <3>2. CASE i = Len(o) + 1
      BY <3>1, <3>2, <1>2, <1>3, <1>4, <2>1 DEF Node
    <3>3. CASE i = Len(o)
      <4>1. l.last = q[i] /\ q[i] # m /\ q[i] \in Blocks /\ i \in 1..Len(o)
        BY <3>3, <1>2, <2>1 DEF Node
      <4>2. k.previous[q[i]] = l.previous[o[i]] /\ k.next[q[i]] = m
        BY <4>1, <3>1, <1>2, <1>3, <1>4
      <4>3. Node(o, i - 1) = Node(q, i - 1) /\ Node(q, i + 1) = m
        BY <3>3, <1>2, <1>10, <1>11
      <4> QED
        BY <4>1, <4>2, <4>3, <1>1 DEF Linked
    <3>4. CASE i < Len(o)
      <4>1. i \in 1..Len(o) /\ Len(o) \in 1..Len(o) /\ l.last = o[Len(o)] /\ o[i] # l.last /\ l.last # NULL
        BY <3>4, <1>1, <1>2, <1>3, <2>1 DEF Node, NoneTwice
      <4>2. k.previous[q[i]] = l.previous[o[i]] /\ k.next[q[i]] = l.next[o[i]]
        BY <4>1, <3>1, <1>2, <1>3, <1>4
      <4>3. Node(o, i - 1) = Node(q, i - 1) /\ Node(o, i + 1) = Node(q, i + 1)
        BY <3>4, <1>2, <1>10
      <4> QED
        BY <4>1, <4>2, <4>3, <1>1 DEF Linked
    <3> QED
      BY <3>2, <3>3, <3>4, <1>2
  <2> QED
    BY <2>2, <2>3, <2>4 DEF Linked
<1>7. Counted(q, s, k.totalSize)
  <2>1. PICK g \in [0..Len(o) -> Int] : Sums(g, o, sz) /\ g[Len(o)] = l.totalSize
    BY <1>1 DEF Counted
  <2> DEFINE h == [i \in 0..Len(q) |-> IF i \in 0..Len(o) THEN g[i] ELSE k.totalSize]
  <2>2. h \in [0..Len(q) -> Int]
    BY <1>9 DEF GroupLists
  <2>3. \A i \in 1..Len(o) : s[q[i]] = sz[o[i]] /\ s[m] = n
    BY <1>1, <1>2
  <2>4. s[m] = n
    BY <1>1
  <2>5. ASSUME NEW i \in 1..Len(q) PROVE h[i] = h[i - 1] + s[q[i]] + HeaderSize
    <3>1. CASE i = Len(o) + 1
      BY <3>1, <2>1, <2>4, <1>2, <1>4
    <3>2. CASE i \in 1..Len(o)
      BY <3>2, <2>1, <2>3, <1>2 DEF Sums
    <3> QED
      BY <3>1, <3>2, <1>2
  <2>6. h[0] = GroupSize /\ h[Len(q)] = k.totalSize
    BY <2>1, <1>2 DEF Sums
  <2> QED
    BY <2>2, <2>5, <2>6 DEF Counted, Sums
<1>8. p \in 0..Len(q) /\ s \in [Blocks -> Nat]
  BY <1>1, <1>2
<1> QED
  BY <1>2, <1>9, <1>5, <1>6, <1>7, <1>8 DEF Books, k, q

-----------------------------------------------------------------------------
(* A sequence without its row x.                                           *)
LEMMA RowRemoved ==
  ASSUME NEW o \in Seq(Blocks), NEW x \in 1..Len(o)
  PROVE  /\ Group!RemoveAt(o, x) \in Seq(Blocks)
         /\ Len(Group!RemoveAt(o, x)) = Len(o) - 1
         /\ \A i \in 1..Len(o) - 1 :
              Group!RemoveAt(o, x)[i] = IF i < x THEN o[i] ELSE o[i + 1]
<1>1. PICK s : s = SubSeq(o, 1, x - 1)
  OBVIOUS
<1>2. PICK t : t = SubSeq(o, x + 1, Len(o))
  OBVIOUS
<1>3. s \in Seq(Blocks) /\ Len(s) = x - 1 /\ \A i \in 1..x - 1 : s[i] = o[i]
  BY <1>1
<1>4. /\ t \in Seq(Blocks) /\ Len(t) = Len(o) - x
      /\ \A i \in 1..Len(o) - x : t[i] = o[i + x]
  BY <1>2
<1>5. Group!RemoveAt(o, x) = s \o t
  BY <1>1, <1>2 DEF Group!RemoveAt
<1>6. s \o t \in Seq(Blocks) /\ Len(s \o t) = Len(o) - 1
  BY <1>3, <1>4
<1>7. ASSUME NEW i \in 1..Len(o) - 1 PROVE (s \o t)[i] = IF i < x THEN o[i] ELSE o[i + 1]
  <2>1. CASE i < x
    BY <2>1, <1>3, <1>4
  <2>2. CASE i >= x
    <3>1. PICK j \in 1..Len(o) - x : i = j + Len(s) /\ j + x = i + 1
      BY <2>2, <1>3
    <3>2. (s \o t)[i] = t[j]
      BY <3>1, <1>3, <1>4
    <3> QED
      BY <2>2, <3>1, <3>2, <1>4
  <2>3. i < x \/ i >= x
    OBVIOUS
  <2> QED
    BY <2>1, <2>2, <2>3, Zenon
<1> QED
  BY <1>5, <1>6, <1>7

LEMMA RemoveCounts ==
  ASSUME NEW o \in Seq(Blocks), NEW x \in 1..Len(o), NEW q \in Seq(Blocks), NEW n,
         NEW sz \in [Blocks -> Nat], Counted(o, sz, n), Len(q) = Len(o) - 1,
         \A i \in 1..Len(q) : q[i] = IF i < x THEN o[i] ELSE o[i + 1]
  PROVE  Counted(q, sz, n - (sz[o[x]] + HeaderSize))
<1>1. PICK g \in [0..Len(o) -> Int] : Sums(g, o, sz) /\ g[Len(o)] = n
  BY DEF Counted
<1>2. PICK d \in Int : d = sz[o[x]] + HeaderSize
  BY GroupAssumption
<1>14. Len(o) \in Nat /\ x \in 1..Len(o)
  OBVIOUS
<1>15. g \in [0..Len(o) -> Int]
  BY <1>1
<1>3. Len(o) \in Nat /\ x \in 1..Len(o) /\ \A j \in 0..Len(o) : g[j] \in Int
  BY <1>14, <1>15
<1>4. /\ g[0] = GroupSize
      /\ \A j \in 1..Len(o) : g[j] = g[j - 1] + sz[o[j]] + HeaderSize
  BY <1>1 DEF Sums
<1>5. /\ HeaderSize \in Int /\ sz[o[x]] \in Int /\ g[x] \in Int /\ g[x - 1] \in Int
      /\ \A i \in 1..Len(o) : sz[o[i]] \in Int
  BY <1>3, GroupAssumption
<1> DEFINE h == [i \in 0..Len(q) |-> IF i < x THEN g[i] ELSE g[i + 1] - d]
<1>6. \A i \in 0..Len(q) : i < x => h[i] = g[i]
  OBVIOUS
<1>7. \A i \in 0..Len(q) : ~(i < x) => h[i] = g[i + 1] - d
  OBVIOUS
<1>8. h \in [0..Len(q) -> Int]
  <2> SUFFICES ASSUME NEW i \in 0..Len(q)
               PROVE  (i < x => g[i] \in Int) /\ (~(i < x) => g[i + 1] - d \in Int)
    OBVIOUS
  <2>1. i \in 0..Len(o) /\ i + 1 \in 0..Len(o)
    BY <1>3
  <2>2. g[i] \in Int /\ g[i + 1] \in Int
    BY <2>1, <1>3
  <2> QED
    BY <2>2, <1>2
<1> HIDE DEF h
<1>9. h[0] = GroupSize
  <2>1. 0 \in 0..Len(q) /\ 0 < x
    BY <1>3
  <2> QED
    BY <2>1, <1>4, <1>6
<1>10. g[x] = g[x - 1] + d
  BY <1>2, <1>3, <1>4, <1>5
<1>11. h[Len(q)] = n - d
  <2>1. CASE x = Len(o)
    <3>1. Len(q) \in 0..Len(q) /\ Len(q) < x /\ Len(q) = x - 1
      BY <2>1, <1>3
    <3>2. h[Len(q)] = g[x - 1]
      BY <3>1, <1>6
    <3> QED
      BY <2>1, <3>2, <1>1, <1>2, <1>5, <1>10
  <2>2. CASE x < Len(o)
    <3>1. Len(q) \in 0..Len(q) /\ ~(Len(q) < x) /\ Len(q) + 1 = Len(o)
      BY <2>2, <1>3
    <3> QED
      BY <3>1, <1>1, <1>7
  <2> QED
    BY <2>1, <2>2, <1>3
<1>12. ASSUME NEW i \in 1..Len(q) PROVE h[i] = h[i - 1] + sz[q[i]] + HeaderSize
  <2>1. /\ i \in 0..Len(q) /\ i - 1 \in 0..Len(q) /\ i \in 1..Len(o)
        /\ i + 1 \in 1..Len(o) /\ i \in 0..Len(o) /\ i - 1 \in 0..Len(o) /\ i + 1 \in 0..Len(o)
    <3>1. PICK l \in Nat : l = Len(o)
      BY <1>14
    <3>2. PICK k \in Nat : k = Len(q) /\ k = l - 1
      BY <3>1
    <3>3. i \in 1..k /\ 1..k \subseteq 0..k
      BY <3>2
    <3>4. i \in 0..k /\ i - 1 \in 0..k /\ i \in 1..l /\ i + 1 \in 1..l
      BY <3>2, <3>3
    <3> QED
      <4>1. 0..k = 0..Len(q) /\ 0..l = 0..Len(o) /\ 1..l = 1..Len(o)
        BY <3>1, <3>2, Zenon
      <4>2. i \in 0..k /\ i - 1 \in 0..k /\ i \in 1..l /\ i + 1 \in 1..l /\ 1..l \subseteq 0..l
        BY <3>4
      <4>3. i - 1 \in 0..l
        BY <3>2, <3>4
      <4> QED
        BY <4>1, <4>2, <4>3, Zenon
  <2>2. /\ g[i - 1] \in Int /\ g[i] \in Int /\ g[i + 1] \in Int
        /\ sz[o[i]] \in Int /\ sz[o[i + 1]] \in Int
    BY <2>1, <1>3, <1>5
  <2>3. g[i] = g[i - 1] + sz[o[i]] + HeaderSize
    BY <2>1, <1>4
  <2>4. g[i + 1] = g[i] + sz[o[i + 1]] + HeaderSize
    <3>1. PICK j \in 1..Len(o) : j = i + 1 /\ j - 1 = i
      BY <2>1
    <3> QED
      BY <3>1, <1>4
  <2>8. g[i + 1] - d = (g[i] - d) + sz[o[i + 1]] + HeaderSize
    <3>1. PICK b \in Int : b = g[i]
      BY <2>2
    <3>2. PICK v \in Int : v = sz[o[i + 1]]
      BY <2>2
    <3>3. PICK w \in Int : w = HeaderSize
      BY <1>5
    <3>4. PICK e \in Int : e = d
      BY <1>2
    <3>5. g[i + 1] = b + v + w
      BY <2>4, <3>1, <3>2, <3>3
    <3>6. (b + v + w) - e = (b - e) + v + w
      OBVIOUS
    <3> QED
      BY <3>1, <3>2, <3>3, <3>4, <3>5, <3>6
  <2>5. CASE i < x
    BY <2>1, <2>3, <2>5, <1>6
  <2>6. CASE i = x
    <3>1. ~(i < x) /\ i - 1 < x
      BY <2>6, <1>3
    <3>2. h[i] = g[i + 1] - d /\ q[i] = o[i + 1]
      BY <2>1, <3>1, <1>7
    <3>3. h[i - 1] = g[i - 1]
      BY <2>1, <3>1, <1>6
    <3> QED
      <4>1. d \in Int /\ d = sz[o[i]] + HeaderSize
        BY <2>6, <1>2
      <4>2. g[i + 1] - d = g[i - 1] + sz[o[i + 1]] + HeaderSize
        <5>1. PICK a \in Int : a = g[i - 1]
          BY <2>2
        <5>2. PICK u \in Int : u = sz[o[i]]
          BY <2>2
        <5>3. PICK w \in Int : w = HeaderSize
          BY <1>5
        <5>4. g[i] = a + u + w /\ d = u + w
          BY <5>1, <5>2, <5>3, <4>1, <2>3
        <5>5. (a + u + w) - (u + w) = a
          OBVIOUS
        <5> QED
          BY <5>1, <5>4, <5>5, <2>8
      <4> QED
        BY <4>2, <3>2, <3>3
  <2>7. CASE i > x
    <3>1. ~(i < x) /\ ~(i - 1 < x) /\ (i - 1) + 1 = i
      BY <2>7, <1>3
    <3>2. h[i] = g[i + 1] - d /\ q[i] = o[i + 1]
      BY <2>1, <3>1, <1>7
    <3>3. h[i - 1] = g[i] - d
      <4>1. h[i - 1] = g[(i - 1) + 1] - d
        BY <2>1, <3>1, <1>7
      <4> QED
        BY <3>1, <4>1
    <3> QED
      <4>1. d \in Int
        BY <1>2
      <4>2. g[i + 1] - d = (g[i] - d) + sz[o[i + 1]] + HeaderSize
        BY <4>1, <2>8
      <4> QED
        BY <4>2, <3>2, <3>3
  <2> QED
    BY <2>5, <2>6, <2>7
<1> QED
  BY <1>2, <1>8, <1>9, <1>11, <1>12 DEF Counted, Sums

(* The list without the block in its row x.                                *)
LEMMA RemoveKeepsBooks ==
  ASSUME Books(groupList, groupSize, order, passed),
         NEW x \in 1..Len(order), NEW m, m = order[x]
  PROVE  /\ Books(Group!removeFromList(groupList, m), groupSize,
                  Group!Without(m), Group!PassedWithout(m))
         /\ \A i \in 1..Len(Group!Without(m)) :
              /\ Group!Without(m)[i] # m
              /\ \E j \in 1..Len(order) : Group!Without(m)[i] = order[j]
<1> DEFINE l == groupList
           o == order
           p == passed
           k == Group!removeFromList(groupList, m)
           q == Group!Without(m)
           r == Group!PassedWithout(m)
<1>1. /\ l \in GroupLists /\ groupSize \in [Blocks -> Nat] /\ o \in Seq(Blocks) /\ NoneTwice(o)
      /\ p \in 0..Len(o) /\ Linked(l, o, p) /\ Counted(o, groupSize, l.totalSize)
  BY DEF Books
<1>2. Group!Position(m) = x
  BY <1>1 DEF Group!Position, NoneTwice
<1>3. /\ q \in Seq(Blocks) /\ Len(q) = Len(o) - 1 /\ Len(o) \in Nat \ {0}
      /\ \A i \in 1..Len(q) : q[i] = IF i < x THEN o[i] ELSE o[i + 1]
  <2>1. q = Group!RemoveAt(order, x)
    BY <1>2 DEF Group!Without
  <2>2. order \in Seq(Blocks) /\ Len(order) \in Nat \ {0}
    BY <1>1
  <2> HIDE DEF q
  <2> QED
    BY <2>1, <2>2, RowRemoved
<1>4. r = IF x <= p THEN p - 1 ELSE p
  BY <1>2 DEF Group!PassedWithout
<1>5. NULL \notin Blocks /\ m \in Blocks
  BY <1>1, HeapAssumption
<1>6. /\ l.next[m] = Node(o, x + 1) /\ l.previous[m] = Node(o, x - 1)
      /\ l.first = Node(o, p + 1) /\ l.last = Node(o, Len(o)) /\ l.totalBlocks = Len(o)
  BY <1>1 DEF Linked
<1> DEFINE before == Node(o, x - 1)
           after == Node(o, x + 1)
<1>7. /\ DOMAIN k = DOMAIN l
      /\ k.next = IF before = NULL THEN l.next ELSE [l.next EXCEPT ![before] = after]
      /\ k.previous = IF after = NULL THEN l.previous ELSE [l.previous EXCEPT ![after] = before]
      /\ k.first = IF l.first = m THEN after ELSE l.first
      /\ k.last = IF l.last = m THEN before ELSE l.last
      /\ k.totalSize = l.totalSize - (groupSize[m] + HeaderSize)
      /\ k.totalBlocks = l.totalBlocks - 1
  <2> HIDE DEF before, after
  <2>1. before = l.previous[m] /\ after = l.next[m]
    BY <1>6 DEF before, after
  <2>2. DOMAIN l = {"first", "last", "next", "previous", "totalSize", "totalBlocks"}
    BY <1>1 DEF GroupLists
  <2>3. DOMAIN k = DOMAIN l
    BY Zenon DEF Group!removeFromList
  <2>4. k.next = Group!Put(l.next, l.previous[m], l.next[m])
    BY <2>2, Zenon DEF Group!removeFromList
  <2>5. k.previous = Group!Put(l.previous, l.next[m], l.previous[m])
    BY <2>2, Zenon DEF Group!removeFromList
  <2>6. k.first = IF l.first = m THEN l.next[m] ELSE l.first
    BY <2>2, Zenon DEF Group!removeFromList
  <2>7. k.last = IF l.last = m THEN l.previous[m] ELSE l.last
    BY <2>2, Zenon DEF Group!removeFromList
  <2>8. /\ k.totalSize = l.totalSize - (groupSize[m] + HeaderSize)
        /\ k.totalBlocks = l.totalBlocks - 1
    BY <2>2, Zenon DEF Group!removeFromList
  <2> HIDE DEF k
  <2> QED
    BY <2>1, <2>3, <2>4, <2>5, <2>6, <2>7, <2>8, Zenon DEF Group!Put
<1>8. before \in Address /\ after \in Address
  BY <1>1 DEF Node, Address
<1>9. k \in GroupLists
  <2>1. k.totalSize \in Int /\ k.totalBlocks \in Nat
    BY <1>1, <1>3, <1>5, <1>6, <1>7, GroupAssumption DEF GroupLists
  <2>2. k.first \in Address /\ k.last \in Address
    BY <1>1, <1>7, <1>8 DEF GroupLists
  <2>3. k.next \in [Blocks -> Address] /\ k.previous \in [Blocks -> Address]
    BY <1>1, <1>7, <1>8 DEF GroupLists
  <2>4. k = [first |-> k.first, last |-> k.last, next |-> k.next, previous |-> k.previous,
             totalSize |-> k.totalSize, totalBlocks |-> k.totalBlocks]
    <3>1. DOMAIN k = {"first", "last", "next", "previous", "totalSize", "totalBlocks"}
      BY <1>1, <1>7 DEF GroupLists
    <3>2. k = [y \in DOMAIN k |-> k[y]]
      BY <1>1 DEF Group!removeFromList, GroupLists
    <3> HIDE DEF k
    <3> QED
      BY <3>1, <3>2
  <2> HIDE DEF k
  <2> QED
    BY <2>1, <2>2, <2>3, <2>4 DEF GroupLists
<1> HIDE DEF k, q, r
<1>10. \A j \in 0..Len(o) : Node(q, j) = IF j < x THEN Node(o, j) ELSE Node(o, j + 1)
  <2> SUFFICES ASSUME NEW j \in 0..Len(o)
               PROVE  Node(q, j) = IF j < x THEN Node(o, j) ELSE Node(o, j + 1)
    OBVIOUS
  <2>1. CASE j = 0 \/ j = Len(o)
    BY <2>1, <1>1, <1>3 DEF Node
  <2>2. CASE j \in 1..Len(q)
    <3>1. j \in 1..Len(o) /\ j + 1 \in 1..Len(o)
      BY <2>2, <1>3
    <3> QED
      BY <2>2, <3>1, <1>3 DEF Node
  <2> QED
    BY <2>1, <2>2, <1>3
<1>11. \A j \in 1..Len(o) : Node(o, j) = o[j] /\ o[j] # NULL /\ o[j] \in Blocks
  BY <1>1, <1>5 DEF Node
<1>12. Node(o, 0) = NULL /\ Node(o, Len(o) + 1) = NULL
  BY <1>1 DEF Node
<1>13. NoneTwice(q)
  <2> SUFFICES ASSUME NEW i \in 1..Len(q), NEW j \in 1..Len(q), q[i] = q[j] PROVE i = j
    BY DEF NoneTwice
  <2>1. PICK a \in 1..Len(o) : a = IF i < x THEN i ELSE i + 1
    BY <1>3
  <2>2. PICK b \in 1..Len(o) : b = IF j < x THEN j ELSE j + 1
    BY <1>3
  <2>3. o[a] = o[b]
    BY <2>1, <2>2, <1>3
  <2> QED
    BY <2>1, <2>2, <2>3, <1>1 DEF NoneTwice
<1>14. ASSUME NEW i \in 1..Len(q)
       PROVE  q[i] # m /\ \E j \in 1..Len(o) : q[i] = o[j]
  <2>1. PICK a \in 1..Len(o) : a = IF i < x THEN i ELSE i + 1
    BY <1>3
  <2>2. q[i] = o[a] /\ a # x
    BY <2>1, <1>3
  <2> QED
    BY <2>2, <1>1 DEF NoneTwice
<1>15. r \in 0..Len(q)
  BY <1>1, <1>3, <1>4
<1>16. Linked(k, q, r)
  <2>1. k.first = Node(q, r + 1)
    <3>1. CASE x <= p
      <4>1. l.first # m
        <5>1. CASE p = Len(o)
          BY <5>1, <1>5, <1>6, <1>12
        <5>2. CASE p < Len(o)
          <6>1. p + 1 \in 1..Len(o) /\ p + 1 # x
            BY <5>2, <3>1, <1>1
          <6> QED
            BY <6>1, <1>1, <1>6, <1>11 DEF NoneTwice
        <5> QED
          BY <5>1, <5>2, <1>1
      <4> QED
        BY <3>1, <4>1, <1>1, <1>3, <1>4, <1>6, <1>7, <1>10
    <3>2. CASE x = p + 1
      BY <3>2, <1>1, <1>3, <1>4, <1>6, <1>7, <1>10, <1>11
    <3>3. CASE x > p + 1
      <4>1. p + 1 \in 1..Len(o) /\ l.first # m
        <5>1. p + 1 \in 1..Len(o) /\ p + 1 # x
          BY <3>3, <1>1
        <5> QED
          BY <5>1, <1>1, <1>6, <1>11 DEF NoneTwice
      <4> QED
        BY <3>3, <4>1, <1>1, <1>3, <1>4, <1>6, <1>7, <1>10
    <3> QED
      BY <3>1, <3>2, <3>3, <1>1
  <2>2. k.last = Node(q, Len(q))
    <3>1. CASE x = Len(o)
      BY <3>1, <1>1, <1>3, <1>6, <1>7, <1>10, <1>11
    <3>2. CASE x < Len(o)
      <4>1. l.last # m
        BY <3>2, <1>1, <1>6, <1>11 DEF NoneTwice
      <4> QED
        BY <3>2, <4>1, <1>1, <1>3, <1>6, <1>7, <1>10
    <3> QED
      BY <3>1, <3>2, <1>1
  <2>3. k.totalBlocks = Len(q)
    BY <1>3, <1>6, <1>7
  <2>4. ASSUME NEW i \in 1..Len(q)
        PROVE  k.previous[q[i]] = Node(q, i - 1) /\ k.next[q[i]] = Node(q, i + 1)
    <3>1. PICK j \in 1..Len(o) : j = IF i < x THEN i ELSE i + 1
      BY <1>3
    <3>2. /\ q[i] = o[j] /\ j # x /\ o[j] \in Blocks
          /\ l.next[o[j]] = Node(o, j + 1) /\ l.previous[o[j]] = Node(o, j - 1)
      <4>1. q[i] = o[j] /\ j # x
        BY <3>1, <1>3
      <4>2. l.next[o[j]] = Node(o, j + 1) /\ l.previous[o[j]] = Node(o, j - 1)
        BY <1>1 DEF Linked
      <4> QED
        BY <4>1, <4>2, <1>11
    <3>3. k.next[o[j]] = IF j + 1 = x THEN after ELSE Node(o, j + 1)
      <4>1. (before = o[j]) <=> (j + 1 = x)
        BY <3>1, <1>1, <1>5, <1>11, <1>12 DEF NoneTwice
      <4> HIDE DEF before, after
      <4> QED
        BY <4>1, <3>2, <1>5, <1>7, <1>1, <1>11 DEF GroupLists
    <3>4. k.previous[o[j]] = IF j - 1 = x THEN before ELSE Node(o, j - 1)
      <4>1. (after = o[j]) <=> (j - 1 = x)
        <5>1. CASE x = Len(o)
          BY <5>1, <1>11, <1>12
        <5>2. CASE x < Len(o)
          <6>1. x + 1 \in 1..Len(o) /\ after = o[x + 1]
            BY <5>2, <1>11
          <6>2. o[x + 1] = o[j] <=> x + 1 = j
            BY <6>1, <1>1 DEF NoneTwice
          <6> QED
            BY <6>1, <6>2
        <5> QED
          BY <5>1, <5>2
      <4> HIDE DEF before, after
      <4> QED
        BY <4>1, <3>2, <1>5, <1>7, <1>1, <1>11 DEF GroupLists
    <3>5. Node(q, i + 1) = IF i + 1 < x THEN Node(o, i + 1) ELSE Node(o, i + 2)
      BY <1>3, <1>10
    <3>6. Node(q, i - 1) = IF i - 1 < x THEN Node(o, i - 1) ELSE Node(o, i)
      BY <1>3, <1>10
    <3>7. k.next[o[j]] = Node(q, i + 1)
      BY <3>1, <3>3, <3>5
    <3>8. k.previous[o[j]] = Node(q, i - 1)
      BY <3>1, <3>2, <3>4, <3>6
    <3> QED
      BY <3>2, <3>7, <3>8
  <2> QED
    BY <2>1, <2>2, <2>3, <2>4 DEF Linked
<1>17. Counted(q, groupSize, k.totalSize)
  <2>1. k.totalSize = l.totalSize - (groupSize[o[x]] + HeaderSize)
    BY <1>7
  <2> HIDE DEF l, o
  <2> QED
    BY <2>1, <1>1, <1>3, RemoveCounts DEF o
<1> QED
  BY <1>1, <1>3, <1>9, <1>13, <1>14, <1>15, <1>16, <1>17 DEF Books, k, q, r

-----------------------------------------------------------------------------
(* The object itself is all that an empty list takes.                      *)
LEMMA EmptyCounts ==
  ASSUME NEW sz PROVE Counted(<<>>, sz, GroupSize)
<1>1. PICK g : g = [i \in 0..0 |-> GroupSize]
  OBVIOUS
<1>2. g \in [0..Len(<<>>) -> Int] /\ g[0] = GroupSize
  BY <1>1, GroupAssumption
<1> QED
  BY <1>2 DEF Counted, Sums

(* GroupInv holds at the start, each call keeps it, and it is enough.      *)
LEMMA GroupInit == Group!Init => GroupInv
<1> SUFFICES ASSUME Group!Init PROVE GroupInv
  OBVIOUS
<1>1. /\ groupList = Group!Empty /\ groupSize = [b \in Blocks |-> 0] /\ groupLive = {}
      /\ order = <<>> /\ passed = 0
  BY DEF Group!Init
<1>2. Linked(groupList, order, passed) /\ groupList \in GroupLists
      /\ groupList.totalSize = GroupSize
  BY <1>1, GroupAssumption DEF Linked, GroupLists, Group!Empty, Node, Address
<1>3. Counted(order, groupSize, GroupSize)
  BY <1>1, EmptyCounts
<1>4. order \in Seq(Blocks) /\ NoneTwice(order) /\ passed \in 0..Len(order)
  BY <1>1 DEF NoneTwice
<1> QED
  BY <1>1, <1>2, <1>3, <1>4 DEF GroupInv, Books

(* A block that is added, to a list of blocks that are allocated.          *)
LEMMA AllocatedStays ==
  ASSUME NEW o \in Seq(Blocks), NEW m, NEW S, \A i \in 1..Len(o) : o[i] \in S, m \in S
  PROVE  \A i \in 1..Len(Append(o, m)) : Append(o, m)[i] \in S
OBVIOUS

LEMMA MallocStep ==
  ASSUME GroupInv, life = "constructed", NEW n \in Asked, Group!malloc(n)
  PROVE  GroupInv'
<1>1. PICK m \in Blocks \ groupLive :
        /\ groupList' = Group!addToList(groupList, m, n)
        /\ groupSize' = [groupSize EXCEPT ![m] = n]
        /\ groupLive' = groupLive \cup {m}
        /\ order' = Append(order, m)
        /\ UNCHANGED <<passed, life>>
  BY DEF Group!malloc
<1>2. /\ Books(groupList, groupSize, order, passed) /\ order \in Seq(Blocks)
      /\ \A i \in 1..Len(order) : order[i] \in groupLive
  BY DEF GroupInv, Books
<1>3. m \in Blocks /\ n \in Nat /\ \A i \in 1..Len(order) : order[i] # m
  BY <1>1, <1>2, GroupAssumption
<1>4. Books(Group!addToList(groupList, m, n), [groupSize EXCEPT ![m] = n], Append(order, m), passed)
  BY <1>2, <1>3, AddKeepsBooks
<1>5. \A i \in 1..Len(order') : order'[i] \in groupLive'
  BY <1>1, <1>2, AllocatedStays
<1> QED
  BY <1>1, <1>4, <1>5 DEF GroupInv

LEMMA FreeStep ==
  ASSUME GroupInv, life = "constructed", NEW m \in Group!ToSet(order), Group!free(m)
  PROVE  GroupInv'
<1>1. /\ groupList' = Group!removeFromList(groupList, m)
      /\ groupLive' = groupLive \ {m}
      /\ order' = Group!Without(m)
      /\ passed' = Group!PassedWithout(m)
      /\ UNCHANGED <<groupSize, life>>
  BY DEF Group!free
<1>2. /\ Books(groupList, groupSize, order, passed) /\ order \in Seq(Blocks)
      /\ \A i \in 1..Len(order) : order[i] \in groupLive
  BY DEF GroupInv, Books
<1>3. PICK x \in 1..Len(order) : m = order[x]
  BY <1>2 DEF Group!ToSet
<1> QED
  BY <1>1, <1>2, <1>3, RemoveKeepsBooks DEF GroupInv

LEMMA ReallocStep ==
  ASSUME GroupInv, life = "constructed", NEW m \in Group!ToSet(order), NEW n \in Asked,
         Group!realloc(m, n)
  PROVE  GroupInv'
<1> DEFINE k == Group!removeFromList(groupList, m)
           q == Group!Without(m)
           r == Group!PassedWithout(m)
<1>1. /\ Books(groupList, groupSize, order, passed) /\ order \in Seq(Blocks)
      /\ \A i \in 1..Len(order) : order[i] \in groupLive
  BY DEF GroupInv, Books
<1>2. PICK x \in 1..Len(order) : m = order[x]
  BY <1>1 DEF Group!ToSet
<1>3. /\ Books(k, groupSize, q, r)
      /\ \A i \in 1..Len(q) : q[i] # m /\ \E j \in 1..Len(order) : q[i] = order[j]
  BY <1>1, <1>2, RemoveKeepsBooks
<1>4. /\ m \in groupLive /\ m \in Blocks /\ n \in Nat /\ groupSize \in [Blocks -> Nat]
      /\ q \in Seq(Blocks) /\ groupLive \subseteq Blocks
      /\ \A i \in 1..Len(q) : q[i] \in groupLive \ {m}
  BY <1>1, <1>2, <1>3, GroupAssumption DEF Books, GroupInv
<1>5. passed' = r /\ UNCHANGED life
  BY DEF Group!realloc
<1>6. CASE \E to \in {m} \cup (Blocks \ groupLive) :
             /\ groupList' = Group!addToList(k, to, n)
             /\ groupSize' = [groupSize EXCEPT ![to] = n]
             /\ groupLive' = (groupLive \ {m}) \cup {to}
             /\ order' = Append(q, to)
  <2>1. PICK to \in {m} \cup (Blocks \ groupLive) :
             /\ groupList' = Group!addToList(k, to, n)
             /\ groupSize' = [groupSize EXCEPT ![to] = n]
             /\ groupLive' = (groupLive \ {m}) \cup {to}
             /\ order' = Append(q, to)
    BY <1>6
  <2>2. to \in Blocks /\ \A i \in 1..Len(q) : q[i] # to
    BY <1>4, <2>1
  <2> HIDE DEF k, q, r
  <2>3. Books(Group!addToList(k, to, n), [groupSize EXCEPT ![to] = n], Append(q, to), r)
    BY <1>3, <1>4, <2>2, AddKeepsBooks
  <2>4. \A i \in 1..Len(order') : order'[i] \in groupLive'
    BY <1>4, <2>1, AllocatedStays
  <2> QED
    BY <1>4, <1>5, <2>1, <2>2, <2>3, <2>4 DEF GroupInv
<1>7. CASE /\ groupList' = Group!addToList(k, m, groupSize[m])
           /\ order' = Append(q, m)
           /\ UNCHANGED <<groupSize, groupLive>>
  <2> HIDE DEF k, q, r
  <2>1. groupSize[m] \in Nat /\ [groupSize EXCEPT ![m] = groupSize[m]] = groupSize
    BY <1>4
  <2>2. Books(Group!addToList(k, m, groupSize[m]), groupSize, Append(q, m), r)
    BY <1>3, <1>4, <2>1, AddKeepsBooks
  <2>3. \A i \in 1..Len(order') : order'[i] \in groupLive'
    BY <1>4, <1>7, AllocatedStays
  <2> QED
    BY <1>4, <1>5, <1>7, <2>2, <2>3 DEF GroupInv
<1> QED
  BY <1>6, <1>7 DEF Group!realloc

LEMMA ClearStep ==
  ASSUME GroupInv, life = "constructed", Group!clear
  PROVE  GroupInv'
<1>1. /\ groupList \in GroupLists /\ groupSize \in [Blocks -> Nat] /\ order \in Seq(Blocks)
      /\ NoneTwice(order) /\ passed \in 0..Len(order) /\ Linked(groupList, order, passed)
      /\ Counted(order, groupSize, groupList.totalSize)
      /\ \A i \in 1..Len(order) : order[i] \in groupLive
  BY DEF GroupInv, Books
<1>2. UNCHANGED <<groupSize, groupLive, life>>
  BY DEF Group!clear
<1>3. CASE groupList.first # NULL /\ passed' = passed + 1 /\ UNCHANGED order
           /\ groupList' = [groupList EXCEPT !.first = groupList.next[groupList.first]]
  <2>1. passed + 1 \in 1..Len(order) /\ groupList.first = order[passed + 1]
    BY <1>1, <1>3 DEF Linked, Node
  <2>2. groupList.next[groupList.first] = Node(order, (passed + 1) + 1)
    BY <1>1, <2>1 DEF Linked
  <2>3. groupList' \in GroupLists /\ groupList'.totalSize = groupList.totalSize
    <3>1. PICK a \in Address : a = groupList.next[groupList.first]
      BY <1>1, <2>1 DEF GroupLists
    <3> QED
      BY <1>1, <1>3, <3>1 DEF GroupLists
  <2>4. Linked(groupList', order', passed')
    BY <1>1, <1>3, <2>2 DEF Linked, GroupLists
  <2> QED
    BY <1>1, <1>2, <1>3, <2>1, <2>3, <2>4 DEF GroupInv, Books
<1>4. CASE groupList.first = NULL /\ passed' = 0 /\ order' = <<>>
           /\ groupList' = [groupList EXCEPT !.last = NULL, !.totalSize = GroupSize,
                                             !.totalBlocks = 0]
  <2>1. groupList' \in GroupLists /\ groupList'.totalSize = GroupSize
    <3>1. NULL \in Address /\ GroupSize \in Int /\ 0 \in Nat
      BY GroupAssumption DEF Address
    <3> QED
      BY <1>1, <1>4, <3>1 DEF GroupLists
  <2>2. Linked(groupList', order', passed')
    BY <1>1, <1>4 DEF Linked, GroupLists, Node
  <2>3. Counted(order', groupSize', GroupSize)
    BY <1>4, EmptyCounts
  <2>4. order' \in Seq(Blocks) /\ NoneTwice(order') /\ passed' \in 0..Len(order')
    BY <1>4 DEF NoneTwice
  <2> QED
    BY <1>1, <1>2, <1>4, <2>1, <2>2, <2>3, <2>4 DEF GroupInv, Books
<1> QED
  BY <1>3, <1>4 DEF Group!clear

LEMMA GroupStep == GroupInv /\ [Group!Next]_group => GroupInv'
<1> SUFFICES ASSUME GroupInv, [Group!Next]_group PROVE GroupInv'
  OBVIOUS
<1>1. CASE UNCHANGED group
  BY <1>1 DEF group, GroupInv
<1>2. CASE life = "constructed" /\ Group!Next
  <2>1. CASE \E n \in Asked : Group!malloc(n)
    BY <1>2, <2>1, MallocStep
  <2>2. CASE \E m \in Group!ToSet(order) : Group!free(m)
    BY <1>2, <2>2, FreeStep
  <2>3. CASE \E m \in Group!ToSet(order) : \E n \in Asked : Group!realloc(m, n)
    BY <1>2, <2>3, ReallocStep
  <2>4. CASE Group!clear
    BY <1>2, <2>4, ClearStep
  <2>5. CASE Group!destructor
    BY <2>5 DEF Group!destructor, GroupInv
  <2> QED
    BY <1>2, <2>1, <2>2, <2>3, <2>4, <2>5 DEF Group!Next, Group!ToSet
<1> QED
  BY <1>1, <1>2 DEF Group!Next

LEMMA GroupInvImplies == GroupInv => Group!Books
<1> SUFFICES ASSUME GroupInv, life = "constructed" PROVE Group!Books
  BY DEF Group!Books
<1>1. /\ order \in Seq(Blocks) /\ Linked(groupList, order, passed)
      /\ groupSize \in [Blocks -> Nat] /\ Counted(order, groupSize, groupList.totalSize)
      /\ \A i \in 1..Len(order) : order[i] \in groupLive
  BY DEF GroupInv, Books
<1>2. Group!taken[Len(order)] = groupList.totalSize
  BY <1>1, TakenIsTheSum
<1> QED
  BY <1>1, <1>2 DEF Group!Books, Linked, Node, Group!ToSet

(* Without the block in its row x, the list has all the others.            *)
LEMMA OthersStay ==
  ASSUME order \in Seq(Blocks), NoneTwice(order), NEW x \in 1..Len(order), NEW m, m = order[x]
  PROVE  /\ Group!ToSet(Group!Without(m)) = Group!ToSet(order) \ {m}
         /\ Len(Group!Without(m)) = Len(order) - 1
<1>1. Group!Position(m) = x
  BY DEF Group!Position, NoneTwice
<1>2. PICK q : q = Group!Without(m)
  OBVIOUS
<1>3. /\ q \in Seq(Blocks) /\ Len(q) = Len(order) - 1 /\ Len(order) \in Nat \ {0}
      /\ \A i \in 1..Len(q) : q[i] = IF i < x THEN order[i] ELSE order[i + 1]
  <2>1. q = Group!RemoveAt(order, x)
    BY <1>1, <1>2 DEF Group!Without
  <2>2. Len(order) \in Nat \ {0}
    OBVIOUS
  <2> QED
    BY <2>1, <2>2, RowRemoved
<1>4. ASSUME NEW i \in 1..Len(q)
      PROVE  q[i] \in Group!ToSet(order) \ {m}
  <2>1. CASE i < x
    <3>1. i \in 1..Len(order) /\ i # x /\ q[i] = order[i]
      BY <1>3, <2>1
    <3> QED
      BY <3>1 DEF Group!ToSet, NoneTwice
  <2>2. CASE ~(i < x)
    <3>1. i + 1 \in 1..Len(order) /\ i + 1 # x /\ q[i] = order[i + 1]
      BY <1>3, <2>2
    <3> QED
      BY <3>1 DEF Group!ToSet, NoneTwice
  <2> QED
    BY <2>1, <2>2
<1>5. ASSUME NEW j \in 1..Len(order), order[j] # m
      PROVE  \E i \in 1..Len(q) : q[i] = order[j]
  <2>1. CASE j < x
    <3>1. j \in 1..Len(q) /\ q[j] = order[j]
      BY <1>3, <2>1
    <3> QED
      BY <3>1
  <2>2. CASE j > x
    <3>1. j - 1 \in 1..Len(q) /\ ~(j - 1 < x) /\ (j - 1) + 1 = j
      BY <1>3, <2>2
    <3>2. q[j - 1] = order[j]
      BY <1>3, <3>1
    <3> QED
      BY <3>1, <3>2
  <2> QED
    BY <1>5, <2>1, <2>2
<1>6. DOMAIN q = 1..Len(q) /\ DOMAIN order = 1..Len(order)
  BY <1>3
<1>7. Group!ToSet(q) = Group!ToSet(order) \ {m}
  <2>1. PICK a, b : a = Group!ToSet(q) /\ b = Group!ToSet(order) \ {m}
    OBVIOUS
  <2>2. \A e : e \in a <=> \E i \in 1..Len(q) : q[i] = e
    BY <1>6, <2>1, Zenon DEF Group!ToSet
  <2>3. \A e : e \in b <=> e # m /\ \E j \in 1..Len(order) : order[j] = e
    BY <1>6, <2>1, Zenon DEF Group!ToSet
  <2>4. \A e \in a : e \in b
    BY <1>4, <2>1, <2>2, Zenon
  <2>5. \A e \in b : e \in a
    BY <1>5, <2>2, <2>3, Zenon
  <2> QED
    BY <2>1, <2>4, <2>5, Zenon
<1> QED
  BY <1>2, <1>3, <1>7

LEMMA OneMore ==
  ASSUME NEW o \in Seq(Blocks), NEW m \in Blocks
  PROVE  /\ Group!ToSet(Append(o, m)) = Group!ToSet(o) \cup {m}
         /\ Append(o, m) # <<>> /\ Append(o, m) # o
<1>1. PICK q : q = Append(o, m)
  OBVIOUS
<1>2. /\ DOMAIN q = 1..Len(o) + 1 /\ DOMAIN o = 1..Len(o) /\ Len(o) \in Nat
      /\ q[Len(o) + 1] = m /\ \A i \in 1..Len(o) : q[i] = o[i]
      /\ Len(q) = Len(o) + 1
  BY <1>1
<1>3. \A i \in 1..Len(o) + 1 : i \in 1..Len(o) \/ i = Len(o) + 1
  BY <1>2
<1>4. Group!ToSet(q) = Group!ToSet(o) \cup {m}
  BY <1>2, <1>3 DEF Group!ToSet
<1>5. q # <<>> /\ q # o
  BY <1>2
<1> QED
  BY <1>1, <1>4, <1>5

Promised ==
  IF Group!clear \/ Group!destructor
  THEN Group!Releases \/ Group!ReleasesNothing
  ELSE Group!Lost' = Group!Lost

LEMMA GroupStepPromised ==
  ASSUME GroupInv, life = "constructed", Group!Next
  PROVE  Promised
<1>1. /\ groupList \in GroupLists /\ order \in Seq(Blocks) /\ NoneTwice(order)
      /\ passed \in 0..Len(order) /\ Linked(groupList, order, passed) /\ groupLive \subseteq Blocks
      /\ \A i \in 1..Len(order) : order[i] \in groupLive
      /\ Books(groupList, groupSize, order, passed)
  BY DEF GroupInv, Books
<1>2. /\ DOMAIN order = 1..Len(order) /\ Len(order) \in Nat /\ NULL \notin Blocks
      /\ Group!ToSet(order) \subseteq groupLive
  BY <1>1, HeapAssumption DEF Group!ToSet
<1>3. /\ groupList.first # NULL => order # <<>> /\ passed < Len(order)
      /\ groupList.first = NULL => ~(passed < Len(order))
  <2>1. groupList.first = Node(order, passed + 1) /\ passed \in Nat /\ passed <= Len(order)
    BY <1>1, <1>2 DEF Linked
  <2>2. CASE passed < Len(order)
    <3>1. passed + 1 \in 1..Len(order) /\ order[passed + 1] \in Blocks /\ order # <<>>
      BY <1>1, <1>2, <2>1, <2>2
    <3> QED
      BY <1>2, <2>1, <2>2, <3>1 DEF Node
  <2>3. CASE ~(passed < Len(order))
    BY <1>2, <2>1, <2>3 DEF Node
  <2> QED
    BY <2>2, <2>3
<1>4. ASSUME NEW m \in Group!ToSet(order)
      PROVE  /\ m \in groupLive /\ m \in Blocks /\ Group!PassedWithout(m) # passed + 1
             /\ Group!ToSet(Group!Without(m)) = Group!ToSet(order) \ {m}
             /\ Len(Group!Without(m)) # Len(order) /\ Group!Without(m) \in Seq(Blocks)
  <2>1. PICK x \in 1..Len(order) : m = order[x]
    BY <1>2 DEF Group!ToSet
  <2>2. /\ Group!ToSet(Group!Without(m)) = Group!ToSet(order) \ {m}
        /\ Len(Group!Without(m)) = Len(order) - 1
    BY <1>1, <2>1, OthersStay
  <2>3. Group!Without(m) \in Seq(Blocks)
    BY <1>1, <2>1, RemoveKeepsBooks DEF Books
  <2>4. Group!PassedWithout(m) # passed + 1
    <3>1. Group!PassedWithout(m) = passed - 1 \/ Group!PassedWithout(m) = passed
      BY DEF Group!PassedWithout
    <3> QED
      BY <1>1, <3>1
  <2>5. m \in groupLive /\ m \in Blocks
    BY <1>1, <2>1, Zenon
  <2>6. Len(Group!Without(m)) # Len(order)
    <3>1. PICK k \in Nat : k = Len(order)
      BY <1>2
    <3>2. Len(Group!Without(m)) = k - 1
      BY <2>2, <3>1, Zenon
    <3>3. k - 1 # k
      OBVIOUS
    <3> QED
      BY <3>1, <3>2, <3>3, Zenon
  <2> QED
    BY <2>2, <2>3, <2>4, <2>5, <2>6, Zenon
<1>5. CASE \E n \in Asked : Group!malloc(n)
  <2>1. PICK m \in Blocks \ groupLive : /\ groupLive' = groupLive \cup {m}
                                       /\ order' = Append(order, m) /\ UNCHANGED life
    BY <1>5 DEF Group!malloc
  <2>2. ~Group!clear /\ ~Group!destructor
    BY <1>1, <2>1, OneMore DEF Group!clear, Group!destructor
  <2>3. Group!ToSet(order') = Group!ToSet(order) \cup {m}
    BY <1>1, <2>1, OneMore
  <2>4. Group!Lost' = Group!Lost
    BY <2>1, <2>3 DEF Group!Lost
  <2> QED
    BY <2>2, <2>4 DEF Promised
<1>6. CASE \E m \in Group!ToSet(order) : Group!free(m)
  <2>1. PICK m \in Group!ToSet(order) :
             groupLive' = groupLive \ {m} /\ order' = Group!Without(m) /\ UNCHANGED life
    BY <1>6 DEF Group!free
  <2>2. ~Group!clear /\ ~Group!destructor
    BY <1>4, <2>1 DEF Group!clear, Group!destructor
  <2>3. Group!Lost' = Group!Lost
    BY <1>4, <2>1 DEF Group!Lost
  <2> QED
    BY <2>2, <2>3 DEF Promised
<1>7. CASE \E m \in Group!ToSet(order) : \E n \in Asked : Group!realloc(m, n)
  <2>1. PICK m \in Group!ToSet(order) :
          /\ passed' = Group!PassedWithout(m) /\ UNCHANGED life
          /\ \/ \E to \in {m} \cup (Blocks \ groupLive) :
                  /\ groupLive' = (groupLive \ {m}) \cup {to}
                  /\ order' = Append(Group!Without(m), to)
             \/ order' = Append(Group!Without(m), m) /\ groupLive' = groupLive
    BY <1>7 DEF Group!realloc
  <2>2. PICK to \in {m} \cup (Blocks \ groupLive) :
          groupLive' = (groupLive \ {m}) \cup {to} /\ order' = Append(Group!Without(m), to)
    BY <1>4, <2>1
  <2>3. to \in Blocks
    BY <1>4, <2>1, <2>2
  <2>4. Group!ToSet(order') = (Group!ToSet(order) \ {m}) \cup {to} /\ order' # <<>>
    BY <1>4, <2>1, <2>2, <2>3, OneMore
  <2>5. ~Group!clear /\ ~Group!destructor
    BY <1>4, <2>1, <2>4 DEF Group!clear, Group!destructor
  <2>6. Group!Lost' = Group!Lost
    BY <1>2, <1>4, <2>1, <2>2, <2>4 DEF Group!Lost
  <2> QED
    BY <2>5, <2>6 DEF Promised
<1>8. Group!ToSet(<<>>) = {}
  BY DEF Group!ToSet
<1>9. CASE Group!clear
  <2>1. ~Group!destructor /\ life' = life /\ groupLive' = groupLive
    BY <1>9 DEF Group!clear, Group!destructor
  <2>2. CASE groupList.first # NULL
    <3>1. passed' = passed + 1 /\ order' = order
      BY <1>9, <2>2 DEF Group!clear
    <3> QED
      BY <1>3, <1>9, <2>1, <2>2, <3>1 DEF Promised, Group!ReleasesNothing
  <2>3. CASE groupList.first = NULL
    <3>1. order' = <<>>
      BY <1>9, <2>3 DEF Group!clear
    <3>2. CASE order = <<>>
      BY <1>8, <1>9, <2>1, <3>1, <3>2 DEF Promised, Group!Releases, Group!Lost
    <3>3. CASE order # <<>>
      BY <1>3, <1>9, <2>1, <2>3, <3>1, <3>3 DEF Promised, Group!ReleasesNothing
    <3> QED
      BY <3>2, <3>3
  <2> QED
    BY <2>2, <2>3
<1>10. CASE Group!destructor
  <2>1. order' = <<>> /\ groupLive' = groupLive
        /\ life' = IF groupList.first # NULL THEN "terminated" ELSE "destroyed"
    BY <1>10 DEF Group!destructor
  <2>2. CASE groupList.first # NULL
    BY <1>3, <1>10, <2>1, <2>2 DEF Promised, Group!ReleasesNothing
  <2>3. CASE groupList.first = NULL /\ order = <<>>
    BY <1>8, <1>10, <2>1, <2>3 DEF Promised, Group!Releases, Group!Lost
  <2>4. CASE groupList.first = NULL /\ order # <<>>
    BY <1>3, <1>10, <2>1, <2>4 DEF Promised, Group!ReleasesNothing
  <2> QED
    BY <2>2, <2>3, <2>4
<1> QED
  BY <1>5, <1>6, <1>7, <1>9, <1>10 DEF Group!Next

(* At any time of its life a MemoryGroup has a list without a loop whose   *)
(* links agree with each other, of blocks that are allocated, and count()  *)
(* and size() are the number of its blocks and the memory they take, with  *)
(* their headers and the object itself; and no call loses a block, but a   *)
(* clear or a destructor that finds one, against what is documented.       *)
THEOREM GroupBooks == GroupSpec => GroupKeepsBooks
<1>1. GroupSpec => []GroupInv
  BY GroupInit, GroupStep, PTL DEF GroupSpec
<1>2. GroupInv /\ [Group!Next]_group => [Promised]_group
  BY GroupStepPromised DEF Group!Next
<1>3. [Promised]_group
        => [IF Group!clear \/ Group!destructor
            THEN Group!Releases \/ Group!ReleasesNothing
            ELSE Group!Lost' = Group!Lost]_(Group!vars)
  BY DEF Promised, group, Group!vars
<1> QED
  BY <1>1, <1>2, <1>3, GroupInvImplies, PTL DEF GroupSpec, GroupKeepsBooks, Group!GroupKeepsBooks

-----------------------------------------------------------------------------
(* The file. First what its arithmetic modulo Word and the operators on    *)
(* its bytes do.                                                           *)
LEMMA WordSize == Word \in Nat /\ Half \in Nat /\ Half > 0 /\ 2 * Half <= Word
BY MemFileAssumption DEF Half

LEMMA ModSmall == \A a \in Nat : a < Word => a % Word = a
BY WordSize
LEMMA ModWrap == \A a \in Nat : a >= Word /\ a < 2 * Word => a % Word = a - Word
BY WordSize
LEMMA ModRange == \A a \in Int : a % Word \in 0..Word - 1
BY WordSize
LEMMA DivTimes == \A a \in Nat, b \in Nat \ {0} : (a \div b) * b \in Nat /\ (a \div b) * b <= a /\ (a \div b) * b > a - b
OBVIOUS
LEMMA NewSizeType == \A n \in Nat : Mem!NewSize(n) \in Nat
<1> SUFFICES ASSUME NEW n \in Nat PROVE Mem!NewSize(n) \in Nat
  OBVIOUS
<1>3. n + Page - 1 \in Int
  BY MemFileAssumption
<1>4. (n + Page - 1) % Word \in 0..Word - 1
  BY <1>3, ModRange
<1>1. PICK a \in Nat : a = (n + Page - 1) % Word
  BY <1>4, WordSize
<1>2. (a \div Page) * Page \in Nat
  BY DivTimes, MemFileAssumption
<1> QED
  BY <1>1, <1>2 DEF Mem!NewSize
LEMMA NewSizeCovers == \A n \in Nat : n + Page <= Word => n <= Mem!NewSize(n)
<1> SUFFICES ASSUME NEW n \in Nat, n + Page <= Word PROVE n <= Mem!NewSize(n)
  OBVIOUS
<1>1. PICK a \in Nat : a = n + Page - 1 /\ a < Word
  BY WordSize, MemFileAssumption
<1>2. a % Word = a
  BY <1>1, ModSmall
<1>3. (a \div Page) * Page > a - Page /\ (a \div Page) * Page \in Nat
  BY <1>1, DivTimes, MemFileAssumption
<1>4. Mem!NewSize(n) = (a \div Page) * Page
  BY <1>1, <1>2 DEF Mem!NewSize
<1>5. PICK c \in Nat : c = (a \div Page) * Page
  BY <1>3
<1> QED
  BY <1>1, <1>3, <1>4, <1>5, MemFileAssumption

LEMMA MinOfTwo == \A a, b \in Int : Mem!Min({a, b}) = IF a <= b THEN a ELSE b
BY DEF Mem!Min
LEMMA PlainMinOfTwo == \A a, b \in Int : Mem!Plain!Min({a, b}) = IF a <= b THEN a ELSE b
BY DEF Mem!Plain!Min
LEMMA PlainMaxOfTwo == \A a, b \in Int : Mem!Plain!Max({a, b}) = IF a <= b THEN b ELSE a
BY DEF Mem!Plain!Max

(* c is x with y behind it.                                                *)
IsConcat(c, x, y) ==
  /\ c \in Seq(Int) /\ Len(c) = Len(x) + Len(y)
  /\ \A i \in 1..Len(x) : c[i] = x[i]
  /\ \A i \in 1..Len(c) : i > Len(x) => i - Len(x) \in 1..Len(y) /\ c[i] = y[i - Len(x)]

LEMMA Concat == \A x, y \in Seq(Int) : IsConcat(x \o y, x, y)
<1> SUFFICES ASSUME NEW x \in Seq(Int), NEW y \in Seq(Int), NEW c, c = x \o y
             PROVE  IsConcat(c, x, y)
  OBVIOUS
<1>1. c \in Seq(Int) /\ Len(c) = Len(x) + Len(y)
  OBVIOUS
<1>2. \A i \in 1..Len(x) + Len(y) : c[i] = IF i <= Len(x) THEN x[i] ELSE y[i - Len(x)]
  BY ConcatProperties
<1>3. Len(x) \in Nat /\ Len(y) \in Nat
  OBVIOUS
<1> QED
  BY <1>1, <1>2, <1>3 DEF IsConcat

(* n bytes of memory, what was there before at the start.                  *)
LEMMA ResizedBytes ==
  ASSUME NEW m, m \in Seq(Int) \cup {NULL}, NEW n \in Nat
  PROVE  /\ Mem!Resized(m, n) \in Seq(Int) /\ Len(Mem!Resized(m, n)) = n
         /\ m # NULL => \A i \in 1..n : i <= Len(m) => Mem!Resized(m, n)[i] = m[i]
<1>1. PICK b : b = IF m = NULL THEN <<>> ELSE m
  OBVIOUS
<1>2. PICK u : u = [i \in 1..n |-> Unset]
  OBVIOUS
<1>3. b \in Seq(Int) /\ u \in Seq(Int) /\ Len(u) = n
  BY <1>1, <1>2, MemFileAssumption
<1>4. PICK c : c = b \o u
  OBVIOUS
<1>5. c \in Seq(Int) /\ Len(c) = Len(b) + n /\ \A i \in 1..Len(b) : c[i] = b[i]
  <2>1. IsConcat(c, b, u)
    BY <1>3, <1>4, Concat, Zenon
  <2> QED
    BY <2>1, <1>3 DEF IsConcat
<1>6. Mem!Resized(m, n) = SubSeq(c, 1, n)
  BY <1>1, <1>2, <1>4 DEF Mem!Resized
<1>7. SubSeq(c, 1, n) \in Seq(Int) /\ Len(SubSeq(c, 1, n)) = n
  BY <1>3, <1>5
<1>8. \A i \in 1..n : SubSeq(c, 1, n)[i] = c[i]
  BY <1>3, <1>5
<1> QED
  BY <1>1, <1>3, <1>5, <1>6, <1>7, <1>8

(* q is b with the bytes s at p.                                           *)
IsPut(q, b, s, p) ==
  /\ q \in Seq(Int) /\ Len(q) = Len(b)
  /\ \A i \in 1..Len(b) : q[i] = IF i - p \in 1..Len(s) THEN s[i - p] ELSE b[i]

LEMMA PutBytes ==
  ASSUME NEW b \in Seq(Int), NEW s \in Seq(Int), NEW p \in Nat, p + Len(s) <= Len(b),
         NEW q, q = SubSeq(b, 1, p) \o s \o SubSeq(b, p + Len(s) + 1, Len(b))
  PROVE  IsPut(q, b, s, p)
<1>1. PICK x : x = SubSeq(b, 1, p)
  OBVIOUS
<1>2. PICK z : z = SubSeq(b, p + Len(s) + 1, Len(b))
  OBVIOUS
<1>3. PICK l \in Nat : l = Len(s) /\ Len(b) \in Nat
  OBVIOUS
<1>4. x \in Seq(Int) /\ Len(x) = p /\ \A i \in 1..p : x[i] = b[i]
  BY <1>1, <1>3
<1>5. z \in Seq(Int) /\ Len(z) = Len(b) - (p + l)
  BY <1>2, <1>3
<1>6. \A i \in 1..Len(z) : z[i] = b[i + (p + l)]
  BY <1>2, <1>3, <1>5
<1>7. PICK y : y = x \o s
  OBVIOUS
<1>8. /\ y \in Seq(Int) /\ Len(y) = p + l
      /\ \A i \in 1..p : y[i] = x[i]
      /\ \A i \in 1..p + l : i > p => i - p \in 1..l /\ y[i] = s[i - p]
  <2>1. IsConcat(y, x, s)
    BY <1>4, <1>7, Concat, Zenon
  <2> QED
    BY <2>1, <1>3, <1>4 DEF IsConcat
<1>9. q = y \o z
  BY <1>1, <1>2, <1>7
<1>10. /\ q \in Seq(Int) /\ Len(q) = Len(b)
       /\ \A i \in 1..p + l : q[i] = y[i]
       /\ \A i \in 1..Len(b) : i > p + l => i - (p + l) \in 1..Len(z) /\ q[i] = z[i - (p + l)]
  <2>1. IsConcat(q, y, z)
    BY <1>5, <1>8, <1>9, Concat, Zenon
  <2>2. Len(q) = Len(b)
    <3>1. Len(q) = Len(y) + Len(z) /\ Len(y) = p + l /\ Len(z) = Len(b) - (p + l)
      BY <2>1, <1>5, <1>8 DEF IsConcat
    <3>2. PICK n \in Nat : n = Len(b)
      BY <1>3
    <3>3. PICK k \in Nat : k = p + l
      BY <1>3
    <3>4. Len(q) = k + (n - k)
      BY <3>1, <3>2, <3>3
    <3>5. k + (n - k) = n
      OBVIOUS
    <3> QED
      BY <3>2, <3>4, <3>5
  <2> QED
    BY <2>1, <2>2, <1>8 DEF IsConcat
<1>11. ASSUME NEW i \in 1..Len(b)
       PROVE  q[i] = IF i - p \in 1..l THEN s[i - p] ELSE b[i]
  <2>4. i \in Int /\ 1 <= i /\ i <= Len(b) /\ p \in Nat /\ l \in Nat /\ p + l <= Len(b)
    BY <1>3
  <2>1. CASE i <= p
    <3>1. i \in 1..p /\ i \in 1..p + l /\ ~(i - p \in 1..l)
      BY <2>1, <2>4
    <3> QED
      BY <3>1, <1>4, <1>8, <1>10
  <2>2. CASE i > p /\ i <= p + l
    <3>1. i \in 1..p + l
      BY <2>2, <2>4
    <3> QED
      BY <3>1, <2>2, <1>8, <1>10
  <2>3. CASE i > p + l
    <3>1. PICK j \in 1..Len(z) : j = i - (p + l) /\ q[i] = z[j]
      BY <2>3, <1>10
    <3>2. j + (p + l) = i
      BY <3>1, <2>4
    <3>3. q[i] = b[i]
      BY <3>1, <3>2, <1>6
    <3>4. ~(i - p \in 1..l)
      BY <2>3, <2>4
    <3> QED
      BY <3>3, <3>4
  <2>5. i <= p \/ (i > p /\ i <= p + l) \/ i > p + l
    BY <2>4
  <2> QED
    BY <2>1, <2>2, <2>3, <2>5, Zenon
<1> QED
  BY <1>3, <1>10, <1>11 DEF IsPut

-----------------------------------------------------------------------------
Memory == Seq(Int) \cup {NULL}

Files ==
  [buffer : Memory, memory : Memory, MemBase : {NULL, "buffer", "memory"}, buffersize : Nat,
   mysize : Nat, pos : Nat, readonly : BOOLEAN, maxsize : Nat]

(* What a file writes to is a buffer of the size it thinks.                *)
Backed(f) ==
  f.MemBase = "buffer" =>
    f.buffer \in Seq(Int) /\ f.buffersize = Len(f.buffer) /\ f.buffersize \in 1..Half - 1

(* Every state of the file. A position is any number of a word.            *)
FileOK(f) ==
  /\ f \in Files /\ f.pos < Word
  /\ Backed(f)
  /\ f.MemBase = "buffer" => f.readonly = FALSE /\ f.mysize <= f.buffersize
  /\ f.MemBase = "memory" =>
       /\ f.readonly = TRUE /\ f.memory \in Seq(Int) /\ f.mysize = Len(f.memory)
       /\ f.mysize < Half
  /\ f.MemBase = NULL => f.mysize = 0
  /\ f.MemBase # "buffer" /\ f.buffer # NULL => f.buffer \in Seq(Int) /\ Len(f.buffer) = Scratch

(* What ByteFile sees of f.                                                *)
BytesOf(f) == IF f.MemBase = "buffer" THEN f.buffer ELSE f.memory
ContentOf(f) == IF f.MemBase = NULL THEN <<>> ELSE SubSeq(BytesOf(f), 1, f.mysize)
ModeOf(f) ==
  IF f.MemBase # NULL THEN IF f.readonly THEN "read" ELSE "write"
  ELSE IF f.readonly THEN "shut"
  ELSE IF f.buffersize = 0 THEN "fresh" ELSE "spent"

LEMMA ContentBytes ==
  ASSUME NEW f, FileOK(f)
  PROVE  /\ ContentOf(f) \in Seq(Int) /\ Len(ContentOf(f)) = f.mysize /\ f.mysize \in Nat
         /\ \A i \in 1..f.mysize : ContentOf(f)[i] = BytesOf(f)[i]
         /\ f.MemBase # NULL => BytesOf(f) \in Seq(Int) /\ f.mysize <= Len(BytesOf(f))
                                /\ Len(BytesOf(f)) < Half
<1>1. f.mysize \in Nat /\ f.MemBase \in {NULL, "buffer", "memory"}
  BY DEF FileOK, Files
<1>2. CASE f.MemBase = NULL
  BY <1>1, <1>2 DEF FileOK, ContentOf
<1>3. CASE f.MemBase # NULL
  <2>1. PICK b : b = BytesOf(f)
    OBVIOUS
  <2>2. b \in Seq(Int) /\ f.mysize <= Len(b) /\ Len(b) < Half
    BY <1>1, <1>3, <2>1, WordSize DEF FileOK, Backed, BytesOf
  <2>3. /\ SubSeq(b, 1, f.mysize) \in Seq(Int) /\ Len(SubSeq(b, 1, f.mysize)) = f.mysize
        /\ \A i \in 1..f.mysize : SubSeq(b, 1, f.mysize)[i] = b[i]
    BY <1>1, <2>2
  <2> QED
    BY <1>1, <1>3, <2>1, <2>2, <2>3 DEF ContentOf
<1> QED
  BY <1>2, <1>3

(* resizeBuffer, with memory for it: what the file had is still there.     *)
LEMMA ResizeFields ==
  ASSUME NEW f, FileOK(f), NEW n \in Nat, NEW g, g = Mem!resizeBuffer(f, n)
  PROVE  /\ DOMAIN g = DOMAIN f /\ g = [x \in DOMAIN g |-> g[x]]
         /\ g.mysize = n /\ g.pos = (IF f.pos <= n THEN f.pos ELSE n)
         /\ g.readonly = f.readonly /\ g.maxsize = f.maxsize /\ g.memory = f.memory
         /\ Mem!NewSize(n) > f.buffersize =>
              /\ g.buffer = Mem!Resized(f.buffer, Mem!NewSize(n))
              /\ g.buffersize = Mem!NewSize(n) /\ g.MemBase = "buffer"
         /\ ~(Mem!NewSize(n) > f.buffersize) =>
              g.buffer = f.buffer /\ g.buffersize = f.buffersize /\ g.MemBase = f.MemBase
<1>1. f \in Files /\ f.pos \in Int
  BY DEF FileOK, Files
<1>2. Mem!Min({f.pos, n}) = IF f.pos <= n THEN f.pos ELSE n
  BY <1>1, MinOfTwo
<1>3. PICK m : m = Mem!NewSize(n)
  OBVIOUS
<1>4. PICK b : b = Mem!Resized(f.buffer, m)
  OBVIOUS
<1>5. PICK p : p = Mem!Min({f.pos, n})
  OBVIOUS
<1>6. g = IF m > f.buffersize
          THEN [[f EXCEPT !.mysize = n, !.pos = p] EXCEPT !.buffer = b, !.MemBase = "buffer",
                                                          !.buffersize = m]
          ELSE [f EXCEPT !.mysize = n, !.pos = p]
  BY <1>1, <1>3, <1>4, <1>5 DEF Mem!resizeBuffer, Files
<1> QED
  BY <1>1, <1>2, <1>3, <1>4, <1>5, <1>6 DEF Files

LEMMA ResizeKeeps ==
  ASSUME NEW f, FileOK(f), f.readonly = FALSE, NEW n \in Nat, Mem!MayResize(f, n),
         NEW g, g = Mem!resizeBuffer(f, n)
  PROVE  /\ g \in Files /\ Backed(g)
         /\ g.MemBase = "buffer" => \A i \in 1..n : i <= f.mysize => g.buffer[i] = ContentOf(f)[i]
         /\ n + Page <= Word =>
              \/ g.MemBase = "buffer" /\ n <= g.buffersize
              \/ g.MemBase = NULL /\ (n > 0 => ModeOf(f) = "spent")
<1> DEFINE m == Mem!NewSize(n)
<1>1. /\ DOMAIN g = DOMAIN f /\ g = [x \in DOMAIN g |-> g[x]]
      /\ g.mysize = n /\ g.pos = (IF f.pos <= n THEN f.pos ELSE n)
      /\ g.readonly = f.readonly /\ g.maxsize = f.maxsize /\ g.memory = f.memory
      /\ m > f.buffersize =>
           g.buffer = Mem!Resized(f.buffer, m) /\ g.buffersize = m /\ g.MemBase = "buffer"
      /\ ~(m > f.buffersize) =>
           g.buffer = f.buffer /\ g.buffersize = f.buffersize /\ g.MemBase = f.MemBase
  BY ResizeFields
<1>2. m \in Nat /\ (n + Page <= Word => n <= m)
  BY NewSizeType, NewSizeCovers
<1>3. m > f.buffersize => m <= MaxAlloc
  BY DEF Mem!MayResize
<1> HIDE DEF m
<1>4. f \in Files /\ f.MemBase \in {NULL, "buffer"}
  BY DEF FileOK, Files
<1>5. /\ f.buffer \in Memory /\ f.memory \in Memory /\ f.buffersize \in Nat /\ f.mysize \in Nat
      /\ f.pos \in Nat /\ f.maxsize \in Nat /\ f.readonly \in BOOLEAN
      /\ DOMAIN f = {"buffer", "memory", "MemBase", "buffersize", "mysize", "pos", "readonly",
                     "maxsize"}
  BY <1>4 DEF Files
<1>6. /\ Mem!Resized(f.buffer, m) \in Seq(Int) /\ Len(Mem!Resized(f.buffer, m)) = m
      /\ f.buffer # NULL =>
           \A i \in 1..m : i <= Len(f.buffer) => Mem!Resized(f.buffer, m)[i] = f.buffer[i]
  BY <1>2, <1>5, ResizedBytes DEF Memory
<1>7. /\ Len(ContentOf(f)) = f.mysize /\ \A i \in 1..f.mysize : ContentOf(f)[i] = BytesOf(f)[i]
  BY ContentBytes
<1>8. CASE m > f.buffersize
  <2>1. g.buffer \in Seq(Int) /\ g.buffersize = Len(g.buffer) /\ g.buffersize \in 1..Half - 1
        /\ g.MemBase = "buffer"
    BY <1>1, <1>2, <1>3, <1>5, <1>6, <1>8, MemFileAssumption, WordSize
  <2>2. g \in Files
    BY <1>1, <1>5, <2>1 DEF Files, Memory
  <2>3. ASSUME NEW i \in 1..n, i <= f.mysize PROVE g.buffer[i] = ContentOf(f)[i]
    <3>1. f.MemBase = "buffer"
      BY <1>4, <1>5, <2>3 DEF FileOK
    <3>2. /\ i \in 1..f.mysize /\ ContentOf(f)[i] = f.buffer[i]
          /\ f.buffer # NULL /\ i <= Len(f.buffer) /\ f.buffersize = Len(f.buffer)
      BY <1>5, <1>7, <2>3, <3>1, MemFileAssumption DEF BytesOf, FileOK, Backed
    <3>3. i \in 1..m
      BY <1>2, <1>5, <1>8, <3>2
    <3> QED
      BY <1>1, <1>6, <1>8, <3>2, <3>3
  <2> QED
    BY <1>1, <1>2, <1>8, <2>1, <2>2, <2>3 DEF Backed
<1>9. CASE ~(m > f.buffersize)
  <2>1. g \in Files
    BY <1>1, <1>4, <1>5, <1>9 DEF Files
  <2>2. Backed(g)
    BY <1>1, <1>9 DEF FileOK, Backed
  <2>3. ASSUME g.MemBase = "buffer", NEW i \in 1..n, i <= f.mysize
        PROVE  g.buffer[i] = ContentOf(f)[i]
    BY <1>1, <1>5, <1>7, <1>9, <2>3 DEF BytesOf
  <2>4. ASSUME n + Page <= Word
        PROVE  \/ g.MemBase = "buffer" /\ n <= g.buffersize
               \/ g.MemBase = NULL /\ (n > 0 => ModeOf(f) = "spent")
    <3>1. n <= m /\ m <= f.buffersize
      BY <1>2, <1>5, <1>9, <2>4
    <3>2. CASE f.MemBase = "buffer"
      BY <1>1, <1>2, <1>5, <1>9, <3>1, <3>2
    <3>3. CASE f.MemBase = NULL
      BY <1>1, <1>2, <1>5, <1>9, <3>1, <3>3 DEF ModeOf
    <3> QED
      BY <1>4, <3>2, <3>3
  <2> QED
    BY <2>1, <2>2, <2>3, <2>4
<1> QED
  BY <1>8, <1>9

LEMMA FileFields ==
  ASSUME NEW f, f \in Files
  PROVE  /\ f.buffer \in Memory /\ f.memory \in Memory /\ f.buffersize \in Nat /\ f.mysize \in Nat
         /\ f.MemBase \in {NULL, "buffer", "memory"}
         /\ f.pos \in Nat /\ f.maxsize \in Nat /\ f.readonly \in BOOLEAN
         /\ DOMAIN f = {"buffer", "memory", "MemBase", "buffersize", "mysize", "pos", "readonly",
                        "maxsize"}
BY DEF Files

(* h is g, with the position at q, after s was put at p.                   *)
IsPutInto(h, g, s, p, q) ==
  /\ h \in Files /\ IsPut(h.buffer, g.buffer, s, p)
  /\ h.memory = g.memory /\ h.MemBase = g.MemBase /\ h.buffersize = g.buffersize
  /\ h.mysize = g.mysize /\ h.pos = q /\ h.readonly = g.readonly /\ h.maxsize = g.maxsize

LEMMA PutFields ==
  ASSUME NEW g, g \in Files, g.buffer \in Seq(Int), NEW s \in Seq(Int), NEW p \in Nat,
         p + Len(s) <= Len(g.buffer), NEW h, h = Mem!Put(g, p, s)
  PROVE  IsPutInto(h, g, s, p, g.pos)
<1>1. PICK q : q = SubSeq(g.buffer, 1, p) \o s \o SubSeq(g.buffer, p + Len(s) + 1, Len(g.buffer))
  OBVIOUS
<1>2. IsPut(q, g.buffer, s, p)
  BY <1>1, PutBytes
<1>3. h = [g EXCEPT !.buffer = q]
  BY <1>1 DEF Mem!Put, Files
<1>4. h.buffer = q
  BY <1>3 DEF Files
<1>5. h \in Files
  BY <1>2, <1>3 DEF Files, Memory, IsPut
<1>6. /\ h.memory = g.memory /\ h.MemBase = g.MemBase /\ h.buffersize = g.buffersize
      /\ h.mysize = g.mysize /\ h.pos = g.pos /\ h.readonly = g.readonly /\ h.maxsize = g.maxsize
  BY <1>3 DEF Files
<1> QED
  BY <1>2, <1>4, <1>5, <1>6 DEF IsPutInto

LEMMA MoveFields ==
  ASSUME NEW g, g \in Files, NEW p \in Nat, NEW h, h = [g EXCEPT !.pos = p]
  PROVE  /\ h \in Files /\ h.buffer = g.buffer
         /\ h.memory = g.memory /\ h.MemBase = g.MemBase /\ h.buffersize = g.buffersize
         /\ h.mysize = g.mysize /\ h.pos = p /\ h.readonly = g.readonly
         /\ h.maxsize = g.maxsize
BY DEF Files

(* What a buffer of the size it thinks was given is a file.                *)
GoodPut(h, g, s, p, q) ==
  /\ FileOK(h) /\ h.pos = q /\ h.mysize = g.mysize /\ h.maxsize = g.maxsize
  /\ ModeOf(h) = "write" /\ Len(ContentOf(h)) = g.mysize
  /\ \A i \in 1..g.mysize :
       ContentOf(h)[i] = IF i - p \in 1..Len(s) THEN s[i - p] ELSE g.buffer[i]

LEMMA PutIsFile ==
  ASSUME NEW g, g \in Files, Backed(g), g.MemBase = "buffer", g.readonly = FALSE,
         NEW s \in Seq(Int), NEW p \in Nat, p + Len(s) <= Len(g.buffer),
         g.mysize <= g.buffersize, NEW q \in Nat, q < Word,
         NEW h, IsPutInto(h, g, s, p, q)
  PROVE  GoodPut(h, g, s, p, q)
<1>1. IsPut(h.buffer, g.buffer, s, p)
  BY DEF IsPutInto
<1>2. /\ h \in Files /\ h.memory = g.memory /\ h.MemBase = g.MemBase
      /\ h.buffersize = g.buffersize /\ h.mysize = g.mysize /\ h.pos = q
      /\ h.readonly = g.readonly /\ h.maxsize = g.maxsize
  BY DEF IsPutInto
<1>3. h.buffer \in Seq(Int) /\ Len(h.buffer) = Len(g.buffer)
  BY <1>1 DEF IsPut
<1>4. g.MemBase # NULL /\ g.MemBase # "memory"
  BY MemFileAssumption
<1>5. FileOK(h)
  BY <1>2, <1>3, <1>4 DEF FileOK, Backed
<1>6. ModeOf(h) = "write"
  BY <1>2, <1>4 DEF ModeOf
<1>7. Len(ContentOf(h)) = g.mysize /\ \A i \in 1..g.mysize : ContentOf(h)[i] = h.buffer[i]
  BY <1>2, <1>5, ContentBytes DEF BytesOf
<1>8. \A i \in 1..g.mysize : i \in 1..Len(g.buffer)
  BY FileFields DEF Backed
<1>9. ASSUME NEW i \in 1..g.mysize
      PROVE  ContentOf(h)[i] = IF i - p \in 1..Len(s) THEN s[i - p] ELSE g.buffer[i]
  <2>1. h.buffer[i] = IF i - p \in 1..Len(s) THEN s[i - p] ELSE g.buffer[i]
    BY <1>1, <1>8 DEF IsPut
  <2> QED
    BY <1>7, <2>1
<1> QED
  BY <1>2, <1>5, <1>6, <1>7, <1>9 DEF GoodPut

LEMMA PutAndMove ==
  ASSUME NEW g, g \in Files, Backed(g), g.MemBase = "buffer", g.readonly = FALSE,
         NEW s \in Seq(Int), NEW p \in Nat, p + Len(s) <= Len(g.buffer),
         g.mysize <= g.buffersize, NEW q \in Nat, q < Word,
         NEW h, h = [Mem!Put(g, p, s) EXCEPT !.pos = q]
  PROVE  GoodPut(h, g, s, p, q)
<1>1. PICK k : k = Mem!Put(g, p, s)
  OBVIOUS
<1>2. IsPutInto(k, g, s, p, g.pos)
  <2>1. g.buffer \in Seq(Int)
    BY DEF Backed
  <2> QED
    BY <1>1, <2>1, PutFields
<1>3. k \in Files
  BY <1>2 DEF IsPutInto
<1>4. /\ h \in Files /\ h.buffer = k.buffer
      /\ h.memory = k.memory /\ h.MemBase = k.MemBase /\ h.buffersize = k.buffersize
      /\ h.mysize = k.mysize /\ h.pos = q /\ h.readonly = k.readonly
      /\ h.maxsize = k.maxsize
  BY <1>1, <1>3, MoveFields
<1>5. IsPutInto(h, g, s, p, q)
  BY <1>2, <1>4 DEF IsPutInto
<1> QED
  BY <1>5, PutIsFile

(* h is f with the bytes s written at its position.                        *)
Wrote(f, s, h) ==
  /\ f.pos + Len(s) > f.mysize => f.maxsize = 0 \/ f.pos + Len(s) <= f.maxsize
  /\ Len(ContentOf(h)) = IF f.pos + Len(s) <= f.mysize THEN f.mysize ELSE f.pos + Len(s)
  /\ \A i \in 1..Len(ContentOf(h)) :
       /\ i - f.pos \in 1..Len(s) => ContentOf(h)[i] = s[i - f.pos]
       /\ i - f.pos \notin 1..Len(s) /\ i <= f.mysize => ContentOf(h)[i] = ContentOf(f)[i]
  /\ h.pos = f.pos + Len(s)

(* A write to f, as g with room for it, that leaves h: it finds the room   *)
(* unless the file had been closed or the position lost its sign.          *)
Writing(f, s, g, h) ==
  /\ ~Mem!HasRoom(g, g.pos, Len(s)) => ModeOf(f) = "spent" \/ f.pos >= Half
  /\ Mem!HasRoom(g, g.pos, Len(s)) =>
       /\ FileOK(h) /\ h.maxsize = f.maxsize /\ ModeOf(h) = "write"
       /\ Wrote(f, s, h) \/ (f.pos >= Half /\ f.mysize <= h.mysize)

LEMMA WriteGrows ==
  ASSUME NEW f, FileOK(f), NEW s \in Seq(Int), Len(s) > 0, Len(s) + Page <= Half,
         f.readonly = FALSE, f.pos < Half, f.pos + Len(s) > f.mysize,
         Mem!MayResize(f, f.pos + Len(s)),
         NEW g, g = Mem!resizeBuffer(f, f.pos + Len(s)),
         NEW h, h = [Mem!Put(g, g.pos, s) EXCEPT !.pos = g.pos + Len(s)]
  PROVE  Writing(f, s, g, h)
<1>1. f \in Files /\ f.pos \in Nat /\ f.mysize \in Nat
  BY FileFields DEF FileOK
<1>2. PICK n \in Nat : n = f.pos + Len(s)
  BY <1>1
<1>3. n + Page <= Word /\ n > 0 /\ n < Word
  <2>1. Page \in Nat /\ Page > 0
    BY MemFileAssumption
  <2>2. Len(s) \in Nat
    OBVIOUS
  <2> QED
    BY <1>1, <1>2, <2>1, <2>2, WordSize
<1>4. /\ g \in Files /\ Backed(g)
      /\ g.MemBase = "buffer" => \A i \in 1..n : i <= f.mysize => g.buffer[i] = ContentOf(f)[i]
      /\ \/ g.MemBase = "buffer" /\ n <= g.buffersize
         \/ g.MemBase = NULL /\ ModeOf(f) = "spent"
  BY <1>2, <1>3, ResizeKeeps
<1>5. /\ g.mysize = n /\ g.pos = f.pos /\ g.readonly = FALSE /\ g.maxsize = f.maxsize
  BY <1>1, <1>2, ResizeFields
<1>6. CASE g.MemBase = NULL
  BY <1>4, <1>6, MemFileAssumption DEF Mem!HasRoom, Writing
<1>7. CASE g.MemBase = "buffer"
  <2>1. /\ n <= g.buffersize /\ g.buffersize = Len(g.buffer)
    BY <1>4, <1>7, MemFileAssumption DEF Backed
  <2>2. Mem!HasRoom(g, g.pos, Len(s))
    BY <1>2, <1>5, <1>7, <2>1 DEF Mem!HasRoom
  <2>3. GoodPut(h, g, s, f.pos, n)
    <3>1. f.pos + Len(s) <= Len(g.buffer) /\ g.mysize <= g.buffersize
      BY <1>2, <1>5, <2>1
    <3>2. h = [Mem!Put(g, f.pos, s) EXCEPT !.pos = n]
      BY <1>2, <1>5
    <3> QED
      BY <1>1, <1>3, <1>4, <1>5, <1>7, <3>1, <3>2, PutAndMove
  <2>4. f.maxsize = 0 \/ n <= f.maxsize
    BY <1>2 DEF Mem!MayResize
  <2>5. Wrote(f, s, h)
    <3>1. \A i \in 1..n : i - f.pos \notin 1..Len(s) /\ i <= f.mysize => g.buffer[i] = ContentOf(f)[i]
      BY <1>4, <1>7
    <3>2. /\ h.pos = n /\ Len(ContentOf(h)) = n /\ f.pos + Len(s) = n
          /\ \A i \in 1..n :
               ContentOf(h)[i] = IF i - f.pos \in 1..Len(s) THEN s[i - f.pos] ELSE g.buffer[i]
      BY <1>2, <1>5, <2>3 DEF GoodPut
    <3>3. ASSUME NEW i \in 1..n
          PROVE  /\ i - f.pos \in 1..Len(s) => ContentOf(h)[i] = s[i - f.pos]
                 /\ i - f.pos \notin 1..Len(s) /\ i <= f.mysize => ContentOf(h)[i] = ContentOf(f)[i]
      BY <3>1, <3>2
    <3>4. ~(n <= f.mysize)
      BY <1>1, <1>2
    <3> QED
      BY <2>4, <3>2, <3>3, <3>4 DEF Wrote
  <2> QED
    BY <1>5, <2>2, <2>3, <2>5 DEF Writing, GoodPut
<1> QED
  BY <1>4, <1>6, <1>7

LEMMA WriteWithin ==
  ASSUME NEW f, FileOK(f), NEW s \in Seq(Int), Len(s) > 0,
         f.readonly = FALSE, f.pos + Len(s) <= f.mysize,
         NEW h, h = [Mem!Put(f, f.pos, s) EXCEPT !.pos = f.pos + Len(s)]
  PROVE  Writing(f, s, f, h)
<1>1. f \in Files /\ f.pos \in Nat /\ f.mysize \in Nat
  BY FileFields DEF FileOK
<1>2. f.MemBase = "buffer"
  BY <1>1, FileFields DEF FileOK
<1>3. /\ f.mysize <= f.buffersize /\ f.buffersize = Len(f.buffer) /\ f.buffersize \in 1..Half - 1
      /\ f.buffer \in Seq(Int)
  BY <1>2 DEF FileOK, Backed
<1>4. PICK n \in Nat : n = f.pos + Len(s)
  BY <1>1
<1>5. Mem!HasRoom(f, f.pos, Len(s)) /\ n < Word /\ n <= f.mysize /\ n <= Len(f.buffer)
  <2>1. n <= f.mysize /\ f.mysize <= f.buffersize /\ f.buffersize < Half /\ f.buffersize \in Nat
    BY <1>3, <1>4, WordSize
  <2>2. n <= f.buffersize /\ n < Word
    BY <1>1, <2>1, WordSize
  <2> QED
    BY <1>2, <1>3, <1>4, <2>1, <2>2 DEF Mem!HasRoom
<1>6. GoodPut(h, f, s, f.pos, n)
  <2>1. Backed(f)
    BY DEF FileOK
  <2>2. h = [Mem!Put(f, f.pos, s) EXCEPT !.pos = n] /\ f.pos + Len(s) <= Len(f.buffer)
    BY <1>4, <1>5
  <2> QED
    BY <1>1, <1>2, <1>3, <1>5, <2>1, <2>2, PutAndMove
<1>7. \A i \in 1..f.mysize : ContentOf(f)[i] = f.buffer[i]
  BY <1>2, ContentBytes DEF BytesOf
<1>8. Wrote(f, s, h)
  <2>1. /\ h.pos = n /\ Len(ContentOf(h)) = f.mysize /\ f.pos + Len(s) = n
        /\ \A i \in 1..f.mysize :
             ContentOf(h)[i] = IF i - f.pos \in 1..Len(s) THEN s[i - f.pos] ELSE f.buffer[i]
    BY <1>4, <1>6 DEF GoodPut
  <2>2. ASSUME NEW i \in 1..f.mysize
        PROVE  /\ i - f.pos \in 1..Len(s) => ContentOf(h)[i] = s[i - f.pos]
               /\ i - f.pos \notin 1..Len(s) => ContentOf(h)[i] = ContentOf(f)[i]
    BY <1>7, <2>1
  <2>3. ~(n > f.mysize)
    BY <1>1, <1>5
  <2> QED
    BY <1>5, <2>1, <2>2, <2>3 DEF Wrote
<1> QED
  BY <1>5, <1>6, <1>8 DEF Writing, GoodPut

(* A position that lost its sign: what is written lies anywhere.           *)
LEMMA WriteBefore ==
  ASSUME NEW f, FileOK(f), NEW s \in Seq(Int), Len(s) > 0, Len(s) + Page <= Half,
         f.readonly = FALSE, f.pos >= Half, Mem!MayWrite(f, s),
         NEW g, g = Mem!ForWrite(f, s),
         NEW h, h = [Mem!Put(g, g.pos, s) EXCEPT !.pos = g.pos + Len(s)]
  PROVE  Writing(f, s, g, h)
<1>1. f \in Files /\ f.pos \in Nat /\ f.mysize \in Nat /\ f.pos < Word
  BY FileFields DEF FileOK
<1>2. f.pos + Len(s) \in Nat
  BY <1>1
<1>3. Mem!EndOf(f, s) \in 0..Word - 1
  BY <1>2, ModRange DEF Mem!EndOf
<1>4. PICK n \in Nat : n = Mem!EndOf(f, s)
  BY <1>3, WordSize
<1>5. SUFFICES ASSUME Mem!HasRoom(g, g.pos, Len(s))
               PROVE  FileOK(h) /\ h.maxsize = f.maxsize /\ ModeOf(h) = "write"
                      /\ f.mysize <= h.mysize
  BY DEF Writing
<1>6. n > f.mysize
  <2>1. SUFFICES ASSUME ~(n > f.mysize) PROVE FALSE
    OBVIOUS
  <2>2. g = f
    BY <1>4, <2>1 DEF Mem!ForWrite, Mem!Grows
  <2>3. f.MemBase = "buffer" /\ f.pos + Len(s) <= Len(f.buffer)
    BY <1>5, <2>2 DEF Mem!HasRoom
  <2>4. Len(f.buffer) < Half /\ Len(f.buffer) \in Nat
    BY <2>3, WordSize DEF FileOK, Backed
  <2> QED
    BY <1>1, <2>3, <2>4, WordSize
<1>7. g = Mem!resizeBuffer(f, n) /\ Mem!MayResize(f, n)
  BY <1>4, <1>6 DEF Mem!ForWrite, Mem!MayWrite, Mem!Grows
<1>8. /\ g.mysize = n /\ g.pos = (IF f.pos <= n THEN f.pos ELSE n) /\ g.readonly = FALSE
      /\ g.maxsize = f.maxsize
  BY <1>7, ResizeFields
<1>9. g \in Files /\ Backed(g)
  BY <1>7, ResizeKeeps
<1>10. g.MemBase = "buffer" /\ g.pos + Len(s) <= Len(g.buffer)
  BY <1>5 DEF Mem!HasRoom
<1>11. g.buffersize = Len(g.buffer) /\ g.buffersize \in 1..Half - 1
  BY <1>9, <1>10 DEF Backed
<1>12. g.pos = n /\ n + Len(s) <= g.buffersize /\ n <= g.buffersize
  BY <1>1, <1>8, <1>10, <1>11, WordSize
<1>13. n + Len(s) \in Nat /\ n + Len(s) < Word
  BY <1>11, <1>12, WordSize
<1>14. GoodPut(h, g, s, n, n + Len(s))
  <2>1. h = [Mem!Put(g, n, s) EXCEPT !.pos = n + Len(s)]
    BY <1>12
  <2>2. g.mysize <= g.buffersize /\ n + Len(s) <= Len(g.buffer)
    BY <1>8, <1>11, <1>12
  <2> QED
    BY <1>8, <1>9, <1>10, <1>13, <2>1, <2>2, PutAndMove
<1> QED
  BY <1>1, <1>6, <1>8, <1>14 DEF GoodPut

(* Every write of every file is one of these.                              *)
LEMMA Write ==
  ASSUME NEW f, FileOK(f), NEW s \in Seq(Int), Len(s) > 0, Len(s) + Page <= Half,
         Mem!MayWrite(f, s), NEW g, g = Mem!ForWrite(f, s),
         NEW h, h = [Mem!Put(g, g.pos, s) EXCEPT !.pos = g.pos + Len(s)]
  PROVE  Writing(f, s, g, h)
<1>1. f \in Files /\ f.pos \in Nat /\ f.mysize \in Nat /\ f.readonly = FALSE
  BY FileFields DEF FileOK, Mem!MayWrite
<1>2. CASE f.pos >= Half
  BY <1>1, <1>2, WriteBefore
<1>3. CASE f.pos < Half
  <2>1. PICK n \in Nat : n = f.pos + Len(s)
    BY <1>1
  <2>2. n < Word
    BY <1>1, <1>3, <2>1, WordSize, MemFileAssumption
  <2>3. Mem!EndOf(f, s) = n
    BY <2>1, <2>2, ModSmall DEF Mem!EndOf
  <2>4. CASE n > f.mysize
    <3>1. g = Mem!resizeBuffer(f, f.pos + Len(s)) /\ Mem!MayResize(f, f.pos + Len(s))
      BY <2>1, <2>3, <2>4 DEF Mem!ForWrite, Mem!MayWrite, Mem!Grows
    <3> QED
      BY <1>1, <1>3, <2>1, <2>4, <3>1, WriteGrows
  <2>5. CASE ~(n > f.mysize)
    <3>1. g = f
      BY <2>3, <2>5 DEF Mem!ForWrite, Mem!Grows
    <3>2. f.pos + Len(s) <= f.mysize
      BY <1>1, <2>1, <2>5
    <3> QED
      BY <1>1, <3>1, <3>2, WriteWithin
  <2> QED
    BY <2>4, <2>5
<1> QED
  BY <1>1, <1>2, <1>3, WordSize

(* A step of the file is one of ByteFile's.                                *)
Simulated == Mem!Plain!Next \/ Mem!Plain!Divergence

(* What the file shows before and after a call.                            *)
LEMMA Shows ==
  /\ Mem!Content = ContentOf(file) /\ Mem!Mode = ModeOf(file)
  /\ Mem!Content' = ContentOf(file') /\ Mem!Mode' = ModeOf(file')
BY DEF Mem!Content, Mem!Mode, Mem!Bytes, ContentOf, ModeOf, BytesOf

Quiet == wild = NULL /\ wild' = wild /\ got' = <<>> /\ file'.maxsize = file.maxsize
SameBytes == ContentOf(file') = ContentOf(file) /\ ModeOf(file') = ModeOf(file)

(* One lemma for each action of ByteFile: what a step must show to be one. *)
LEMMA SimOpen ==
  ASSUME Quiet, NEW s \in Data, ContentOf(file') = s, file'.pos = 0,
         ModeOf(file') \in {"read", "write"}
  PROVE  Simulated
<1>1. Mem!Plain!open(s, "read") \/ Mem!Plain!open(s, "write")
  BY Shows DEF Mem!Plain!open, Mem!Plain!Quietly, Quiet
<1> QED
  BY <1>1 DEF Simulated, Mem!Plain!Next, Quiet

LEMMA SimOpenNothing ==
  ASSUME Quiet, ContentOf(file') = <<>>, file'.pos = 0, ModeOf(file') \in {"fresh", "shut"}
  PROVE  Simulated
<1>1. Mem!Plain!openNothing
  BY Shows DEF Mem!Plain!openNothing, Mem!Plain!Quietly, Quiet
<1> QED
  BY <1>1 DEF Simulated, Mem!Plain!Next, Quiet

LEMMA SimClose ==
  ASSUME Quiet, ContentOf(file') = <<>>, file'.pos = 0,
         ModeOf(file') = (IF ModeOf(file) = "write" THEN "spent"
                          ELSE IF ModeOf(file) = "read" THEN "shut" ELSE ModeOf(file))
  PROVE  Simulated
<1>1. Mem!Plain!close
  <2>1. Mem!Mode' = CASE Mem!Mode = "write" -> "spent" [] Mem!Mode = "read" -> "shut"
                      [] OTHER -> Mem!Mode
    BY Shows
  <2> QED
    BY Shows, <2>1 DEF Mem!Plain!close, Mem!Plain!Quietly, Quiet
<1> QED
  BY <1>1 DEF Simulated, Mem!Plain!Next, Quiet

LEMMA SimLimit ==
  ASSUME wild = NULL, wild' = wild, got' = <<>>, SameBytes, file'.pos = file.pos,
         file'.maxsize \in Lengths
  PROVE  Simulated
<1>1. Mem!Plain!setMaxSize(file'.maxsize)
  BY Shows DEF Mem!Plain!setMaxSize, Mem!Plain!Quietly, SameBytes
<1> QED
  BY <1>1 DEF Simulated, Mem!Plain!Next

LEMMA SimSeek == ASSUME Quiet, SameBytes PROVE Mem!Plain!MovesTo(file'.pos)
BY Shows DEF Mem!Plain!MovesTo, Mem!Plain!Quietly, Quiet, SameBytes

LEMMA SimNothing == ASSUME Quiet, SameBytes, file'.pos = file.pos PROVE Mem!Plain!fails
BY Shows DEF Mem!Plain!fails, Mem!Plain!Quietly, Quiet, SameBytes

Reading == /\ wild = NULL /\ wild' = wild /\ file'.maxsize = file.maxsize /\ SameBytes
           /\ ModeOf(file) \in {"read", "write"}

LEMMA SimRead ==
  ASSUME Reading
  PROVE  /\ Mem!Plain!Open /\ Mem!Plain!Returns(file'.pos)
         /\ got' = SubSeq(ContentOf(file), file.pos + 1, file'.pos) => Mem!Plain!ReadTo(file'.pos)
<1>1. Mem!Plain!Open /\ Mem!Plain!Returns(file'.pos)
  BY Shows DEF Mem!Plain!Open, Mem!Plain!Returns, Reading, SameBytes
<1> QED
  BY <1>1, Shows DEF Mem!Plain!ReadTo

LEMMA SimWrite ==
  ASSUME Quiet, FileOK(file), NEW s \in Data, ModeOf(file) \in {"fresh", "write", "spent"},
         Wrote(file, s, file'), ModeOf(file') = "write"
  PROVE  Mem!Plain!write(s)
<1>1. file.pos \in Int /\ file.mysize \in Int /\ Len(s) \in Int
  BY FileFields, MemFileAssumption DEF FileOK
<1>2. Len(ContentOf(file)) = file.mysize
  BY ContentBytes
<1>3. Mem!Plain!Max({file.mysize, file.pos + Len(s)})
        = IF file.pos + Len(s) <= file.mysize THEN file.mysize ELSE file.pos + Len(s)
  BY <1>1, PlainMaxOfTwo
<1>4. DOMAIN s = 1..Len(s)
  BY MemFileAssumption
<1>5. Mem!Plain!Written(Mem!Content, s)
  BY Shows, <1>1, <1>2, <1>3, <1>4 DEF Mem!Plain!Written, Mem!Plain!size, Wrote
<1> QED
  BY Shows, <1>5 DEF Mem!Plain!write, Mem!Plain!Writable, Mem!Plain!Quietly, Quiet

LEMMA SimWriteSomewhere ==
  ASSUME Quiet, ModeOf(file) \in {"fresh", "write", "spent"}, file.pos >= Half,
         ModeOf(file') = "write", Len(ContentOf(file')) >= Len(ContentOf(file))
  PROVE  Mem!Plain!writeSomewhere
BY Shows DEF Mem!Plain!writeSomewhere, Mem!Plain!Writable, Mem!Plain!BeforeTheStart,
   Mem!Plain!Half, Mem!Plain!size, Mem!Plain!Quietly, Quiet, Half

LEMMA SimAnywhere ==
  ASSUME wild = NULL, NEW c, Mem!GoesWild(c),
         \/ c = "fread" /\ file.pos > Len(ContentOf(file))
         \/ c = "fgetc" /\ file.pos = Len(ContentOf(file))
         \/ c = "fwrite" /\ (ModeOf(file) = "spent" \/ file.pos >= Half)
         \/ c = "truncate" /\ ModeOf(file) = "spent"
         \/ c = "copyFrom" /\ ModeOf(file) \in {"fresh", "write", "spent"}
  PROVE  Mem!Plain!Anywhere(c) /\ file' = file
<1>1. file' = file /\ got' = got /\ wild' = c
  BY DEF Mem!GoesWild
<1>2. Mem!Plain!Anywhere(c)
  BY Shows, <1>1 DEF Mem!Plain!Anywhere, Mem!Plain!Writable, Mem!Plain!BeforeTheStart,
     Mem!Plain!Half, Mem!Plain!size, Half
<1> QED
  BY <1>1, <1>2

LEMMA SameSeq ==
  ASSUME NEW x \in Seq(Int), NEW y \in Seq(Int), Len(x) = Len(y), \A i \in 1..Len(x) : x[i] = y[i]
  PROVE  x = y
OBVIOUS

LEMMA Padded ==
  ASSUME NEW c \in Seq(Int), NEW n \in Nat, NEW z, z = SubSeq(c \o [i \in 1..n |-> 0], 1, n)
  PROVE  z \in Seq(Int) /\ Len(z) = n /\ \A i \in 1..n : z[i] = IF i <= Len(c) THEN c[i] ELSE 0
<1>1. PICK o : o = [i \in 1..n |-> 0]
  OBVIOUS
<1>2. o \in Seq(Int) /\ Len(o) = n /\ \A i \in 1..n : o[i] = 0
  BY <1>1
<1>3. PICK d : d = c \o o
  OBVIOUS
<1>4. IsConcat(d, c, o)
  BY <1>2, <1>3, Concat, Zenon
<1>5. d \in Seq(Int) /\ Len(d) = Len(c) + n
  BY <1>2, <1>4 DEF IsConcat
<1>6. ASSUME NEW i \in 1..n PROVE d[i] = IF i <= Len(c) THEN c[i] ELSE 0
  <2>1. PICK l \in Nat : l = Len(c)
    OBVIOUS
  <2>2. CASE i <= l
    BY <1>4, <2>1, <2>2 DEF IsConcat
  <2>3. CASE i > l
    <3>1. i \in 1..Len(d)
      BY <1>5, <2>1
    <3>2. i - l \in 1..n /\ d[i] = o[i - l]
      BY <1>2, <1>4, <2>1, <2>3, <3>1 DEF IsConcat
    <3> QED
      BY <1>2, <2>1, <2>3, <3>2
  <2> QED
    BY <2>1, <2>2, <2>3
<1>7. z = SubSeq(d, 1, n)
  BY <1>1, <1>3
<1>8. z \in Seq(Int) /\ Len(z) = n /\ \A i \in 1..n : z[i] = d[i]
  BY <1>5, <1>7
<1> QED
  BY <1>6, <1>8

LEMMA SimTruncate ==
  ASSUME Quiet, FileOK(file), FileOK(file'), NEW n \in Lengths,
         ModeOf(file) \in {"fresh", "write", "spent"}, ModeOf(file') = "write",
         file.maxsize = 0 \/ n <= file.maxsize,
         file'.pos = (IF file.pos <= n THEN file.pos ELSE n), Len(ContentOf(file')) = n,
         \A i \in 1..n :
           ContentOf(file')[i] = IF i <= file.mysize THEN ContentOf(file)[i] ELSE 0
  PROVE  Mem!Plain!truncate(n) \/ Mem!Plain!truncateMoves(n)
<1>1. ContentOf(file) \in Seq(Int) /\ Len(ContentOf(file)) = file.mysize
      /\ ContentOf(file') \in Seq(Int)
  BY ContentBytes
<1>2. n \in Nat /\ file.pos \in Nat
  BY FileFields, MemFileAssumption DEF FileOK
<1>3. PICK z : z = SubSeq(ContentOf(file) \o [i \in 1..n |-> 0], 1, n)
  OBVIOUS
<1>4. z \in Seq(Int) /\ Len(z) = n
      /\ \A i \in 1..n : z[i] = IF i <= file.mysize THEN ContentOf(file)[i] ELSE 0
  BY <1>1, <1>2, <1>3, Padded
<1>5. ContentOf(file') = z
  BY <1>1, <1>4, SameSeq
<1>6. Mem!Plain!Truncated(n)
  BY Shows, <1>3, <1>5 DEF Mem!Plain!Truncated, Mem!Plain!Writable, Mem!Plain!Quietly, Quiet
<1>7. file'.pos = file.pos \/ (file.pos > n /\ file'.pos = n)
  BY <1>2
<1> QED
  BY <1>6, <1>7 DEF Mem!Plain!truncate, Mem!Plain!truncateMoves

SeqOver(d, c, s) ==
  /\ d \in Seq(Int) /\ Len(d) = Len(c)
  /\ \A i \in 1..Len(c) : d[i] = IF i \in 1..Len(s) THEN s[i] ELSE c[i]

LEMMA OverBytes ==
  ASSUME NEW c \in Seq(Int), NEW s \in Seq(Int), NEW d, SeqOver(d, c, s)
  PROVE  Mem!Plain!Over(c, 0, s) = d
<1>1. PICK l : l = Len(s)
  OBVIOUS
<1>2. l \in Nat /\ DOMAIN c = 1..Len(c) /\ DOMAIN s = 1..l
  BY <1>1
<1>3. PICK o : o = Mem!Plain!Over(c, 0, s)
  OBVIOUS
<1>4. o = [i \in 1..Len(c) |-> IF i - 0 \in 1..l THEN s[i - 0] ELSE c[i]]
  BY <1>2, <1>3 DEF Mem!Plain!Over
<1>5. \A i \in 1..Len(c) : i - 0 = i
  OBVIOUS
<1>6. o = [i \in 1..Len(c) |-> IF i \in 1..l THEN s[i] ELSE c[i]]
  BY <1>4, <1>5
<1>7. d = [i \in 1..Len(c) |-> d[i]]
  BY DEF SeqOver
<1>8. \A i \in 1..Len(c) : d[i] = IF i \in 1..l THEN s[i] ELSE c[i]
  BY <1>1 DEF SeqOver
<1> QED
  BY <1>3, <1>6, <1>7, <1>8

Writables == {"fresh", "write", "spent"}

(* The bytes are in the buffer and nothing is written to the file.         *)
LEMMA SimCopyNothing ==
  ASSUME Quiet, FileOK(file), NEW s \in Data, ModeOf(file) = "write",
         SeqOver(ContentOf(file'), ContentOf(file), s),
         ModeOf(file') = ModeOf(file), file'.pos = file.pos
  PROVE  Mem!Plain!copyOverStart(s)
<1>1. s \in Seq(Int) /\ ContentOf(file) \in Seq(Int)
  BY ContentBytes, MemFileAssumption
<1>2. ContentOf(file') = Mem!Plain!Over(ContentOf(file), 0, s)
  BY <1>1, OverBytes
<1> QED
  BY Shows, <1>2 DEF Mem!Plain!copyOverStart, Mem!Plain!Quietly, Quiet

(* They are written from g, the file with them in its buffer.              *)
LEMMA SimCopy ==
  ASSUME Quiet, FileOK(file), NEW s \in Data, ModeOf(file) = "write",
         NEW g, FileOK(g), g.pos = file.pos, g.mysize = file.mysize, g.maxsize = file.maxsize,
         SeqOver(ContentOf(g), ContentOf(file), s), Wrote(g, s, file'), ModeOf(file') = "write"
  PROVE  Mem!Plain!copyOverStart(s)
<1>1. s \in Seq(Int) /\ ContentOf(file) \in Seq(Int) /\ Len(ContentOf(file)) = file.mysize
  BY ContentBytes, MemFileAssumption
<1>2. ContentOf(g) = Mem!Plain!Over(ContentOf(file), 0, s)
  BY <1>1, OverBytes
<1>3. file.pos \in Int /\ file.mysize \in Int /\ Len(s) \in Int /\ DOMAIN s = 1..Len(s)
  BY <1>1, FileFields DEF FileOK
<1>4. Mem!Plain!Max({file.mysize, file.pos + Len(s)})
        = IF file.pos + Len(s) <= file.mysize THEN file.mysize ELSE file.pos + Len(s)
  BY <1>3, PlainMaxOfTwo
<1>5. Mem!Plain!Written(ContentOf(g), s)
  BY Shows, <1>1, <1>3, <1>4 DEF Mem!Plain!Written, Mem!Plain!size, Wrote
<1> QED
  BY Shows, <1>2, <1>5 DEF Mem!Plain!copyOverStart, Mem!Plain!Quietly, Quiet

Good == FileOK(file) /\ wild = NULL
Done == FileOK(file') /\ Simulated

(* One lemma for each call of MemFile.                                     *)
LEMMA Becoming ==
  ASSUME Good, NEW g, Mem!Becomes(g), g.maxsize = file.maxsize
  PROVE  Quiet /\ file' = g
BY DEF Good, Mem!Becomes, Mem!Returns, Quiet

LEMMA StepMoves ==
  ASSUME Good, NEW p \in 0..Word - 1, Mem!MovesTo(p)
  PROVE  FileOK(file') /\ Mem!Plain!MovesTo(p)
<1>1. file \in Files /\ FileOK(file)
  BY DEF Good, FileOK
<1>2. PICK g : g = [file EXCEPT !.pos = p]
  OBVIOUS
<1>3. /\ g \in Files /\ g.buffer = file.buffer
      /\ g.memory = file.memory /\ g.MemBase = file.MemBase /\ g.buffersize = file.buffersize
      /\ g.mysize = file.mysize /\ g.pos = p /\ g.readonly = file.readonly
      /\ g.maxsize = file.maxsize
  BY <1>1, <1>2, WordSize, MoveFields
<1>4. FileOK(g)
  BY <1>1, <1>3, WordSize DEF FileOK, Backed
<1>5. Quiet /\ file' = g
  BY <1>2, <1>3, Becoming DEF Mem!MovesTo
<1>6. SameBytes
  BY <1>3, <1>5 DEF SameBytes, ContentOf, ModeOf, BytesOf
<1> QED
  BY <1>3, <1>4, <1>5, <1>6, SimSeek

LEMMA StepRewind == ASSUME Good, Mem!rewind PROVE FileOK(file') /\ Mem!Plain!rewind
<1>1. 0 \in 0..Word - 1
  BY WordSize
<1> QED
  BY <1>1, StepMoves DEF Mem!rewind, Mem!Plain!rewind

LEMMA StepSeek == ASSUME Good, NEW n \in Lengths, Mem!seek(n) PROVE FileOK(file') /\ Mem!Plain!seek(n)
<1>1. file.mysize < Half /\ file.mysize \in Nat
  BY FileFields, WordSize DEF Good, FileOK, Backed
<1>2. n < file.mysize /\ Mem!MovesTo(n)
  BY DEF Mem!seek
<1>3. n \in 0..Word - 1
  BY <1>1, <1>2, WordSize, MemFileAssumption
<1> QED
  BY <1>2, <1>3, StepMoves DEF Mem!Plain!seek

LEMMA StepSeekFrom ==
  ASSUME Good, NEW o \in Offsets, NEW origin \in Mem!Plain!Origins, Mem!seekFrom(o, origin)
  PROVE  /\ FileOK(file')
         /\ Mem!Plain!seekFrom(o, origin) \/ Mem!Plain!seekMisses(o, origin)
<1>1. /\ file.mysize \in Nat /\ file.mysize < Half /\ file.pos \in 0..Word - 1
      /\ o \in -Half..Half - 1 /\ FileOK(file)
  BY FileFields, WordSize, MemFileAssumption DEF Good, FileOK, Backed
<1>2. origin \in {"SEEKSET", "SEEKCUR", "SEEKEND"}
  BY DEF Mem!Plain!Origins
<1>3. PICK t : t = Mem!Plain!Target(o, origin)
  OBVIOUS
<1>4. t = IF origin = "SEEKSET" THEN o
          ELSE IF origin = "SEEKCUR" THEN file.pos + o ELSE file.mysize - o
  BY <1>1, <1>2, <1>3, Shows, ContentBytes DEF Mem!Plain!Target, Mem!Plain!size
<1>5. t \in Int
  BY <1>1, <1>2, <1>4, WordSize
<1>6. PICK p : p = t % Word
  OBVIOUS
<1>7. p \in 0..Word - 1 /\ 0 \in 0..Word - 1
  BY <1>5, <1>6, ModRange, WordSize
<1>8. \/ origin = "SEEKCUR" /\ p < file.mysize /\ Mem!MovesTo(p)
      \/ origin = "SEEKCUR" /\ p >= file.mysize /\ p >= Half /\ Mem!MovesTo(0)
      \/ origin = "SEEKEND" /\ p > file.mysize /\ Mem!MovesTo(p)
      \/ origin = "SEEKSET" /\ p >= Half /\ Mem!MovesTo(0)
      \/ origin = "SEEKSET" /\ p < Half /\ Mem!MovesTo(p)
  BY <1>1, <1>2, <1>4, <1>6, <1>7, WordSize DEF Mem!seekFrom, Mem!Negative, Half
<1>9. CASE t \in 0..Half - 1
  <2>1. p = t
    BY <1>6, <1>9, ModSmall, WordSize
  <2>2. Mem!MovesTo(t)
    BY <1>8, <1>9, <2>1, WordSize
  <2> QED
    BY <1>3, <1>7, <2>1, <2>2, StepMoves DEF Mem!Plain!seekFrom
<1>10. CASE t \notin 0..Half - 1
  <2>1. CASE Mem!MovesTo(0)
    BY <1>3, <1>7, <1>10, <2>1, StepMoves DEF Mem!Plain!seekMisses, Mem!Plain!Half, Half
  <2>2. CASE Mem!MovesTo(p) /\ (origin = "SEEKEND" \/ file.pos >= Half)
    BY <1>3, <1>6, <1>7, <1>10, <2>2, StepMoves
       DEF Mem!Plain!seekMisses, Mem!Plain!BeforeTheStart, Mem!Plain!Half, Half
  <2>3. CASE origin = "SEEKCUR" /\ p < file.mysize /\ file.pos < Half
    <3>1. t < 0 => p = t + Word
      BY <1>1, <1>4, <1>6, <2>3, WordSize
    <3>2. t >= Half => p = t
      BY <1>1, <1>4, <1>6, <2>3, WordSize
    <3> QED
      BY <1>1, <1>4, <1>5, <1>10, <2>3, <3>1, <3>2, WordSize
  <2>4. CASE origin = "SEEKSET" /\ p < Half
    <3>1. t < 0 /\ p = t + Word
      BY <1>1, <1>4, <1>6, <1>10, <2>4, WordSize
    <3> QED
      BY <1>1, <1>4, <2>4, <3>1, WordSize
  <2> QED
    BY <1>1, <1>8, <2>1, <2>2, <2>3, <2>4, WordSize
<1> QED
  BY <1>9, <1>10

LEMMA StepLimit == ASSUME Good, NEW n \in Lengths, Mem!setMaxSize(n) PROVE Done
<1>1. FileOK(file) /\ file \in Files /\ n \in Nat
  BY MemFileAssumption DEF Good, FileOK
<1>2. PICK g : g = [file EXCEPT !.maxsize = n]
  OBVIOUS
<1>3. /\ g \in Files /\ g.buffer = file.buffer
      /\ g.memory = file.memory /\ g.MemBase = file.MemBase /\ g.buffersize = file.buffersize
      /\ g.mysize = file.mysize /\ g.pos = file.pos /\ g.readonly = file.readonly
      /\ g.maxsize = n
  BY <1>1, <1>2 DEF Files
<1>4. FileOK(g)
  BY <1>1, <1>3 DEF FileOK, Backed
<1>5. file' = g /\ got' = <<>> /\ wild' = wild /\ wild = NULL
  BY <1>2 DEF Mem!setMaxSize, Mem!Becomes, Mem!Returns, Good
<1>6. SameBytes
  BY <1>3, <1>5 DEF SameBytes, ContentOf, ModeOf, BytesOf
<1>7. Simulated
  BY <1>3, <1>5, <1>6, SimLimit
<1> QED
  BY <1>4, <1>5, <1>7 DEF Done

LEMMA StepClose == ASSUME Good, Mem!close PROVE Done
<1>1. FileOK(file) /\ file \in Files
  BY DEF Good, FileOK
<1>2. PICK g : g = [file EXCEPT !.buffer = NULL, !.memory = NULL, !.MemBase = NULL,
                                !.mysize = 0, !.pos = 0]
  OBVIOUS
<1>3. g \in Files /\ g.buffersize = file.buffersize /\ g.readonly = file.readonly
      /\ g.maxsize = file.maxsize
      /\ g.MemBase = NULL /\ g.mysize = 0 /\ g.pos = 0 /\ g.buffer = NULL
  BY <1>1, <1>2 DEF Files, Memory
<1>4. FileOK(g)
  BY <1>3, WordSize, MemFileAssumption DEF FileOK, Backed
<1>5. Quiet /\ file' = g
  BY <1>2, <1>3, Becoming DEF Mem!close
<1>6. ContentOf(file') = <<>> /\ file'.pos = 0
  BY <1>3, <1>5 DEF ContentOf
<1>7. ModeOf(file') = (IF ModeOf(file) = "write" THEN "spent"
                       ELSE IF ModeOf(file) = "read" THEN "shut" ELSE ModeOf(file))
  <2>1. ModeOf(file') = IF file.readonly THEN "shut"
                        ELSE IF file.buffersize = 0 THEN "fresh" ELSE "spent"
    BY <1>3, <1>5 DEF ModeOf
  <2>2. CASE file.MemBase = NULL
    BY <2>1, <2>2 DEF ModeOf
  <2>3. CASE file.MemBase = "buffer"
    <3>1. file.readonly = FALSE /\ file.buffersize # 0 /\ file.MemBase # NULL
      BY <1>1, <2>3, WordSize, MemFileAssumption DEF FileOK, Backed
    <3> QED
      BY <2>1, <3>1 DEF ModeOf
  <2>4. CASE file.MemBase = "memory"
    <3>1. file.readonly = TRUE /\ file.MemBase # NULL
      BY <1>1, <2>4, MemFileAssumption DEF FileOK
    <3> QED
      BY <2>1, <3>1 DEF ModeOf
  <2> QED
    BY <1>1, <2>2, <2>3, <2>4 DEF Files
<1>8. Simulated
  BY <1>5, <1>6, <1>7, SimClose
<1> QED
  BY <1>4, <1>5, <1>8 DEF Done

LEMMA DataFacts ==
  ASSUME NEW s \in Data
  PROVE  /\ s \in Seq(Int) /\ s # NULL /\ Len(s) \in Nat
         /\ Len(s) + Page <= Half /\ Len(s) < Half /\ SubSeq(s, 1, Len(s)) = s
         /\ s # <<>> => Len(s) > 0
<1>1. s \in Seq(Int) /\ s # NULL /\ Len(s) + Page <= Half
  BY MemFileAssumption
<1>2. SubSeq(s, 1, Len(s)) = s /\ Len(s) \in Nat /\ (s # <<>> => Len(s) > 0)
  BY <1>1
<1> QED
  BY <1>1, <1>2, WordSize, MemFileAssumption

(* The bytes s in memory that is the application's.                        *)
LEMMA OpenedForReading ==
  ASSUME Good, NEW s \in Data, NEW g, Mem!Becomes(g), g \in Files, g.buffer = NULL, g.memory = s,
         g.MemBase = "memory", g.mysize = Len(s), g.pos = 0, g.readonly = TRUE,
         g.maxsize = file.maxsize
  PROVE  Done
<1>1. s \in Seq(Int) /\ Len(s) < Half /\ SubSeq(s, 1, Len(s)) = s
  BY DataFacts
<1>2. "memory" # NULL
  BY MemFileAssumption
<1>3. FileOK(g)
  BY <1>1, <1>2, WordSize DEF FileOK, Backed
<1>4. ContentOf(g) = s /\ ModeOf(g) = "read"
  BY <1>1, <1>2 DEF ContentOf, BytesOf, ModeOf
<1>5. Quiet /\ file' = g
  BY Becoming
<1>6. Simulated
  BY <1>4, <1>5, SimOpen
<1> QED
  BY <1>3, <1>5, <1>6 DEF Done

LEMMA StepOpenByteArray == ASSUME Good, NEW s \in Data, Mem!openByteArray(s) PROVE Done
<1>1. FileOK(file) /\ file \in Files /\ s \in Seq(Int) /\ Len(s) \in Nat
  BY DataFacts DEF Good, FileOK
<1>2. PICK g : g = [file EXCEPT !.buffer = NULL, !.memory = s, !.MemBase = "memory",
                                !.mysize = Len(s), !.pos = 0, !.readonly = TRUE]
  OBVIOUS
<1>3. /\ g \in Files /\ g.buffer = NULL /\ g.memory = s
      /\ g.MemBase = "memory" /\ g.mysize = Len(s) /\ g.pos = 0 /\ g.readonly = TRUE
      /\ g.maxsize = file.maxsize
  BY <1>1, <1>2 DEF Files, Memory
<1>4. Mem!Becomes(g)
  BY <1>2 DEF Mem!openByteArray
<1> QED
  BY <1>3, <1>4, OpenedForReading

LEMMA StepOpen ==
  ASSUME Good, NEW s \in Data \ {<<>>}, NEW w \in BOOLEAN, Mem!open(s, w)
  PROVE  Done
<1>1. FileOK(file) /\ file \in Files
  BY DEF Good, FileOK
<1>2. /\ s \in Data /\ s \in Seq(Int) /\ s # NULL /\ Len(s) \in Nat /\ Len(s) < Half
      /\ SubSeq(s, 1, Len(s)) = s /\ Len(s) > 0
  BY DataFacts
<1>3. Mem!Size(s) = Len(s)
  BY <1>2 DEF Mem!Size
<1>4. CASE w = TRUE
  <2>1. PICK g : g = [[file EXCEPT !.mysize = Len(s), !.pos = 0, !.readonly = ~w]
                        EXCEPT !.buffer = s, !.memory = NULL, !.buffersize = Len(s),
                               !.MemBase = "buffer"]
    OBVIOUS
  <2>2. Mem!Becomes(g)
    BY <1>2, <1>3, <1>4, <2>1 DEF Mem!open
  <2>3. /\ g.buffer = s /\ g.MemBase = "buffer" /\ g.mysize = Len(s) /\ g.pos = 0
        /\ g.readonly = FALSE /\ g.maxsize = file.maxsize /\ g.buffersize = Len(s)
    BY <1>1, <1>4, <2>1 DEF Files
  <2>4. g \in Files
    BY <1>1, <1>2, <1>4, <2>1 DEF Files, Memory
  <2>5. "buffer" # NULL
    BY MemFileAssumption
  <2>6. FileOK(g)
    BY <1>2, <2>3, <2>4, <2>5, WordSize DEF FileOK, Backed
  <2>7. ContentOf(g) = s /\ ModeOf(g) = "write"
    BY <1>2, <2>3, <2>5 DEF ContentOf, BytesOf, ModeOf
  <2>8. Quiet /\ file' = g
    BY <2>2, <2>3, Becoming
  <2>9. Simulated
    BY <1>2, <2>3, <2>7, <2>8, SimOpen
  <2> QED
    BY <2>6, <2>8, <2>9 DEF Done
<1>5. CASE w = FALSE
  <2>1. PICK g : g = [[file EXCEPT !.mysize = Len(s), !.pos = 0, !.readonly = ~w]
                        EXCEPT !.buffer = NULL, !.memory = s, !.buffersize = 0,
                               !.MemBase = "memory"]
    OBVIOUS
  <2>2. Mem!Becomes(g)
    BY <1>2, <1>3, <1>5, <2>1 DEF Mem!open
  <2>3. /\ g.buffer = NULL /\ g.memory = s /\ g.MemBase = "memory" /\ g.mysize = Len(s)
        /\ g.pos = 0 /\ g.readonly = TRUE /\ g.maxsize = file.maxsize
    BY <1>1, <1>5, <2>1 DEF Files
  <2>4. g \in Files
    BY <1>1, <1>2, <1>5, <2>1 DEF Files, Memory
  <2> QED
    BY <1>2, <2>2, <2>3, <2>4, OpenedForReading
<1> QED
  BY <1>4, <1>5

LEMMA StepOpenNothing == ASSUME Good, NEW w \in BOOLEAN, Mem!open(NULL, w) PROVE Done
<1>1. FileOK(file) /\ file \in Files
  BY DEF Good, FileOK
<1>2. Mem!Size(NULL) = 0
  BY DEF Mem!Size
<1>3. PICK g : g = IF w THEN [[file EXCEPT !.mysize = 0, !.pos = 0, !.readonly = ~w]
                        EXCEPT !.buffer = NULL, !.memory = NULL, !.buffersize = 0,
                               !.MemBase = NULL]
                   ELSE [[file EXCEPT !.mysize = 0, !.pos = 0, !.readonly = ~w]
                        EXCEPT !.buffer = NULL, !.memory = NULL, !.buffersize = 0,
                               !.MemBase = NULL]
  OBVIOUS
<1>4. Mem!Becomes(g)
  BY <1>2, <1>3 DEF Mem!open
<1>5. /\ g \in Files /\ g.buffer = NULL /\ g.MemBase = NULL /\ g.mysize = 0
      /\ g.pos = 0 /\ g.maxsize = file.maxsize /\ g.buffersize = 0
  BY <1>1, <1>3 DEF Files, Memory
<1>6. FileOK(g)
  BY <1>5, WordSize, MemFileAssumption DEF FileOK, Backed
<1>7. ContentOf(g) = <<>> /\ ModeOf(g) \in {"fresh", "shut"}
  BY <1>5 DEF ContentOf, ModeOf
<1>8. Quiet /\ file' = g
  BY <1>4, <1>5, Becoming
<1>9. Simulated
  BY <1>5, <1>7, <1>8, SimOpenNothing
<1> QED
  BY <1>6, <1>8, <1>9 DEF Done

-----------------------------------------------------------------------------
LEMMA StepWild ==
  ASSUME Good, NEW c, Mem!GoesWild(c),
         \/ c = "fread" /\ file.pos > file.mysize
         \/ c = "fgetc" /\ file.pos = file.mysize
         \/ c = "fwrite" /\ (ModeOf(file) = "spent" \/ file.pos >= Half)
         \/ c = "truncate" /\ ModeOf(file) = "spent"
         \/ c = "copyFrom" /\ ModeOf(file) \in Writables
  PROVE  FileOK(file') /\ Mem!Plain!Anywhere(c)
<1>1. FileOK(file) /\ wild = NULL /\ Len(ContentOf(file)) = file.mysize
  BY ContentBytes DEF Good
<1>2. Mem!Plain!Anywhere(c) /\ file' = file
  BY <1>1, SimAnywhere DEF Writables
<1> QED
  BY <1>1, <1>2

LEMMA SameBytesBetween ==
  ASSUME NEW c \in Seq(Int), NEW d \in Seq(Int), NEW k \in Nat, NEW p \in Nat, k <= p,
         p <= Len(d), Len(d) <= Len(c), \A i \in 1..Len(d) : d[i] = c[i]
  PROVE  SubSeq(c, k + 1, p) = SubSeq(d, k + 1, p)
<1>1. PICK x : x = SubSeq(c, k + 1, p)
  OBVIOUS
<1>2. PICK y : y = SubSeq(d, k + 1, p)
  OBVIOUS
<1>3. x \in Seq(Int) /\ Len(x) = p - k
  BY <1>1
<1>4. y \in Seq(Int) /\ Len(y) = p - k
  BY <1>2
<1>5. ASSUME NEW i \in 1..p - k PROVE x[i] = y[i]
  <2>1. i + k \in 1..Len(d)
    OBVIOUS
  <2>2. x[i] = c[i + k]
    BY <1>1
  <2>3. y[i] = d[i + k]
    BY <1>2
  <2> QED
    BY <2>1, <2>2, <2>3
<1>6. x = y
  BY <1>3, <1>4, <1>5, SameSeq
<1> QED
  BY <1>1, <1>2, <1>6

(* Bytes of the file are returned.                                         *)
LEMMA StepReturns ==
  ASSUME Good, NEW p \in Nat, p < Word, NEW b, Mem!Returns([file EXCEPT !.pos = p], b),
         file.MemBase # NULL
  PROVE  /\ FileOK(file') /\ Mem!Plain!Open /\ Mem!Plain!Returns(p) /\ got' = b
         /\ file.pos <= p /\ p <= file.mysize /\ b = SubSeq(BytesOf(file), file.pos + 1, p)
              => Mem!Plain!ReadTo(p)
<1>1. FileOK(file) /\ file \in Files /\ file.pos \in Nat
  BY FileFields DEF Good, FileOK
<1>2. PICK g : g = [file EXCEPT !.pos = p]
  OBVIOUS
<1>3. /\ g \in Files /\ g.buffer = file.buffer
      /\ g.memory = file.memory /\ g.MemBase = file.MemBase /\ g.buffersize = file.buffersize
      /\ g.mysize = file.mysize /\ g.pos = p /\ g.readonly = file.readonly
      /\ g.maxsize = file.maxsize
  BY <1>1, <1>2, MoveFields
<1>4. /\ ContentOf(file) \in Seq(Int) /\ Len(ContentOf(file)) = file.mysize /\ file.mysize \in Nat
      /\ \A i \in 1..file.mysize : ContentOf(file)[i] = BytesOf(file)[i]
      /\ BytesOf(file) \in Seq(Int) /\ file.mysize <= Len(BytesOf(file))
      /\ Len(BytesOf(file)) < Half
  BY <1>1, ContentBytes
<1>6. FileOK(g)
  BY <1>1, <1>3 DEF FileOK, Backed
<1>7. file' = g /\ got' = b /\ wild' = wild /\ wild = NULL
  BY <1>2 DEF Mem!Returns, Good
<1>8. Reading
  <2>1. SameBytes
    BY <1>3, <1>7 DEF SameBytes, ContentOf, ModeOf, BytesOf
  <2>2. ModeOf(file) \in {"read", "write"}
    BY DEF ModeOf
  <2> QED
    BY <1>3, <1>7, <2>1, <2>2 DEF Reading
<1>9. ASSUME file.pos <= p, p <= file.mysize, b = SubSeq(BytesOf(file), file.pos + 1, p)
      PROVE  Mem!Plain!ReadTo(p)
  <2>1. PICK c : c = BytesOf(file)
    OBVIOUS
  <2>2. PICK d : d = ContentOf(file)
    OBVIOUS
  <2>3. /\ c \in Seq(Int) /\ d \in Seq(Int) /\ p <= Len(d) /\ Len(d) <= Len(c)
        /\ \A i \in 1..Len(d) : d[i] = c[i]
    BY <1>4, <1>9, <2>1, <2>2
  <2>4. PICK k \in Nat : k = file.pos
    BY <1>1
  <2>5. k <= p
    BY <1>9, <2>4
  <2>6. SubSeq(c, k + 1, p) = SubSeq(d, k + 1, p)
    BY <2>3, <2>5, SameBytesBetween
  <2>7. got' = SubSeq(ContentOf(file), file.pos + 1, p)
    BY <1>7, <1>9, <2>1, <2>2, <2>4, <2>6
  <2> QED
    BY <1>3, <1>7, <1>8, <2>7, SimRead
<1> QED
  BY <1>3, <1>6, <1>7, <1>8, <1>9, SimRead

LEMMA MinType == \A T \in SUBSET Nat : T # {} => Mem!Min(T) \in T
<1> SUFFICES ASSUME NEW T \in SUBSET Nat, T # {} PROVE Mem!Min(T) \in T
  OBVIOUS
<1>1. \E x \in T : \A y \in T : x <= y
  BY LeastElement
<1> QED
  BY <1>1 DEF Mem!Min

LEMMA StepFgets ==
  ASSUME Good, NEW num \in Lengths \ {0}, Mem!fgets(num)
  PROVE  FileOK(file') /\ (Mem!Plain!fgets(num) \/ Mem!Plain!lastLineLost(num))
<1>1. FileOK(file) /\ file \in Files /\ file.pos \in Nat /\ file.mysize \in Nat
  BY FileFields DEF Good, FileOK
<1>2. num \in Nat /\ num > 0
  BY MemFileAssumption
<1>3. file.MemBase # NULL /\ file.pos < file.mysize
  BY DEF Mem!fgets
<1>4. PICK most : most = Mem!Min({num - 1, file.mysize - file.pos})
  OBVIOUS
<1>5. most \in Nat /\ most <= file.mysize - file.pos
  <2>1. most = IF num - 1 <= file.mysize - file.pos THEN num - 1 ELSE file.mysize - file.pos
    BY <1>1, <1>2, <1>4, MinOfTwo
  <2> QED
    BY <1>1, <1>2, <1>3, <2>1
<1>6. PICK T : T = {most} \cup {i \in 1..most : Mem!Bytes[file.pos + i] = Newline}
  OBVIOUS
<1>7. PICK k : k = Mem!Min(T)
  OBVIOUS
<1>8. k \in 0..most
  <2>1. T \in SUBSET Nat /\ T # {} /\ T \subseteq 0..most
    BY <1>5, <1>6
  <2> QED
    BY <1>7, <2>1, MinType
<1>9. PICK p \in Nat : p = file.pos + k /\ file.pos <= p /\ p <= file.mysize
  BY <1>1, <1>5, <1>8
<1>10. PICK b : b = IF p = file.mysize THEN <<>> ELSE SubSeq(Mem!Bytes, file.pos + 1, p)
  OBVIOUS
<1>11. Mem!Returns([file EXCEPT !.pos = p], b)
  BY <1>4, <1>6, <1>7, <1>9, <1>10 DEF Mem!fgets
<1>12. Mem!Bytes = BytesOf(file)
  BY DEF Mem!Bytes, BytesOf
<1>13. /\ Len(ContentOf(file)) = file.mysize /\ file.mysize < Word
       /\ \A i \in 1..file.mysize : ContentOf(file)[i] = BytesOf(file)[i]
  BY <1>1, <1>3, ContentBytes, WordSize
<1>14. p = Mem!Plain!EndOfLine(num)
  <2>1. most = Mem!Plain!Min({num - 1, file.mysize - file.pos})
    BY <1>4 DEF Mem!Min, Mem!Plain!Min
  <2>2. \A i \in 1..most : Mem!Content[file.pos + i] = Mem!Bytes[file.pos + i]
    BY <1>1, <1>5, <1>12, <1>13, Shows
  <2>3. T = {most} \cup {i \in 1..most : Mem!Content[file.pos + i] = Newline}
    BY <1>6, <2>2
  <2>4. k = Mem!Plain!Min(T)
    BY <1>7 DEF Mem!Min, Mem!Plain!Min
  <2>5. Mem!Plain!size = file.mysize
    BY <1>13, Shows DEF Mem!Plain!size
  <2> QED
    BY <1>9, <2>1, <2>3, <2>4, <2>5 DEF Mem!Plain!EndOfLine
<1>15. p < Word
  BY <1>1, <1>9, <1>13, WordSize
<1>16. /\ FileOK(file') /\ Mem!Plain!Open /\ Mem!Plain!Returns(p) /\ got' = b
       /\ b = SubSeq(BytesOf(file), file.pos + 1, p) => Mem!Plain!ReadTo(p)
  BY <1>3, <1>9, <1>11, <1>15, StepReturns
<1>17. Mem!Plain!size = file.mysize
  BY <1>13, Shows DEF Mem!Plain!size
<1>18. CASE p = file.mysize
  BY <1>3, <1>10, <1>14, <1>16, <1>17, <1>18 DEF Mem!Plain!lastLineLost
<1>19. CASE p # file.mysize
  <2>1. Mem!Plain!ReadTo(p)
    BY <1>10, <1>12, <1>16, <1>19
  <2> QED
    BY <1>3, <1>14, <1>16, <1>17, <2>1 DEF Mem!Plain!fgets
<1> QED
  BY <1>18, <1>19

LEMMA OneByte ==
  ASSUME NEW c \in Seq(Int), NEW m \in 1..Len(c)
  PROVE  SubSeq(c, m, m) = <<c[m]>>
<1>1. PICK x : x = SubSeq(c, m, m)
  OBVIOUS
<1>2. PICK y : y = <<c[m]>>
  OBVIOUS
<1>3. x \in Seq(Int) /\ Len(x) = 1
  BY <1>1
<1>4. x[1] = c[m]
  BY <1>1, <1>3
<1>5. y \in Seq(Int) /\ Len(y) = 1 /\ y[1] = c[m]
  BY <1>2
<1>6. x = y
  BY <1>3, <1>4, <1>5, SameSeq
<1> QED
  BY <1>1, <1>2, <1>6

LEMMA StepFgetc ==
  ASSUME Good, Mem!fgetc
  PROVE  /\ FileOK(file')
         /\ Mem!Plain!fgetc \/ Mem!Plain!fgetcBehind \/ Mem!Plain!Anywhere("fgetc")
<1>1. FileOK(file) /\ file \in Files /\ file.pos \in Nat /\ file.mysize \in Nat
  BY FileFields DEF Good, FileOK
<1>2. file.MemBase # NULL /\ file.pos <= file.mysize
  BY DEF Mem!fgetc
<1>3. /\ BytesOf(file) \in Seq(Int) /\ file.mysize <= Len(BytesOf(file))
      /\ Len(BytesOf(file)) < Half /\ Len(ContentOf(file)) = file.mysize
  BY <1>1, <1>2, ContentBytes
<1>4. Mem!Bytes = BytesOf(file)
  BY DEF Mem!Bytes, BytesOf
<1>5. Mem!Plain!size = file.mysize
  BY <1>3, Shows DEF Mem!Plain!size
<1>6. CASE file.pos = Len(Mem!Bytes)
  <2>1. Mem!GoesWild("fgetc")
    BY <1>6 DEF Mem!fgetc
  <2>2. file.pos = file.mysize
    BY <1>1, <1>2, <1>3, <1>4, <1>6
  <2> QED
    BY <2>1, <2>2, StepWild
<1>7. CASE file.pos # Len(Mem!Bytes)
  <2>1. PICK b : b = <<Mem!Bytes[file.pos + 1]>>
    OBVIOUS
  <2>2. PICK p \in Nat : p = file.pos + 1
    BY <1>1
  <2>3. Mem!Returns([file EXCEPT !.pos = p], b)
    BY <1>7, <2>1, <2>2 DEF Mem!fgetc
  <2>4. p \in 1..Len(BytesOf(file)) /\ p < Word
    BY <1>1, <1>2, <1>3, <1>4, <1>7, <2>2, WordSize
  <2>5. b = SubSeq(BytesOf(file), file.pos + 1, p)
    BY <1>3, <1>4, <2>1, <2>2, <2>4, OneByte
  <2>6. /\ FileOK(file') /\ Mem!Plain!Open /\ Mem!Plain!Returns(p) /\ got' = b
        /\ p <= file.mysize => Mem!Plain!ReadTo(p)
    <3>1. file.pos <= p /\ p \in Nat /\ p < Word
      BY <1>1, <2>2, <2>4
    <3>2. /\ FileOK(file') /\ Mem!Plain!Open /\ Mem!Plain!Returns(p) /\ got' = b
          /\ file.pos <= p /\ p <= file.mysize /\ b = SubSeq(BytesOf(file), file.pos + 1, p)
               => Mem!Plain!ReadTo(p)
      BY <1>2, <2>3, <3>1, StepReturns, Zenon
    <3> QED
      BY <2>5, <3>1, <3>2, Zenon
  <2>7. CASE file.pos = file.mysize
    BY <1>5, <2>1, <2>2, <2>6, <2>7 DEF Mem!Plain!fgetcBehind
  <2>8. CASE file.pos < file.mysize
    BY <1>1, <1>5, <2>2, <2>6, <2>8 DEF Mem!Plain!fgetc
  <2> QED
    BY <1>1, <1>2, <2>7, <2>8
<1> QED
  BY <1>6, <1>7

(* Where a fread ends: behind all memory when it began behind the end.     *)
MemEnd(pos, size, n, mysize) ==
  pos + (IF (pos + n * size) % Word > mysize
         THEN ((mysize - pos) % Word) \div size ELSE n) * size
FileEnd(pos, size, n, mysize) ==
  pos + (IF pos + n * size > mysize THEN (mysize - pos) \div size ELSE n) * size

LEMMA ReadEnd ==
  ASSUME NEW pos \in Nat, pos < Word, NEW size \in 1..2, NEW n \in Nat, 2 * n <= Half,
         NEW mysize \in Nat, mysize < Half, NEW end, end = MemEnd(pos, size, n, mysize)
  PROVE  /\ end \in Nat /\ end >= pos /\ (pos > mysize => end >= Half)
         /\ pos <= mysize => end <= mysize /\ end = FileEnd(pos, size, n, mysize)
<1>0. end = pos + (IF (pos + n * size) % Word > mysize
                   THEN ((mysize - pos) % Word) \div size ELSE n) * size
  BY DEF MemEnd
<1>1. PICK k \in Nat : k = n * size /\ k <= Half
  <2>1. CASE size = 1
    <3>1. n * size = n
      BY <2>1
    <3> QED
      BY <3>1, WordSize
  <2>2. CASE size = 2
    <3>1. n * size = 2 * n
      BY <2>2
    <3>2. PICK k \in Nat : k = 2 * n
      OBVIOUS
    <3> QED
      BY <3>1, <3>2
  <2> QED
    BY <2>1, <2>2
<1>2. pos + k \in Nat /\ pos + k < 2 * Word
  BY <1>1, WordSize
<1>3. CASE pos <= mysize
  <2>1. (pos + k) % Word = pos + k
    BY <1>1, <1>2, <1>3, ModSmall, WordSize
  <2>2. mysize - pos \in Nat /\ (mysize - pos) % Word = mysize - pos
    BY <1>3, ModSmall, WordSize
  <2>3. PICK d \in Nat : d = mysize - pos
    BY <2>2
  <2>4. (d \div size) * size \in Nat /\ (d \div size) * size <= d
    BY DivTimes
  <2>5. CASE pos + k > mysize
    <3>1. end = pos + (d \div size) * size
      BY <1>0, <1>1, <2>1, <2>2, <2>3, <2>5
    <3>2. PICK e \in Nat : e = (d \div size) * size /\ e <= d
      BY <2>4
    <3>3. end \in Nat /\ end >= pos /\ end <= mysize
      <4>1. end = pos + e
        BY <3>1, <3>2, Zenon
      <4> QED
        BY <2>3, <3>2, <4>1
    <3>4. end = FileEnd(pos, size, n, mysize)
      <4>1. pos + n * size > mysize
        BY <1>1, <2>5, Zenon
      <4> QED
        BY <2>3, <3>1, <4>1, Zenon DEF FileEnd
    <3> QED
      BY <1>3, <3>3, <3>4
  <2>6. CASE ~(pos + k > mysize)
    <3>1. end = pos + k
      BY <1>0, <1>1, <2>1, <2>6
    <3>2. end \in Nat /\ end >= pos /\ end <= mysize
      BY <1>1, <2>6, <3>1
    <3>3. end = FileEnd(pos, size, n, mysize)
      BY <1>1, <2>6, <3>1, Zenon DEF FileEnd
    <3> QED
      BY <1>3, <3>2, <3>3
  <2> QED
    BY <2>5, <2>6
<1>4. CASE pos > mysize
  <2>1. CASE (pos + k) % Word > mysize
    <3>1. PICK d \in Nat : d = mysize - pos + Word /\ d < Word
      BY <1>4, WordSize
    <3>2. (mysize - pos) % Word = d
      BY <1>4, <3>1, WordSize
    <3>3. /\ (d \div size) * size \in Nat /\ (d \div size) * size > d - size
      <4>1. d \in Nat /\ size \in Nat \ {0}
        BY <3>1
      <4> QED
        BY <4>1, DivTimes, Zenon
    <3>4. end = pos + (d \div size) * size
      <4>1. (pos + n * size) % Word > mysize
        BY <1>1, <2>1, Zenon
      <4> QED
        BY <1>0, <3>2, <4>1, Zenon
    <3>5. PICK e \in Nat : e = (d \div size) * size
      BY <3>3
    <3>6. e >= d - 1
      BY <3>1, <3>3, <3>5
    <3>7. pos + e >= Half
      BY <1>4, <3>1, <3>6, WordSize
    <3> QED
      BY <1>4, <3>4, <3>5, <3>7
  <2>2. CASE ~((pos + k) % Word > mysize)
    <3>1. pos + k >= Word
      <4>1. SUFFICES ASSUME pos + k < Word PROVE FALSE
        BY <1>2, WordSize
      <4>2. (pos + k) % Word = pos + k
        BY <1>2, <4>1, ModSmall
      <4> QED
        BY <1>4, <2>2, <4>2
    <3>2. end = pos + k
      BY <1>0, <1>1, <2>2
    <3> QED
      BY <1>2, <1>4, <3>1, <3>2, WordSize
  <2> QED
    BY <2>1, <2>2
<1> QED
  BY <1>3, <1>4

LEMMA StepFread ==
  ASSUME Good, NEW size \in 1..2, NEW n \in Lengths, Mem!fread(size, n)
  PROVE  FileOK(file') /\ (Mem!Plain!fread(size, n) \/ Mem!Plain!Anywhere("fread"))
<1>1. FileOK(file) /\ file \in Files /\ file.pos \in Nat /\ file.mysize \in Nat /\ file.pos < Word
  BY FileFields DEF Good, FileOK
<1>2. n \in Nat /\ 2 * n <= Half
  BY MemFileAssumption
<1>3. file.MemBase # NULL
  BY DEF Mem!fread
<1>4. /\ BytesOf(file) \in Seq(Int) /\ file.mysize <= Len(BytesOf(file))
      /\ Len(BytesOf(file)) < Half
  BY <1>1, <1>3, ContentBytes
<1>5. Mem!Bytes = BytesOf(file)
  BY DEF Mem!Bytes, BytesOf
<1>6. PICK end : end = MemEnd(file.pos, size, n, file.mysize)
  OBVIOUS
<1>7. /\ end \in Nat /\ end >= file.pos
      /\ file.pos > file.mysize => end >= Half
      /\ file.pos <= file.mysize =>
           end <= file.mysize /\ end = FileEnd(file.pos, size, n, file.mysize)
  <2>1. file.mysize < Half
    BY <1>1, <1>4, WordSize
  <2> QED
    BY <1>1, <1>2, <1>6, <2>1, ReadEnd
<1>8. IF end > Len(Mem!Bytes) THEN Mem!GoesWild("fread")
      ELSE Mem!Returns([file EXCEPT !.pos = end], SubSeq(Mem!Bytes, file.pos + 1, end))
  BY <1>6 DEF Mem!fread, MemEnd
<1>9. CASE file.pos <= file.mysize
  <2>1. Mem!Returns([file EXCEPT !.pos = end], SubSeq(BytesOf(file), file.pos + 1, end))
    BY <1>1, <1>4, <1>5, <1>7, <1>8, <1>9
  <2>2. end < Word /\ Len(ContentOf(file)) = file.mysize
    BY <1>1, <1>3, <1>4, <1>7, <1>9, ContentBytes, WordSize
  <2>3. FileOK(file') /\ Mem!Plain!Open /\ Mem!Plain!ReadTo(end)
    BY <1>3, <1>7, <1>9, <2>1, <2>2, StepReturns
  <2>4. Mem!Plain!size = file.mysize
    BY <2>2, Shows DEF Mem!Plain!size
  <2> QED
    BY <1>7, <1>9, <2>3, <2>4 DEF Mem!Plain!fread, FileEnd
<1>10. CASE file.pos > file.mysize
  <2>1. Mem!GoesWild("fread")
    BY <1>1, <1>4, <1>5, <1>7, <1>8, <1>10, WordSize
  <2> QED
    BY <1>10, <2>1, StepWild
<1> QED
  BY <1>1, <1>9, <1>10

-----------------------------------------------------------------------------
LEMMA WritableModes ==
  ASSUME NEW f, FileOK(f), f.readonly = FALSE
  PROVE  ModeOf(f) \in Writables
BY DEF ModeOf, Writables

(* A write to g, which is the file itself or has more in its buffer.       *)
LEMMA Writes ==
  ASSUME NEW c, NEW g, FileOK(g), g.maxsize = file.maxsize, Good,
         NEW s \in Data \ {<<>>}, Mem!MayWrite(g, s), Mem!WriteTo(c, g, s)
  PROVE  \/ /\ Mem!GoesWild(c)
            /\ ModeOf(g) = "spent" \/ g.pos >= Half
         \/ /\ Quiet /\ FileOK(file') /\ ModeOf(file') = "write"
            /\ Wrote(g, s, file') \/ (g.pos >= Half /\ g.mysize <= file'.mysize)
<1>1. s \in Seq(Int) /\ Len(s) > 0 /\ Len(s) + Page <= Half
  BY DataFacts
<1>2. PICK k : k = Mem!ForWrite(g, s)
  OBVIOUS
<1>3. PICK h : h = [Mem!Put(k, k.pos, s) EXCEPT !.pos = k.pos + Len(s)]
  OBVIOUS
<1>4. Writing(g, s, k, h)
  BY <1>1, <1>2, <1>3, Write
<1>5. IF ~Mem!HasRoom(k, k.pos, Len(s)) THEN Mem!GoesWild(c) ELSE Mem!Becomes(h)
  BY <1>2, <1>3 DEF Mem!WriteTo
<1>6. CASE ~Mem!HasRoom(k, k.pos, Len(s))
  BY <1>4, <1>5, <1>6 DEF Writing
<1>7. CASE Mem!HasRoom(k, k.pos, Len(s))
  <2>1. /\ FileOK(h) /\ h.maxsize = g.maxsize /\ ModeOf(h) = "write"
        /\ Wrote(g, s, h) \/ (g.pos >= Half /\ g.mysize <= h.mysize)
    BY <1>4, <1>7 DEF Writing
  <2>2. Mem!Becomes(h)
    BY <1>5, <1>7
  <2>3. Quiet /\ file' = h
    BY <2>1, <2>2, Becoming
  <2> QED
    BY <2>1, <2>3
<1> QED
  BY <1>6, <1>7

LEMMA StepFwrite ==
  ASSUME Good, NEW s \in Data \ {<<>>}, Mem!fwrite(s)
  PROVE  /\ FileOK(file')
         /\ Mem!Plain!write(s) \/ Mem!Plain!writeSomewhere \/ Mem!Plain!Anywhere("fwrite")
<1>1. FileOK(file) /\ file.readonly = FALSE
  BY FileFields DEF Good, Mem!fwrite, Mem!MayWrite, FileOK
<1>2. ModeOf(file) \in Writables
  BY <1>1, WritableModes
<1>3. \/ /\ Mem!GoesWild("fwrite")
         /\ ModeOf(file) = "spent" \/ file.pos >= Half
      \/ /\ Quiet /\ FileOK(file') /\ ModeOf(file') = "write"
         /\ Wrote(file, s, file') \/ (file.pos >= Half /\ file.mysize <= file'.mysize)
  BY <1>1, Writes DEF Mem!fwrite
<1>4. CASE Mem!GoesWild("fwrite") /\ (ModeOf(file) = "spent" \/ file.pos >= Half)
  BY <1>4, StepWild
<1>5. CASE Quiet /\ FileOK(file') /\ ModeOf(file') = "write" /\ Wrote(file, s, file')
  BY <1>1, <1>2, <1>5, SimWrite DEF Writables
<1>6. CASE /\ Quiet /\ FileOK(file') /\ ModeOf(file') = "write"
           /\ file.pos >= Half /\ file.mysize <= file'.mysize
  <2>1. Len(ContentOf(file)) = file.mysize /\ Len(ContentOf(file')) = file'.mysize
        /\ file.mysize \in Nat /\ file'.mysize \in Nat
    BY <1>1, <1>6, ContentBytes
  <2> QED
    BY <1>2, <1>6, <2>1, SimWriteSomewhere DEF Writables
<1> QED
  BY <1>3, <1>4, <1>5, <1>6

(* A file of the length asked for, with the bytes it had.                  *)
Resized(f, g, n) ==
  \/ g.MemBase = NULL /\ (n > 0 => ModeOf(f) = "spent")
  \/ /\ g.MemBase = "buffer" /\ n <= g.buffersize /\ g.buffersize = Len(g.buffer)
     /\ FileOK(g) /\ ModeOf(g) = "write"
     /\ \A i \in 1..n : i <= f.mysize => g.buffer[i] = ContentOf(f)[i]

LEMMA ResizedFile ==
  ASSUME NEW f, FileOK(f), f.readonly = FALSE, NEW n \in Nat, n + Page <= Word, n < Word,
         Mem!MayResize(f, n), NEW g, g = Mem!resizeBuffer(f, n)
  PROVE  Resized(f, g, n)
<1>1. f \in Files /\ f.pos \in Nat /\ f.mysize \in Nat
  BY FileFields DEF FileOK
<1>2. /\ g \in Files /\ Backed(g)
      /\ g.MemBase = "buffer" => \A i \in 1..n : i <= f.mysize => g.buffer[i] = ContentOf(f)[i]
      /\ \/ g.MemBase = "buffer" /\ n <= g.buffersize
         \/ g.MemBase = NULL /\ (n > 0 => ModeOf(f) = "spent")
  BY ResizeKeeps
<1>3. /\ g.mysize = n /\ g.pos = (IF f.pos <= n THEN f.pos ELSE n) /\ g.readonly = FALSE
      /\ g.maxsize = f.maxsize
  BY ResizeFields
<1>4. CASE g.MemBase = "buffer" /\ n <= g.buffersize
  <2>1. g.MemBase # NULL /\ g.MemBase # "memory"
    BY <1>4, MemFileAssumption
  <2>2. g.pos < Word
    BY <1>1, <1>3, WordSize
  <2>3. FileOK(g)
    BY <1>2, <1>3, <1>4, <2>1, <2>2 DEF FileOK
  <2>4. ModeOf(g) = "write"
    BY <1>3, <2>1 DEF ModeOf
  <2>5. g.buffersize = Len(g.buffer)
    BY <1>2, <1>4 DEF Backed
  <2>6. \A i \in 1..n : i <= f.mysize => g.buffer[i] = ContentOf(f)[i]
    BY <1>2, <1>4
  <2> QED
    BY <1>4, <2>3, <2>4, <2>5, <2>6, Zenon DEF Resized
<1>5. CASE g.MemBase = NULL /\ (n > 0 => ModeOf(f) = "spent")
  BY <1>5, Zenon DEF Resized
<1> QED
  BY <1>2, <1>4, <1>5, Zenon

LEMMA StepTruncate ==
  ASSUME Good, NEW n \in Lengths, Mem!truncate(n)
  PROVE  /\ FileOK(file')
         /\ Mem!Plain!truncate(n) \/ Mem!Plain!truncateMoves(n) \/ Mem!Plain!Anywhere("truncate")
<1>1. FileOK(file) /\ file \in Files /\ file.mysize \in Nat /\ file.pos \in Nat
      /\ file.MemBase \in {NULL, "buffer", "memory"}
  BY FileFields DEF Good, FileOK
<1>2. n \in Nat /\ n + Page <= Word /\ n < Word
  BY WordSize, MemFileAssumption
<1>3. PICK g : g = Mem!resizeBuffer(file, n)
  OBVIOUS
<1>4. file.readonly = FALSE /\ n # file.mysize /\ Mem!MayResize(file, n)
  BY <1>1, FileFields DEF Mem!truncate
<1>5. ModeOf(file) \in Writables /\ (file.maxsize = 0 \/ n <= file.maxsize)
  BY <1>1, <1>4, WritableModes DEF Mem!MayResize
<1>6. \/ g.MemBase = NULL /\ (n > 0 => ModeOf(file) = "spent")
      \/ /\ g.MemBase = "buffer" /\ n <= g.buffersize /\ g.buffersize = Len(g.buffer)
         /\ FileOK(g) /\ ModeOf(g) = "write"
         /\ \A i \in 1..n : i <= file.mysize => g.buffer[i] = ContentOf(file)[i]
  <2>1. Resized(file, g, n)
    BY <1>1, <1>2, <1>3, <1>4, ResizedFile
  <2> QED
    BY <2>1 DEF Resized
<1>7. /\ g.mysize = n /\ g.pos = (IF file.pos <= n THEN file.pos ELSE n)
      /\ g.readonly = FALSE /\ g.maxsize = file.maxsize
  BY <1>1, <1>2, <1>3, <1>4, ResizeFields
<1>8. CASE n < file.mysize
  <2>1. Mem!Becomes(g)
    BY <1>1, <1>2, <1>3, <1>8 DEF Mem!truncate
  <2>2. Quiet /\ file' = g
    BY <1>7, <2>1, Becoming
  <2>3. g.MemBase # NULL
    <3>1. file.MemBase = "buffer"
      BY <1>1, <1>2, <1>4, <1>8 DEF FileOK
    <3>2. g.MemBase = "buffer" \/ g.MemBase = file.MemBase
      BY <1>1, <1>2, <1>3, <3>1, ResizeFields DEF Mem!resizeBuffer, Files
    <3> QED
      BY <3>1, <3>2, MemFileAssumption
  <2>4. /\ g.MemBase = "buffer" /\ FileOK(g) /\ ModeOf(g) = "write"
        /\ \A i \in 1..n : i <= file.mysize => g.buffer[i] = ContentOf(file)[i]
    BY <1>6, <2>3
  <2>5. Len(ContentOf(g)) = n /\ \A i \in 1..n : ContentOf(g)[i] = g.buffer[i]
    BY <1>7, <2>4, ContentBytes DEF BytesOf
  <2>6. \A i \in 1..n : ContentOf(g)[i] = IF i <= file.mysize THEN ContentOf(file)[i] ELSE 0
    BY <1>1, <1>2, <1>8, <2>4, <2>5
  <2>7. Mem!Plain!truncate(n) \/ Mem!Plain!truncateMoves(n)
    BY <1>1, <1>5, <1>7, <2>2, <2>4, <2>5, <2>6, SimTruncate DEF Writables
  <2> QED
    BY <2>2, <2>4, <2>7
<1>9. CASE n > file.mysize
  <2>1. PICK l \in Nat : l = n - file.mysize
    BY <1>1, <1>2, <1>9
  <2>2. PICK z : z = [i \in 1..l |-> 0]
    OBVIOUS
  <2>3. z \in Seq(Int) /\ Len(z) = l /\ \A i \in 1..l : z[i] = 0
    BY <2>2
  <2>4. PICK h : h = Mem!Put(g, file.mysize, z)
    OBVIOUS
  <2>5. IF ~Mem!HasRoom(g, file.mysize, l) THEN Mem!GoesWild("truncate") ELSE Mem!Becomes(h)
    BY <1>1, <1>2, <1>3, <1>9, <2>1, <2>2, <2>4 DEF Mem!truncate
  <2>6. file.mysize + l = n /\ n > 0
    BY <1>1, <1>2, <1>9, <2>1
  <2>7. CASE g.MemBase = NULL
    <3>1. ~Mem!HasRoom(g, file.mysize, l)
      BY <2>7, MemFileAssumption DEF Mem!HasRoom
    <3>2. Mem!GoesWild("truncate")
      BY <2>5, <3>1
    <3>3. ModeOf(file) = "spent"
      BY <1>6, <2>6, <2>7, MemFileAssumption
    <3> QED
      BY <3>2, <3>3, StepWild
  <2>8. CASE g.MemBase = "buffer"
    <3>1. /\ n <= g.buffersize /\ g.buffersize = Len(g.buffer) /\ FileOK(g)
          /\ \A i \in 1..n : i <= file.mysize => g.buffer[i] = ContentOf(file)[i]
      BY <1>6, <2>8, MemFileAssumption
    <3>2. Mem!HasRoom(g, file.mysize, l)
      BY <2>6, <2>8, <3>1 DEF Mem!HasRoom
    <3>3. Mem!Becomes(h)
      BY <2>5, <3>2
    <3>4. g \in Files /\ Backed(g) /\ g.buffer \in Seq(Int) /\ g.pos \in Nat /\ g.pos < Word
      BY <2>8, <3>1, FileFields DEF FileOK, Backed
    <3>5. file.mysize + Len(z) <= Len(g.buffer) /\ g.mysize <= g.buffersize
      BY <1>7, <2>3, <2>6, <3>1
    <3>6. IsPutInto(h, g, z, file.mysize, g.pos)
      BY <1>1, <2>3, <2>4, <3>4, <3>5, PutFields
    <3>7. GoodPut(h, g, z, file.mysize, g.pos)
      BY <1>1, <1>7, <2>3, <2>8, <3>4, <3>5, <3>6, PutIsFile
    <3>8. FileOK(h) /\ h.pos = g.pos /\ h.maxsize = file.maxsize /\ ModeOf(h) = "write"
          /\ Len(ContentOf(h)) = n
      BY <1>7, <3>7 DEF GoodPut
    <3>9. Quiet /\ file' = h
      BY <3>3, <3>8, Becoming
    <3>10. ASSUME NEW i \in 1..n
           PROVE  ContentOf(h)[i] = IF i <= file.mysize THEN ContentOf(file)[i] ELSE 0
      <4>1. ContentOf(h)[i] = IF i - file.mysize \in 1..l THEN z[i - file.mysize] ELSE g.buffer[i]
        BY <1>7, <2>3, <3>7 DEF GoodPut
      <4>2. CASE i <= file.mysize
        <5>1. ~(i - file.mysize \in 1..l)
          BY <1>1, <4>2
        <5> QED
          BY <3>1, <4>1, <4>2, <5>1
      <4>3. CASE i > file.mysize
        <5>1. i - file.mysize \in 1..l
          BY <1>1, <1>2, <2>6, <4>3
        <5> QED
          BY <1>1, <2>3, <4>1, <4>3, <5>1
      <4> QED
        BY <1>1, <4>2, <4>3
    <3>11. Mem!Plain!truncate(n) \/ Mem!Plain!truncateMoves(n)
      BY <1>1, <1>5, <1>7, <3>8, <3>9, <3>10, SimTruncate DEF Writables
    <3> QED
      BY <3>8, <3>9, <3>11
  <2> QED
    BY <1>6, <2>7, <2>8
<1> QED
  BY <1>1, <1>2, <1>4, <1>8, <1>9

(* g is the file with other memory in its buffer.                          *)
Alike(g, f) ==
  /\ FileOK(g) /\ g.buffer \in Seq(Int)
  /\ g.pos = f.pos /\ g.mysize = f.mysize /\ g.maxsize = f.maxsize /\ g.readonly = f.readonly
  /\ g.MemBase = f.MemBase /\ g.buffersize = f.buffersize /\ g.memory = f.memory

(* The buffer that copyFrom reads into.                                    *)
LEMMA CopyBuffer ==
  ASSUME Good, NEW f, f = IF file.buffer = NULL
                          THEN [file EXCEPT !.buffer = [i \in 1..Scratch |-> Unset]] ELSE file
  PROVE  /\ Alike(f, file) /\ ContentOf(f) = ContentOf(file) /\ ModeOf(f) = ModeOf(file)
         /\ f.MemBase # "buffer" => Len(f.buffer) = Scratch
<1>1. FileOK(file) /\ file \in Files
  BY DEF Good, FileOK
<1>2. CASE file.buffer = NULL
  <2>1. PICK u : u = [i \in 1..Scratch |-> Unset]
    OBVIOUS
  <2>2. u \in Seq(Int) /\ Len(u) = Scratch
    BY <2>1, MemFileAssumption
  <2>3. f = [file EXCEPT !.buffer = u]
    BY <1>2, <2>1
  <2>4. f \in Files
    BY <1>1, <2>2, <2>3 DEF Files, Memory
  <2>5. /\ f.buffer = u /\ f.pos = file.pos /\ f.mysize = file.mysize /\ f.maxsize = file.maxsize
        /\ f.readonly = file.readonly /\ f.MemBase = file.MemBase
        /\ f.buffersize = file.buffersize /\ f.memory = file.memory
    BY <1>1, <2>3 DEF Files
  <2>6. file.MemBase # "buffer"
    BY <1>1, <1>2, MemFileAssumption DEF FileOK, Backed
  <2>7. FileOK(f)
    BY <1>1, <2>2, <2>4, <2>5, <2>6 DEF FileOK, Backed
  <2>8. ContentOf(f) = ContentOf(file) /\ ModeOf(f) = ModeOf(file)
    BY <2>5, <2>6 DEF ContentOf, BytesOf, ModeOf
  <2> QED
    BY <2>2, <2>5, <2>7, <2>8 DEF Alike
<1>3. CASE file.buffer # NULL
  <2>1. f = file /\ f.buffer \in Seq(Int)
    BY <1>1, <1>3, FileFields DEF Memory
  <2>2. f.MemBase # "buffer" => Len(f.buffer) = Scratch
    BY <1>1, <1>3, <2>1 DEF FileOK
  <2> QED
    BY <1>1, <2>1, <2>2 DEF Alike
<1> QED
  BY <1>2, <1>3

LEMMA CopyInto ==
  ASSUME NEW f, FileOK(f), f.buffer \in Seq(Int),
         f.MemBase # "buffer" => Len(f.buffer) = Scratch,
         NEW s \in Seq(Int), Len(s) <= Len(f.buffer), NEW g, g = Mem!Put(f, 0, s)
  PROVE  /\ Alike(g, f) /\ ModeOf(g) = ModeOf(f)
         /\ f.MemBase = "buffer" => SeqOver(ContentOf(g), ContentOf(f), s)
         /\ f.MemBase # "buffer" => ContentOf(g) = ContentOf(f)
<1>1. f \in Files
  BY DEF FileOK
<1>2. IsPutInto(g, f, s, 0, f.pos)
  <2>1. 0 + Len(s) <= Len(f.buffer)
    OBVIOUS
  <2> QED
    BY <1>1, <2>1, PutFields
<1>3. /\ g \in Files /\ IsPut(g.buffer, f.buffer, s, 0)
      /\ g.memory = f.memory /\ g.MemBase = f.MemBase /\ g.buffersize = f.buffersize
      /\ g.mysize = f.mysize /\ g.pos = f.pos /\ g.readonly = f.readonly /\ g.maxsize = f.maxsize
  BY <1>2 DEF IsPutInto
<1>4. g.buffer \in Seq(Int) /\ Len(g.buffer) = Len(f.buffer)
      /\ \A i \in 1..Len(f.buffer) : g.buffer[i] = IF i - 0 \in 1..Len(s) THEN s[i - 0] ELSE f.buffer[i]
  BY <1>3 DEF IsPut
<1>5. FileOK(g)
  BY <1>3, <1>4 DEF FileOK, Backed
<1>6. Alike(g, f) /\ ModeOf(g) = ModeOf(f)
  BY <1>3, <1>4, <1>5 DEF Alike, ModeOf
<1>7. CASE f.MemBase = "buffer"
  <2>1. f.MemBase # NULL
    BY <1>7, MemFileAssumption
  <2>2. /\ Len(ContentOf(f)) = f.mysize /\ f.mysize <= Len(f.buffer) /\ f.mysize \in Nat
        /\ \A i \in 1..f.mysize : ContentOf(f)[i] = f.buffer[i]
    BY <1>7, <2>1, ContentBytes DEF BytesOf
  <2>3. /\ ContentOf(g) \in Seq(Int) /\ Len(ContentOf(g)) = f.mysize
        /\ \A i \in 1..f.mysize : ContentOf(g)[i] = g.buffer[i]
    BY <1>3, <1>5, <1>7, ContentBytes DEF BytesOf
  <2>4. ASSUME NEW i \in 1..f.mysize
        PROVE  ContentOf(g)[i] = IF i \in 1..Len(s) THEN s[i] ELSE ContentOf(f)[i]
    <3>1. i \in 1..Len(f.buffer) /\ i - 0 = i
      BY <2>2
    <3>2. g.buffer[i] = IF i \in 1..Len(s) THEN s[i] ELSE f.buffer[i]
      BY <1>4, <3>1
    <3> QED
      BY <2>2, <2>3, <3>2
  <2> QED
    BY <1>6, <1>7, <2>2, <2>3, <2>4 DEF SeqOver
<1>8. CASE f.MemBase # "buffer"
  <2>1. ContentOf(g) = ContentOf(f)
    BY <1>3, <1>8 DEF ContentOf, BytesOf
  <2> QED
    BY <1>6, <1>8, <2>1
<1> QED
  BY <1>7, <1>8

(* A copy does what is documented, or what is named beside.                *)
Copied(s) ==
  \/ Mem!Plain!copyFrom(s) \/ Mem!Plain!copyOverStart(s) \/ Mem!Plain!fails
  \/ Mem!Plain!writeSomewhere \/ Mem!Plain!Anywhere("copyFrom")

LEMMA StepCopyFrom ==
  ASSUME Good, NEW s \in Data, Mem!copyFrom(s)
  PROVE  FileOK(file') /\ Copied(s)
<1>1. FileOK(file) /\ file \in Files /\ file.MemBase \in {NULL, "buffer", "memory"}
  BY FileFields DEF Good, FileOK
<1>2. s \in Seq(Int) /\ Len(s) \in Nat /\ Len(s) <= Scratch
  BY DataFacts DEF Mem!copyFrom
<1>3. PICK f : f = IF file.buffer = NULL
                   THEN [file EXCEPT !.buffer = [i \in 1..Scratch |-> Unset]] ELSE file
  OBVIOUS
<1>4. /\ Alike(f, file) /\ ContentOf(f) = ContentOf(file) /\ ModeOf(f) = ModeOf(file)
      /\ f.MemBase # "buffer" => Len(f.buffer) = Scratch
  BY <1>3, CopyBuffer
<1>5. /\ FileOK(f) /\ f.buffer \in Seq(Int) /\ f.MemBase = file.MemBase
      /\ f.maxsize = file.maxsize /\ f.pos = file.pos
  BY <1>4 DEF Alike
<1>6. PICK g : g = Mem!Put(f, 0, s)
  OBVIOUS
<1>7. \/ s = <<>> /\ Mem!Becomes(f)
      \/ s # <<>> /\ Len(s) > Len(f.buffer) /\ Mem!GoesWild("copyFrom")
      \/ s # <<>> /\ ~(Len(s) > Len(f.buffer)) /\ ~Mem!MayWrite(g, s) /\ Mem!Becomes(g)
      \/ /\ s # <<>> /\ ~(Len(s) > Len(f.buffer)) /\ Mem!MayWrite(g, s)
         /\ Mem!WriteTo("copyFrom", g, s) \/ Mem!GoesWild("copyFrom")
  BY <1>3, <1>6 DEF Mem!copyFrom
<1>8. CASE s = <<>> /\ Mem!Becomes(f)
  <2>1. Quiet /\ file' = f
    BY <1>5, <1>8, Becoming
  <2>2. Mem!Plain!fails
    BY <1>4, <1>5, <2>1, SimNothing DEF SameBytes
  <2> QED
    BY <1>5, <2>1, <2>2 DEF Copied
<1>9. CASE s # <<>> /\ Len(s) > Len(f.buffer) /\ Mem!GoesWild("copyFrom")
  <2>1. file.MemBase = "buffer"
    BY <1>2, <1>4, <1>5, <1>9, MemFileAssumption
  <2>2. ModeOf(file) \in Writables
    BY <1>1, <2>1, WritableModes DEF FileOK
  <2> QED
    BY <1>9, <2>2, StepWild DEF Copied
<1>10. ASSUME ~(Len(s) > Len(f.buffer))
       PROVE  /\ FileOK(g) /\ g.pos = file.pos /\ g.mysize = file.mysize
              /\ g.maxsize = file.maxsize /\ g.readonly = file.readonly
              /\ ModeOf(g) = ModeOf(file)
              /\ file.MemBase = "buffer" => SeqOver(ContentOf(g), ContentOf(file), s)
              /\ file.MemBase # "buffer" => ContentOf(g) = ContentOf(file)
  <2>1. Len(s) <= Len(f.buffer)
    BY <1>2, <1>5, <1>10
  <2>2. /\ Alike(g, f) /\ ModeOf(g) = ModeOf(f)
        /\ f.MemBase = "buffer" => SeqOver(ContentOf(g), ContentOf(f), s)
        /\ f.MemBase # "buffer" => ContentOf(g) = ContentOf(f)
    BY <1>2, <1>4, <1>5, <1>6, <2>1, CopyInto
  <2> QED
    BY <1>4, <1>5, <2>2 DEF Alike
<1>11. CASE s # <<>> /\ ~(Len(s) > Len(f.buffer)) /\ ~Mem!MayWrite(g, s) /\ Mem!Becomes(g)
  <2>1. Quiet /\ file' = g
    BY <1>10, <1>11, Becoming
  <2>2. CASE file.MemBase = "buffer"
    <3>1. ModeOf(file) = "write"
      BY <1>1, <2>2, MemFileAssumption DEF FileOK, ModeOf
    <3>2. Mem!Plain!copyOverStart(s)
      BY <1>1, <1>10, <1>11, <2>1, <2>2, <3>1, SimCopyNothing
    <3> QED
      BY <1>10, <1>11, <2>1, <3>2 DEF Copied
  <2>3. CASE file.MemBase # "buffer"
    <3>1. Mem!Plain!fails
      BY <1>10, <1>11, <2>1, <2>3, SimNothing DEF SameBytes
    <3> QED
      BY <1>10, <1>11, <2>1, <3>1 DEF Copied
  <2> QED
    BY <2>2, <2>3
<1>12. CASE /\ s # <<>> /\ ~(Len(s) > Len(f.buffer)) /\ Mem!MayWrite(g, s)
            /\ Mem!WriteTo("copyFrom", g, s) \/ Mem!GoesWild("copyFrom")
  <2>1. file.readonly = FALSE
    BY <1>1, <1>10, <1>12, FileFields DEF Mem!MayWrite
  <2>2. ModeOf(file) \in Writables
    BY <1>1, <2>1, WritableModes
  <2>4. CASE Mem!GoesWild("copyFrom")
    BY <2>2, <2>4, StepWild DEF Copied
  <2>5. CASE Mem!WriteTo("copyFrom", g, s)
    <3>1. \/ Mem!GoesWild("copyFrom")
          \/ /\ Quiet /\ FileOK(file') /\ ModeOf(file') = "write"
             /\ Wrote(g, s, file') \/ (g.pos >= Half /\ g.mysize <= file'.mysize)
      BY <1>10, <1>12, <2>5, Writes
    <3>2. CASE Quiet /\ FileOK(file') /\ ModeOf(file') = "write" /\ Wrote(g, s, file')
      <4>1. CASE file.MemBase = "buffer"
        <5>1. ModeOf(file) = "write"
          BY <2>1, <4>1, MemFileAssumption DEF ModeOf
        <5>2. Mem!Plain!copyOverStart(s)
          BY <1>1, <1>10, <1>12, <3>2, <4>1, <5>1, SimCopy
        <5> QED
          BY <3>2, <5>2 DEF Copied
      <4>2. CASE file.MemBase # "buffer"
        <5>1. Wrote(file, s, file')
          BY <1>10, <1>12, <3>2, <4>2 DEF Wrote
        <5>2. Mem!Plain!write(s)
          BY <1>1, <2>2, <3>2, <5>1, SimWrite DEF Writables
        <5> QED
          BY <1>12, <3>2, <5>2 DEF Copied, Mem!Plain!copyFrom
      <4> QED
        BY <4>1, <4>2
    <3>3. CASE /\ Quiet /\ FileOK(file') /\ ModeOf(file') = "write"
               /\ g.pos >= Half /\ g.mysize <= file'.mysize
      <4>1. Len(ContentOf(file)) = file.mysize /\ Len(ContentOf(file')) = file'.mysize
            /\ file.mysize \in Nat /\ file'.mysize \in Nat
        BY <1>1, <3>3, ContentBytes
      <4>2. Mem!Plain!writeSomewhere
        BY <1>10, <1>12, <2>2, <3>3, <4>1, SimWriteSomewhere DEF Writables
      <4> QED
        BY <3>3, <4>2 DEF Copied
    <3> QED
      BY <2>4, <3>1, <3>2, <3>3
  <2> QED
    BY <1>12, <2>4, <2>5
<1> QED
  BY <1>7, <1>8, <1>9, <1>11, <1>12

(* Each call is the one of ByteFile, or what is named of it.               *)
LEMMA MemFileCalls == ASSUME Good PROVE Mem!Calls
<1>1. ASSUME NEW n \in Lengths
      PROVE  /\ Mem!seek(n) => Mem!Plain!seek(n)
             /\ Mem!truncate(n) => \/ Mem!Plain!truncate(n) \/ Mem!Plain!truncateMoves(n)
                                   \/ Mem!Plain!Anywhere("truncate")
  BY StepSeek, StepTruncate
<1>2. ASSUME NEW n \in Lengths \ {0}
      PROVE  /\ Mem!fgets(n) => Mem!Plain!fgets(n) \/ Mem!Plain!lastLineLost(n)
             /\ \A b \in 1..2 :
                  Mem!fread(b, n) => Mem!Plain!fread(b, n) \/ Mem!Plain!Anywhere("fread")
  BY StepFgets, StepFread
<1>3. ASSUME NEW o \in Offsets, NEW origin \in Mem!Plain!Origins
      PROVE  Mem!seekFrom(o, origin) =>
               Mem!Plain!seekFrom(o, origin) \/ Mem!Plain!seekMisses(o, origin)
  BY StepSeekFrom
<1>4. Mem!fgetc => Mem!Plain!fgetc \/ Mem!Plain!fgetcBehind \/ Mem!Plain!Anywhere("fgetc")
  BY StepFgetc
<1>5. ASSUME NEW s \in Data \ {<<>>}
      PROVE  Mem!fwrite(s) =>
               Mem!Plain!write(s) \/ Mem!Plain!writeSomewhere \/ Mem!Plain!Anywhere("fwrite")
  BY StepFwrite
<1>6. ASSUME NEW s \in Data PROVE Mem!copyFrom(s) => Copied(s)
  BY StepCopyFrom
<1> QED
  BY <1>1, <1>2, <1>3, <1>4, <1>5, <1>6 DEF Mem!Calls, Copied

(* Every call keeps FileOK and is a step of ByteFile.                      *)
LEMMA MemFileStep ==
  ASSUME FileOK(file), Mem!Next
  PROVE  Done
<1>1. Good /\ wild = NULL
  BY DEF Good, Mem!Next
<1>2. \/ \E s \in Data \ {<<>>} :
           (\E w \in BOOLEAN : Mem!open(s, w)) \/ Mem!openByteArray(s) \/ Mem!fwrite(s)
      \/ \E w \in BOOLEAN : Mem!open(NULL, w)
      \/ \E s \in Data : Mem!copyFrom(s)
      \/ \E n \in Lengths : Mem!setMaxSize(n) \/ Mem!truncate(n) \/ Mem!seek(n)
      \/ \E n \in Lengths \ {0} : Mem!fgets(n) \/ \E size \in 1..2 : Mem!fread(size, n)
      \/ \E o \in Offsets, origin \in Mem!Plain!Origins : Mem!seekFrom(o, origin)
      \/ Mem!rewind \/ Mem!close \/ Mem!fgetc
  BY DEF Mem!Next, Mem!Plain!Origins
<1>3. ASSUME NEW s \in Data \ {<<>>}, (\E w \in BOOLEAN : Mem!open(s, w)) \/ Mem!openByteArray(s)
      PROVE  Done
  BY <1>1, <1>3, StepOpen, StepOpenByteArray
<1>4. ASSUME NEW w \in BOOLEAN, Mem!open(NULL, w) PROVE Done
  BY <1>1, <1>4, StepOpenNothing
<1>5. ASSUME NEW n \in Lengths, Mem!setMaxSize(n) PROVE Done
  BY <1>1, <1>5, StepLimit
<1>6. CASE Mem!close
  BY <1>1, <1>6, StepClose
<1>7. CASE Mem!rewind
  BY <1>1, <1>7, StepRewind DEF Done, Simulated, Mem!Plain!Next
<1>8. ASSUME NEW n \in Lengths, Mem!seek(n) PROVE Done
  BY <1>1, <1>8, StepSeek DEF Done, Simulated, Mem!Plain!Next
<1>9. ASSUME NEW o \in Offsets, NEW origin \in Mem!Plain!Origins, Mem!seekFrom(o, origin)
      PROVE  Done
  BY <1>1, <1>9, StepSeekFrom DEF Done, Simulated, Mem!Plain!Next, Mem!Plain!Divergence
<1>10. ASSUME NEW n \in Lengths \ {0}, Mem!fgets(n) PROVE Done
  BY <1>1, <1>10, StepFgets DEF Done, Simulated, Mem!Plain!Next, Mem!Plain!Divergence
<1>11. ASSUME NEW n \in Lengths \ {0}, NEW b \in 1..2, Mem!fread(b, n) PROVE Done
  BY <1>1, <1>11, StepFread DEF Done, Simulated, Mem!Plain!Next, Mem!Plain!Divergence
<1>12. CASE Mem!fgetc
  BY <1>1, <1>12, StepFgetc DEF Done, Simulated, Mem!Plain!Next, Mem!Plain!Divergence
<1>13. ASSUME NEW s \in Data \ {<<>>}, Mem!fwrite(s) PROVE Done
  BY <1>1, <1>13, StepFwrite DEF Done, Simulated, Mem!Plain!Next, Mem!Plain!Divergence
<1>14. ASSUME NEW n \in Lengths, Mem!truncate(n) PROVE Done
  BY <1>1, <1>14, StepTruncate DEF Done, Simulated, Mem!Plain!Next, Mem!Plain!Divergence
<1>15. ASSUME NEW s \in Data, Mem!copyFrom(s) PROVE Done
  BY <1>1, <1>15, StepCopyFrom DEF Copied, Done, Simulated, Mem!Plain!Next, Mem!Plain!Divergence
<1> QED
  BY <1>2, <1>3, <1>4, <1>5, <1>6, <1>7, <1>8, <1>9, <1>10, <1>11, <1>12, <1>13, <1>14, <1>15

(* The file begins as ByteFile begins.                                     *)
LEMMA MemFileInit ==
  ASSUME Mem!Init
  PROVE  FileOK(file) /\ Mem!Plain!Init
<1>1. /\ file \in Files /\ file.buffer = NULL /\ file.MemBase = NULL /\ file.buffersize = 0
      /\ file.mysize = 0 /\ file.pos = 0 /\ file.readonly = FALSE /\ file.maxsize = 0
  BY DEF Mem!Init, Files, Memory
<1>2. FileOK(file)
  BY <1>1, WordSize, MemFileAssumption DEF FileOK, Backed
<1>3. ContentOf(file) = <<>> /\ ModeOf(file) = "fresh"
  BY <1>1 DEF ContentOf, ModeOf
<1>4. Mem!Plain!Init
  BY <1>1, <1>3, Shows DEF Mem!Plain!Init, Mem!Init
<1> QED
  BY <1>2, <1>4

(* What a file in memory writes to is a buffer of the size it thinks and   *)
(* never less than the file, its memory is at hand, whole, when it was     *)
(* opened for reading.                                                     *)
THEOREM MemFileKeepsItsMemory == MemSpec => []FileOK(file)
<1>1. Mem!Init => FileOK(file)
  BY MemFileInit
<1>2. FileOK(file) /\ [Mem!Next]_memfile => FileOK(file)'
  <2>1. CASE FileOK(file) /\ Mem!Next
    <3>1. FileOK(file')
      BY <2>1, MemFileStep DEF Done
    <3> QED
      BY <3>1
  <2>2. CASE FileOK(file) /\ UNCHANGED memfile
    BY <2>2 DEF memfile
  <2> QED
    BY <2>1, <2>2
<1> QED
  BY <1>1, <1>2, PTL DEF MemSpec

(* Read by read and write by write a MemFile is the file that ByteFile     *)
(* describes, for any bytes, page, buffer and memory limit: what is read   *)
(* is what was written there last, through every growth of the buffer, a   *)
(* seek leads where it was asked to, and what a call does beside what is   *)
(* documented of it is what ByteFile names of this call.                   *)
THEOREM MemFileIsByteFile == MemSpec => ImplementsByteFile
<1> DEFINE Is == /\ (Mem!Plain!Next \/ Mem!Plain!Divergence)
                 /\ Mem!Calls
<1>1. Mem!Init => FileOK(file) /\ Mem!Plain!Init
  BY MemFileInit
<1>2. FileOK(file) /\ [Mem!Next]_memfile
        => FileOK(file)' /\ [Mem!vars' # Mem!vars => Is]_(Mem!Plain!vars)
  <2>1. CASE FileOK(file) /\ Mem!Next
    <3>1. FileOK(file') /\ (Mem!Plain!Next \/ Mem!Plain!Divergence)
      BY <2>1, MemFileStep DEF Done, Simulated
    <3>2. Mem!Calls
      BY <2>1, MemFileCalls DEF Good, Mem!Next
    <3> QED
      BY <3>1, <3>2
  <2>2. CASE FileOK(file) /\ UNCHANGED memfile
    BY <2>2 DEF memfile, Mem!vars
  <2> QED
    BY <2>1, <2>2
<1> QED
  BY <1>1, <1>2, PTL DEF MemSpec, ImplementsByteFile, Mem!ImplementsByteFile

-----------------------------------------------------------------------------
(* The array. Besides what ArrayOwnsStrings says of its rows, their number *)
(* and their types.                                                        *)
Rows == Strings \cup {NULL}

ArrayType == [rows : Seq(Rows), num : Nat, text : [Strings -> Texts \cup {Freed}]]

Owns(a) ==
  /\ a \in ArrayType /\ a.num <= Len(a.rows)
  /\ \A i, j \in 1..Len(a.rows) : a.rows[i] # NULL /\ a.rows[i] = a.rows[j] => i = j
  /\ \A i \in 1..Len(a.rows) : a.rows[i] # NULL => i <= a.num /\ a.text[a.rows[i]] # Freed
  /\ \A s \in Strings : a.text[s] # Freed => \E i \in 1..Len(a.rows) : a.rows[i] = s

(* What the application sees in row i of an array, and of all its rows.    *)
At(a, i) == IF a.rows[i] = NULL THEN NULL ELSE a.text[a.rows[i]]
Seen(a) == [i \in 1..a.num |-> At(a, i)]

Element(v) == IF v \in {0, NULL} THEN NULL ELSE v

(* An array whose rows are all of elements leaves an address.              *)
LEMMA RoomForAnother ==
  ASSUME NEW a, Owns(a), a.num <= MaxLen, NEW i \in 1..a.num, a.rows[i] = NULL
  PROVE  \E s \in Strings : a.text[s] = Freed
<1> DEFINE owned == [j \in 1..MaxLen |-> IF j <= a.num THEN a.rows[j] ELSE NULL]
<1>1. /\ a.num \in Nat /\ MaxLen \in Nat /\ a.num <= Len(a.rows) /\ a.rows \in Seq(Rows)
      /\ i \in 1..MaxLen
  BY ArrayAssumption DEF Owns, ArrayType
<1>2. owned \in [1..MaxLen -> Strings \cup {NULL}]
  BY <1>1, ElementOfSeq DEF Rows
<1>3. owned[i] = NULL
  BY <1>1
<1>4. PICK s \in Strings : \A j \in 1..MaxLen : owned[j] # s
  BY <1>1, <1>2, <1>3, ArrayAssumption
<1>5. SUFFICES ASSUME a.text[s] # Freed PROVE FALSE
  OBVIOUS
<1>6. PICK j \in 1..Len(a.rows) : a.rows[j] = s
  BY <1>5 DEF Owns
<1>7. a.rows[j] # NULL
  BY <1>6, ArrayAssumption
<1>8. j <= a.num
  BY <1>7 DEF Owns
<1>9. j \in 1..MaxLen
  BY <1>1, <1>8
<1>10. owned[j] = s
  BY <1>6, <1>8, <1>9
<1> QED
  BY <1>4, <1>9, <1>10

(* A new String for a row without one.                                     *)
LEMMA NewString ==
  ASSUME NEW a, Owns(a), a.num <= MaxLen, NEW i \in 1..a.num, a.rows[i] = NULL,
         NEW v \in Texts
  PROVE  LET c == Arr!New(a, i, v) IN
         /\ Owns(c) /\ c.num = a.num /\ Len(c.rows) = Len(a.rows)
         /\ \A j \in 1..a.num : At(c, j) = IF j = i THEN v ELSE At(a, j)
<1> DEFINE s == CHOOSE t \in Strings : a.text[t] = Freed
           c == [a EXCEPT !.rows = [@ EXCEPT ![i] = s], !.text = [@ EXCEPT ![s] = v]]
<1>1. s \in Strings /\ a.text[s] = Freed
  BY RoomForAnother
<1> HIDE DEF s
<1>2. Arr!New(a, i, v) = c
  BY DEF Arr!New, s
<1>3. /\ a \in ArrayType /\ a.num \in Nat /\ a.num <= Len(a.rows) /\ a.rows \in Seq(Rows)
      /\ Len(a.rows) \in Nat /\ i \in 1..Len(a.rows)
  BY DEF Owns, ArrayType
<1>4. /\ c.rows \in Seq(Rows) /\ Len(c.rows) = Len(a.rows)
      /\ \A j \in 1..Len(a.rows) : c.rows[j] = IF j = i THEN s ELSE a.rows[j]
  BY <1>1, <1>3, ExceptSeq DEF Rows, ArrayType
<1>5. /\ c.text \in [Strings -> Texts \cup {Freed}]
      /\ \A t \in Strings : c.text[t] = IF t = s THEN v ELSE a.text[t]
  BY <1>1, <1>3 DEF ArrayType
<1>6. c.num = a.num /\ c \in ArrayType
  BY <1>3, <1>4, <1>5 DEF ArrayType
<1>7. s # NULL /\ v # Freed /\ v # NULL
  BY <1>1, ArrayAssumption
<1>8. \A j \in 1..Len(a.rows) : a.rows[j] \in Rows /\ a.rows[j] # s
  <2>1. TAKE j \in 1..Len(a.rows)
  <2>2. a.rows[j] \in Rows
    BY <1>3, ElementOfSeq
  <2>3. a.rows[j] # s
    BY <1>1, <1>7 DEF Owns
  <2> QED
    BY <2>2, <2>3
<1> HIDE DEF c
<1>9. \A j \in 1..a.num : At(c, j) = IF j = i THEN v ELSE At(a, j)
  BY <1>3, <1>4, <1>5, <1>7, <1>8, <1>1 DEF At, Rows
<1>10. Owns(c)
  <2>1. \A j, k \in 1..Len(c.rows) : c.rows[j] # NULL /\ c.rows[j] = c.rows[k] => j = k
    BY <1>4, <1>8 DEF Owns
  <2>2. \A j \in 1..Len(c.rows) : c.rows[j] # NULL => j <= c.num /\ c.text[c.rows[j]] # Freed
    BY <1>3, <1>4, <1>5, <1>6, <1>7, <1>8, <1>1 DEF Owns, Rows
  <2>3. \A t \in Strings : c.text[t] # Freed => \E j \in 1..Len(c.rows) : c.rows[j] = t
    <3> SUFFICES ASSUME NEW t \in Strings, c.text[t] # Freed
                 PROVE  \E j \in 1..Len(c.rows) : c.rows[j] = t
      OBVIOUS
    <3>1. CASE t = s
      BY <3>1, <1>3, <1>4
    <3>2. CASE t # s
      <4>1. PICK j \in 1..Len(a.rows) : a.rows[j] = t
        BY <3>2, <1>5 DEF Owns
      <4>2. j # i
        BY <4>1, ArrayAssumption
      <4> QED
        BY <4>1, <4>2, <1>4
    <3> QED
      BY <3>1, <3>2
  <2> QED
    BY <2>1, <2>2, <2>3, <1>3, <1>4, <1>6 DEF Owns
<1> QED
  BY <1>2, <1>4, <1>6, <1>9, <1>10

(* Another text for the String of a row.                                   *)
LEMMA OtherText ==
  ASSUME NEW a, Owns(a), NEW i \in 1..Len(a.rows), a.rows[i] # NULL, NEW v \in Texts
  PROVE  LET c == [a EXCEPT !.text[a.rows[i]] = v] IN
         /\ Owns(c) /\ c.num = a.num /\ c.rows = a.rows
         /\ \A j \in 1..a.num : At(c, j) = IF j = i THEN v ELSE At(a, j)
<1> DEFINE c == [a EXCEPT !.text = [@ EXCEPT ![a.rows[i]] = v]]
<1>1. /\ a \in ArrayType /\ a.num \in Nat /\ a.num <= Len(a.rows) /\ a.rows \in Seq(Rows)
      /\ Len(a.rows) \in Nat
  BY DEF Owns, ArrayType
<1>2. \A j \in 1..Len(a.rows) : a.rows[j] \in Rows
  BY <1>1, ElementOfSeq
<1>3. a.rows[i] \in Strings
  BY <1>2 DEF Rows
<1>4. /\ c.rows = a.rows /\ c.num = a.num /\ c \in ArrayType
      /\ \A s \in Strings : c.text[s] = IF s = a.rows[i] THEN v ELSE a.text[s]
  BY <1>1, <1>3 DEF ArrayType
<1>5. v # Freed
  BY ArrayAssumption
<1>6. [a EXCEPT !.text[a.rows[i]] = v] = c
  OBVIOUS
<1> HIDE DEF c
<1>7. \A j \in 1..a.num : At(c, j) = IF j = i THEN v ELSE At(a, j)
  BY <1>1, <1>2, <1>4 DEF At, Rows, Owns
<1>8. Owns(c)
  <2>1. \A j, k \in 1..Len(c.rows) : c.rows[j] # NULL /\ c.rows[j] = c.rows[k] => j = k
    BY <1>4 DEF Owns
  <2>2. \A j \in 1..Len(c.rows) : c.rows[j] # NULL => j <= c.num /\ c.text[c.rows[j]] # Freed
    BY <1>2, <1>4, <1>5 DEF Owns, Rows
  <2>3. \A t \in Strings : c.text[t] # Freed => \E j \in 1..Len(c.rows) : c.rows[j] = t
    BY <1>4 DEF Owns
  <2> QED
    BY <2>1, <2>2, <2>3, <1>1, <1>4 DEF Owns
<1> QED
  BY <1>4, <1>6, <1>7, <1>8

(* The String of a row, if any, is deleted and taken out of it.            *)
LEMMA NoString ==
  ASSUME NEW a, Owns(a), NEW i \in 1..Len(a.rows)
  PROVE  LET c == [Arr!Delete(a, i) EXCEPT !.rows[i] = NULL] IN
         /\ Owns(c) /\ c.num = a.num /\ Len(c.rows) = Len(a.rows)
         /\ \A j \in 1..Len(a.rows) : c.rows[j] = IF j = i THEN NULL ELSE a.rows[j]
         /\ \A j \in 1..a.num : At(c, j) = IF j = i THEN NULL ELSE At(a, j)
<1> DEFINE text == [s \in Strings |-> IF s = a.rows[i] THEN Freed ELSE a.text[s]]
           c == [a EXCEPT !.rows = [@ EXCEPT ![i] = NULL], !.text = text]
<1>1. /\ a \in ArrayType /\ a.num \in Nat /\ a.num <= Len(a.rows) /\ a.rows \in Seq(Rows)
      /\ Len(a.rows) \in Nat
  BY DEF Owns, ArrayType
<1>2. \A j \in 1..Len(a.rows) : a.rows[j] \in Rows
  BY <1>1, ElementOfSeq
<1>3. [Arr!Delete(a, i) EXCEPT !.rows[i] = NULL] = c
  <2>1. CASE a.rows[i] = NULL
    <3>1. text = a.text
      BY <2>1, <1>1, ArrayAssumption DEF ArrayType
    <3>2. a = [a EXCEPT !.text = text]
      BY <3>1, <1>1 DEF ArrayType
    <3> QED
      BY <2>1, <3>1, <3>2, <1>1 DEF Arr!Delete, ArrayType
  <2>2. CASE a.rows[i] # NULL
    <3>1. a.rows[i] \in Strings
      BY <1>2, <2>2 DEF Rows
    <3>2. text = [a.text EXCEPT ![a.rows[i]] = Freed]
      BY <3>1, <1>1 DEF ArrayType
    <3>3. Arr!Delete(a, i) = [a EXCEPT !.text = text]
      BY <2>2, <3>2 DEF Arr!Delete
    <3> QED
      BY <3>3, <1>1 DEF ArrayType
  <2> QED
    BY <2>1, <2>2
<1>4. /\ c.rows \in Seq(Rows) /\ Len(c.rows) = Len(a.rows)
      /\ \A j \in 1..Len(a.rows) : c.rows[j] = IF j = i THEN NULL ELSE a.rows[j]
  BY <1>1, ExceptSeq DEF Rows, ArrayType
<1>5. /\ c.text \in [Strings -> Texts \cup {Freed}]
      /\ \A s \in Strings : c.text[s] = IF s = a.rows[i] THEN Freed ELSE a.text[s]
  BY <1>1 DEF ArrayType
<1>6. c.num = a.num /\ c \in ArrayType
  BY <1>1, <1>4, <1>5 DEF ArrayType
<1>7. \A j \in 1..Len(a.rows) : a.rows[j] # NULL /\ j # i => a.rows[j] # a.rows[i]
  BY DEF Owns
<1> HIDE DEF c
<1>8. \A j \in 1..a.num : At(c, j) = IF j = i THEN NULL ELSE At(a, j)
  BY <1>1, <1>2, <1>4, <1>5, <1>7 DEF At, Rows
<1>9. Owns(c)
  <2>1. \A j, k \in 1..Len(c.rows) : c.rows[j] # NULL /\ c.rows[j] = c.rows[k] => j = k
    BY <1>4 DEF Owns
  <2>2. \A j \in 1..Len(c.rows) : c.rows[j] # NULL => j <= c.num /\ c.text[c.rows[j]] # Freed
    BY <1>2, <1>4, <1>5, <1>6, <1>7 DEF Owns, Rows
  <2>3. \A t \in Strings : c.text[t] # Freed => \E j \in 1..Len(c.rows) : c.rows[j] = t
    BY <1>4, <1>5 DEF Owns
  <2> QED
    BY <2>1, <2>2, <2>3, <1>1, <1>4, <1>6 DEF Owns
<1> QED
  BY <1>3, <1>4, <1>6, <1>8, <1>9

(* More elements, in the rows that there are.                              *)
LEMMA MoreElements ==
  ASSUME NEW a, Owns(a), NEW n \in Nat, a.num <= n, n <= Len(a.rows)
  PROVE  LET c == [a EXCEPT !.num = n] IN
         /\ Owns(c) /\ c.num = n /\ c.rows = a.rows /\ c.text = a.text
         /\ \A j \in 1..n : At(c, j) = IF j <= a.num THEN At(a, j) ELSE NULL
<1> DEFINE c == [a EXCEPT !.num = n]
<1>1. /\ a \in ArrayType /\ a.num \in Nat /\ a.rows \in Seq(Rows) /\ Len(a.rows) \in Nat
  BY DEF Owns, ArrayType
<1>2. c.rows = a.rows /\ c.text = a.text /\ c.num = n /\ c \in ArrayType
  BY <1>1 DEF ArrayType
<1> HIDE DEF c
<1>3. \A j \in 1..Len(a.rows) : a.rows[j] # NULL => j <= a.num
  BY DEF Owns
<1>4. \A j \in 1..n : At(c, j) = IF j <= a.num THEN At(a, j) ELSE NULL
  BY <1>1, <1>2, <1>3 DEF At
<1>5. Owns(c)
  <2>1. \A j \in 1..Len(c.rows) : c.rows[j] # NULL => j <= c.num /\ c.text[c.rows[j]] # Freed
    BY <1>1, <1>2 DEF Owns
  <2> QED
    BY <2>1, <1>1, <1>2 DEF Owns
<1> QED
  BY <1>2, <1>4, <1>5 DEF c

(* More rows, without a String.                                            *)
LEMMA MoreRows ==
  ASSUME NEW a, Owns(a), NEW n \in Nat
  PROVE  LET c == Arr!reserve(a, n) IN
         /\ Owns(c) /\ c.num = a.num /\ c.text = a.text
         /\ Len(c.rows) >= n /\ Len(c.rows) >= Len(a.rows)
         /\ \A j \in 1..a.num : At(c, j) = At(a, j)
<1>1. /\ a \in ArrayType /\ a.num \in Nat /\ a.num <= Len(a.rows) /\ a.rows \in Seq(Rows)
      /\ Len(a.rows) \in Nat
  BY DEF Owns, ArrayType
<1> DEFINE m == IF n > Len(a.rows) THEN n - Len(a.rows) ELSE 0
           more == [i \in 1..m |-> NULL]
           c == [a EXCEPT !.rows = @ \o more]
<1>2. m \in Nat
  BY <1>1
<1> HIDE DEF m
<1>3. more \in Seq(Rows) /\ Len(more) = m /\ \A j \in 1..m : more[j] = NULL
  BY <1>2 DEF Rows
<1> HIDE DEF more
<1>4. /\ c.rows \in Seq(Rows) /\ Len(c.rows) = Len(a.rows) + m
      /\ \A j \in 1..Len(a.rows) + m : c.rows[j] = IF j <= Len(a.rows) THEN a.rows[j] ELSE NULL
  <2>1. c.rows = a.rows \o more
    BY <1>1 DEF ArrayType
  <2>2. /\ a.rows \o more \in Seq(Rows) /\ Len(a.rows \o more) = Len(a.rows) + m
        /\ \A j \in 1..Len(a.rows) + m : (a.rows \o more)[j] =
             IF j <= Len(a.rows) THEN a.rows[j] ELSE more[j - Len(a.rows)]
    <3>1. PICK s : s = a.rows
      OBVIOUS
    <3>2. s \in Seq(Rows)
      BY <1>1, <3>1
    <3>3. /\ s \o more \in Seq(Rows) /\ Len(s \o more) = Len(s) + Len(more)
          /\ \A j \in 1..Len(s) + Len(more) : (s \o more)[j] =
               IF j <= Len(s) THEN s[j] ELSE more[j - Len(s)]
      BY <1>3, <3>2, ConcatProperties
    <3> QED
      BY <1>3, <3>1, <3>3, Zenon
  <2> QED
    BY <2>1, <2>2, <1>1, <1>2, <1>3
<1>5. c.num = a.num /\ c.text = a.text /\ c \in ArrayType
  BY <1>1, <1>4 DEF ArrayType
<1>6. Arr!reserve(a, n) = c
  BY DEF Arr!reserve, m, more
<1> HIDE DEF c
<1>7. Len(c.rows) >= n /\ Len(c.rows) >= Len(a.rows)
  <2>1. n <= Len(a.rows) + m
    <3>1. \A l \in Nat : n <= l + (IF n > l THEN n - l ELSE 0)
      OBVIOUS
    <3> QED
      BY <3>1, <1>1 DEF m
  <2> QED
    BY <2>1, <1>1, <1>2, <1>4
<1>8. \A j \in 1..a.num : At(c, j) = At(a, j)
  BY <1>1, <1>2, <1>4, <1>5 DEF At
<1>9. Owns(c)
  <2>1. \A j, k \in 1..Len(c.rows) : c.rows[j] # NULL /\ c.rows[j] = c.rows[k] => j = k
    BY <1>1, <1>2, <1>4 DEF Owns
  <2>2. \A j \in 1..Len(c.rows) : c.rows[j] # NULL => j <= c.num /\ c.text[c.rows[j]] # Freed
    BY <1>1, <1>2, <1>4, <1>5 DEF Owns
  <2>3. \A t \in Strings : c.text[t] # Freed => \E j \in 1..Len(c.rows) : c.rows[j] = t
    BY <1>1, <1>2, <1>4, <1>5 DEF Owns
  <2> QED
    BY <2>1, <2>2, <2>3, <1>1, <1>2, <1>4, <1>5 DEF Owns
<1> QED
  BY <1>5, <1>6, <1>7, <1>8, <1>9

(* Max, of two numbers.                                                    *)
LEMMA LargerOfTwo ==
  ASSUME NEW m \in Nat, NEW n \in Nat
  PROVE  Arr!Max({m, n}) = IF m >= n THEN m ELSE n
BY DEF Arr!Max

Larger(m, n) == IF m >= n THEN m ELSE n

(* set, of an element or beyond the end.                                   *)
LEMMA SetElement ==
  ASSUME NEW a, Owns(a), NEW index \in Nat, NEW v \in Texts,
         a.num <= MaxLen, index + 1 <= MaxLen
  PROVE  LET c == Arr!setAt(a, index, v) IN
         /\ Owns(c) /\ c.num = Larger(a.num, index + 1)
         /\ \A j \in 1..c.num :
              At(c, j) = IF j = index + 1 THEN Element(v)
                         ELSE IF j <= a.num THEN At(a, j) ELSE NULL
<1> DEFINE i == index + 1
           b == IF index >= Len(a.rows) THEN Arr!reserve(a, index + Slack) ELSE a
           n == Larger(a.num, i)
           d == [b EXCEPT !.num = n]
<1>1. a.num \in Nat /\ a.num <= Len(a.rows) /\ Len(a.rows) \in Nat /\ Slack \in Nat \ {0}
  BY ArrayAssumption DEF Owns, ArrayType
<1>2. /\ Owns(b) /\ b.num = a.num /\ Len(b.rows) >= i /\ Len(b.rows) >= Len(a.rows)
      /\ \A j \in 1..a.num : At(b, j) = At(a, j)
  <2>1. CASE index >= Len(a.rows)
    <3>1. index + Slack \in Nat /\ index + Slack >= i
      BY <1>1
    <3>2. Len(Arr!reserve(a, index + Slack).rows) \in Nat
      BY <3>1, MoreRows DEF Owns, ArrayType
    <3> QED
      BY <2>1, <3>1, <3>2, MoreRows
  <2>2. CASE ~ (index >= Len(a.rows))
    BY <1>1, <2>2
  <2> QED
    BY <2>1, <2>2
<1> HIDE DEF b
<1>3. Len(b.rows) \in Nat /\ n \in Nat /\ b.num <= n /\ n <= Len(b.rows) /\ n <= MaxLen /\ i \in 1..n
  BY <1>1, <1>2, ArrayAssumption DEF Larger, Owns, ArrayType
<1>4. /\ Owns(d) /\ d.num = n /\ d.rows = b.rows
      /\ \A j \in 1..n : At(d, j) = IF j <= a.num THEN At(a, j) ELSE NULL
  BY <1>1, <1>2, <1>3, MoreElements
<1>5. Arr!setAt(a, index, v) =
        IF v = 0 THEN [Arr!Delete(d, i) EXCEPT !.rows[i] = NULL]
        ELSE IF d.rows[i] = NULL THEN Arr!New(d, i, v)
        ELSE [d EXCEPT !.text[d.rows[i]] = v]
  <2>1. Arr!Max({b.num, i}) = n
    BY <1>1, <1>2, LargerOfTwo DEF Larger
  <2>2. d = [b EXCEPT !.num = Arr!Max({@, i})]
    BY <2>1
  <2> HIDE DEF d
  <2> QED
    BY <2>2 DEF Arr!setAt, b
<1> HIDE DEF d
<1>6. v # NULL /\ i \in 1..Len(d.rows) /\ i \in 1..d.num /\ d.num <= MaxLen
  BY <1>3, <1>4, ArrayAssumption
<1>7. CASE v = 0
  <2>1. /\ Owns([Arr!Delete(d, i) EXCEPT !.rows[i] = NULL])
        /\ [Arr!Delete(d, i) EXCEPT !.rows[i] = NULL].num = d.num
        /\ \A j \in 1..d.num : At([Arr!Delete(d, i) EXCEPT !.rows[i] = NULL], j) =
             IF j = i THEN NULL ELSE At(d, j)
    BY <1>4, <1>6, NoString
  <2> QED
    BY <1>4, <1>5, <1>7, <2>1 DEF Element
<1>8. CASE v # 0 /\ d.rows[i] = NULL
  <2>1. /\ Owns(Arr!New(d, i, v)) /\ Arr!New(d, i, v).num = n
        /\ \A j \in 1..n : At(Arr!New(d, i, v), j) = IF j = i THEN v ELSE At(d, j)
    BY <1>4, <1>6, <1>8, NewString
  <2> QED
    BY <1>4, <1>5, <1>6, <1>8, <2>1 DEF Element
<1>9. CASE v # 0 /\ d.rows[i] # NULL
  <2>1. /\ Owns([d EXCEPT !.text[d.rows[i]] = v]) /\ [d EXCEPT !.text[d.rows[i]] = v].num = d.num
        /\ \A j \in 1..d.num : At([d EXCEPT !.text[d.rows[i]] = v], j) = IF j = i THEN v ELSE At(d, j)
    <3>1. Owns(d) /\ i \in 1..Len(d.rows) /\ d.rows[i] # NULL
      BY <1>4, <1>6, <1>9
    <3>2. v \in Texts
      OBVIOUS
    <3> HIDE DEF d
    <3>3. LET x == [d EXCEPT !.text[d.rows[i]] = v] IN
          /\ Owns(x) /\ x.num = d.num /\ x.rows = d.rows
          /\ \A j \in 1..d.num : At(x, j) = IF j = i THEN v ELSE At(d, j)
      BY <3>1, <3>2, OtherText
    <3> QED
      BY <3>3, Zenon
  <2> QED
    BY <1>4, <1>5, <1>6, <1>9, <2>1 DEF Element
<1> QED
  BY <1>7, <1>8, <1>9

(* Also when there is no room for another String, the number of elements   *)
(* is what it is.                                                          *)
Fields == {"rows", "num", "text"}

(* set in an array of any content: how many elements it has then.          *)
LEMMA SetCounts ==
  ASSUME NEW a, DOMAIN a = Fields, a.num \in Nat, NEW index \in Nat, NEW v
  PROVE  LET c == Arr!setAt(a, index, v) IN
         DOMAIN c = Fields /\ c.num = Larger(a.num, index + 1)
<1> DEFINE i == index + 1
           b == IF index >= Len(a.rows) THEN Arr!reserve(a, index + Slack) ELSE a
           n == Larger(a.num, i)
           d == [b EXCEPT !.num = n]
<1>1. DOMAIN b = Fields /\ b.num = a.num
  BY DEF Arr!reserve, Fields
<1>2. DOMAIN d = Fields /\ d.num = n
  BY <1>1 DEF Fields
<1>3. d = [b EXCEPT !.num = Arr!Max({@, i})]
  <2>1. Arr!Max({b.num, i}) = n
    BY <1>1, LargerOfTwo DEF Larger
  <2> QED
    BY <2>1
<1> HIDE DEF d
<1>4. Arr!setAt(a, index, v) =
        IF v = 0 THEN [Arr!Delete(d, i) EXCEPT !.rows[i] = NULL]
        ELSE IF d.rows[i] = NULL THEN Arr!New(d, i, v)
        ELSE [d EXCEPT !.text[d.rows[i]] = v]
  BY <1>3 DEF Arr!setAt
<1>5. DOMAIN Arr!Delete(d, i) = Fields /\ Arr!Delete(d, i).num = n
  BY <1>2 DEF Arr!Delete, Fields
<1>6. DOMAIN Arr!New(d, i, v) = Fields /\ Arr!New(d, i, v).num = n
  <2> DEFINE s == CHOOSE t \in Strings : d.text[t] = Freed
  <2> HIDE DEF s
  <2>1. Arr!New(d, i, v) = [d EXCEPT !.rows = [@ EXCEPT ![i] = s], !.text = [@ EXCEPT ![s] = v]]
    BY DEF Arr!New, s
  <2> QED
    BY <2>1, <1>2 DEF Fields
<1> QED
  BY <1>2, <1>4, <1>5, <1>6 DEF Fields

(* t has p behind its first k places.                                      *)
Has(t, k, p) == \A j \in 1..Len(p) : t[k + j] = p[j]

(* What sequences put together are, part by part.                          *)
LEMMA TwoParts ==
  ASSUME NEW S, NEW p \in Seq(S), NEW q \in Seq(S)
  PROVE  /\ p \o q \in Seq(S) /\ Len(p \o q) = Len(p) + Len(q)
         /\ Has(p \o q, 0, p) /\ Has(p \o q, Len(p), q)
<1>1. PICK c : c = p \o q
  OBVIOUS
<1>2. PICK k \in Nat : k = Len(p)
  OBVIOUS
<1>3. PICK l \in Nat : l = Len(q)
  OBVIOUS
<1>4. c \in Seq(S) /\ Len(c) = k + l
  BY <1>1, <1>2, <1>3
<1>5. \A i \in 1..k + l : c[i] = IF i <= k THEN p[i] ELSE q[i - k]
  BY <1>1, <1>2, <1>3, ConcatProperties
<1>6. \A j \in 1..k : 0 + j \in 1..k + l /\ 0 + j <= k /\ 0 + j = j
  OBVIOUS
<1>7. \A j \in 1..l : k + j \in 1..k + l /\ ~ (k + j <= k) /\ (k + j) - k = j
  OBVIOUS
<1>8. \A j \in 1..k : c[0 + j] = p[j]
  BY <1>5, <1>6
<1>9. \A j \in 1..l : c[k + j] = q[j]
  BY <1>5, <1>7
<1> QED
  BY <1>1, <1>2, <1>3, <1>4, <1>8, <1>9 DEF Has

(* A part of a part.                                                       *)
LEMMA HasPart ==
  ASSUME NEW S, NEW p \in Seq(S), NEW q \in Seq(S), NEW t, NEW k \in Nat, NEW l \in Nat,
         Has(t, k, q), Has(q, l, p), l + Len(p) <= Len(q)
  PROVE  Has(t, k + l, p)
<1>1. Len(p) \in Nat /\ Len(q) \in Nat
  OBVIOUS
<1> SUFFICES ASSUME NEW j \in 1..Len(p) PROVE t[k + l + j] = p[j]
  BY DEF Has
<1>2. l + j \in 1..Len(q) /\ k + (l + j) = k + l + j
  BY <1>1
<1>3. t[k + (l + j)] = q[l + j]
  BY <1>2 DEF Has
<1>4. q[l + j] = p[j]
  BY DEF Has
<1> QED
  BY <1>2, <1>3, <1>4

LEMMA ThreeParts ==
  ASSUME NEW S, NEW p \in Seq(S), NEW q \in Seq(S), NEW r \in Seq(S)
  PROVE  LET t == p \o q \o r IN
         /\ t \in Seq(S) /\ Len(t) = Len(p) + Len(q) + Len(r)
         /\ Has(t, 0, p) /\ Has(t, Len(p), q) /\ Has(t, Len(p) + Len(q), r)
<1> DEFINE pq == p \o q
           t == pq \o r
<1>1. pq \in Seq(S) /\ Len(pq) = Len(p) + Len(q) /\ Has(pq, 0, p) /\ Has(pq, Len(p), q)
  BY TwoParts
<1> HIDE DEF pq
<1>2. t \in Seq(S) /\ Len(t) = Len(pq) + Len(r) /\ Has(t, 0, pq) /\ Has(t, Len(pq), r)
  BY <1>1, TwoParts
<1> HIDE DEF t
<1>3. Len(p) \in Nat /\ Len(q) \in Nat /\ Len(r) \in Nat
  OBVIOUS
<1>4. Has(t, 0 + 0, p)
  BY <1>1, <1>2, <1>3, HasPart
<1>5. Has(t, 0 + Len(p), q)
  BY <1>1, <1>2, <1>3, HasPart
<1>6. 0 + 0 = 0 /\ 0 + Len(p) = Len(p)
  BY <1>3
<1>7. Has(t, 0, p) /\ Has(t, Len(p), q) /\ Has(t, Len(p) + Len(q), r)
  BY <1>1, <1>2, <1>4, <1>5, <1>6
<1> QED
  BY <1>1, <1>2, <1>7 DEF t, pq

LEMMA FourParts ==
  ASSUME NEW S, NEW p \in Seq(S), NEW q \in Seq(S), NEW r \in Seq(S), NEW s \in Seq(S)
  PROVE  LET t == p \o q \o r \o s IN
         /\ t \in Seq(S) /\ Len(t) = Len(p) + Len(q) + Len(r) + Len(s)
         /\ Has(t, 0, p) /\ Has(t, Len(p), q) /\ Has(t, Len(p) + Len(q), r)
         /\ Has(t, Len(p) + Len(q) + Len(r), s)
<1> DEFINE u == p \o q \o r
           t == u \o s
<1>1. /\ u \in Seq(S) /\ Len(u) = Len(p) + Len(q) + Len(r)
      /\ Has(u, 0, p) /\ Has(u, Len(p), q) /\ Has(u, Len(p) + Len(q), r)
  BY ThreeParts
<1> HIDE DEF u
<1>2. t \in Seq(S) /\ Len(t) = Len(u) + Len(s) /\ Has(t, 0, u) /\ Has(t, Len(u), s)
  BY <1>1, TwoParts
<1> HIDE DEF t
<1>3. Len(p) \in Nat /\ Len(q) \in Nat /\ Len(r) \in Nat /\ Len(s) \in Nat
  OBVIOUS
<1>4. Has(t, 0 + 0, p)
  BY <1>1, <1>2, <1>3, HasPart
<1>5. Has(t, 0 + Len(p), q)
  BY <1>1, <1>2, <1>3, HasPart
<1>6. Has(t, 0 + (Len(p) + Len(q)), r)
  BY <1>1, <1>2, <1>3, HasPart
<1>7. 0 + 0 = 0 /\ 0 + Len(p) = Len(p) /\ 0 + (Len(p) + Len(q)) = Len(p) + Len(q)
  BY <1>3
<1>8. /\ Has(t, 0, p) /\ Has(t, Len(p), q) /\ Has(t, Len(p) + Len(q), r)
      /\ Has(t, Len(p) + Len(q) + Len(r), s)
  BY <1>1, <1>2, <1>4, <1>5, <1>6, <1>7
<1> QED
  BY <1>1, <1>2, <1>8 DEF t, u

(* A part of a sequence, from the place behind m to n.                     *)
LEMMA Part ==
  ASSUME NEW S, NEW s \in Seq(S), NEW m \in Nat, NEW n \in Nat, m <= n, n <= Len(s)
  PROVE  LET t == SubSeq(s, m + 1, n) IN
         /\ t \in Seq(S) /\ Len(t) = n - m
         /\ \A j \in 1..n - m : t[j] = s[m + j]
<1>1. PICK k \in Nat : k = m + 1
  OBVIOUS
<1>2. \A i \in k..n : s[i] \in S
  <2>1. \A i \in k..n : i \in 1..Len(s)
    BY <1>1
  <2> QED
    BY <2>1, ElementOfSeq
<1>3. /\ SubSeq(s, k, n) \in Seq(S)
      /\ Len(SubSeq(s, k, n)) = IF k <= n THEN n - k + 1 ELSE 0
      /\ \A i \in 1..n - k + 1 : SubSeq(s, k, n)[i] = s[k + i - 1]
  BY <1>2, SubSeqProperties
<1>4. /\ n - k + 1 = n - m /\ (IF k <= n THEN n - k + 1 ELSE 0) = n - m
      /\ \A j \in 1..n - m : k + j - 1 = m + j
  BY <1>1
<1> QED
  BY <1>1, <1>3, <1>4, Zenon

(* The array cleared.                                                      *)
LEMMA NoElements ==
  ASSUME NEW a, Owns(a)
  PROVE  LET c == Arr!Cleared(a) IN Owns(c) /\ c.num = 0 /\ c.rows = <<>>
<1> DEFINE c == Arr!Cleared(a)
<1>1. a.text \in [Strings -> Texts \cup {Freed}] /\ a.rows \in Seq(Rows)
  BY DEF Owns, ArrayType
<1>2. /\ c.rows = <<>> /\ c.num = 0
      /\ c.text = [s \in Strings |-> IF s \in Arr!ToSet(a.rows) THEN Freed ELSE a.text[s]]
      /\ c \in ArrayType
  BY <1>1 DEF Arr!Cleared, ArrayType
<1>3. \A s \in Strings : c.text[s] = Freed
  BY <1>1, <1>2 DEF Owns, Arr!ToSet
<1> HIDE DEF c
<1>4. Len(c.rows) = 0
  BY <1>2
<1>5. Owns(c)
  BY <1>2, <1>3, <1>4 DEF Owns
<1> QED
  BY <1>2, <1>5 DEF c

(* An array with other rows and elements, as a record.                     *)
LEMMA OtherRows ==
  ASSUME NEW a \in ArrayType, NEW rows, NEW n
  PROVE  [a EXCEPT !.rows = rows, !.num = n] = [rows |-> rows, num |-> n, text |-> a.text]
<1> DEFINE b == [a EXCEPT !.rows = rows]
<1>1. b = [rows |-> rows, num |-> a.num, text |-> a.text]
  BY DEF ArrayType
<1>2. [a EXCEPT !.rows = rows, !.num = n] = [b EXCEPT !.num = n]
  OBVIOUS
<1> HIDE DEF b
<1>3. [b EXCEPT !.num = n] = [rows |-> rows, num |-> n, text |-> a.text]
  BY <1>1
<1> QED
  BY <1>2, <1>3

(* The rows in other places: g says where a row comes from, 0 if it has no *)
(* String. Those that have one are all there, and once.                    *)
Moved(a, rows, n, g) ==
  /\ rows \in Seq(Rows) /\ n \in Nat /\ n <= Len(rows)
  /\ g \in [1..Len(rows) -> 0..Len(a.rows)]
  /\ \A j \in 1..Len(rows) : rows[j] = IF g[j] = 0 THEN NULL ELSE a.rows[g[j]]
  /\ \A j \in 1..Len(rows) : rows[j] # NULL => j <= n
  /\ \A j, k \in 1..Len(rows) : g[j] = g[k] /\ g[j] # 0 => j = k
  /\ \A i \in 1..Len(a.rows) : a.rows[i] # NULL => \E j \in 1..Len(rows) : g[j] = i

LEMMA MovedRows ==
  ASSUME NEW a, Owns(a), NEW rows, NEW n, NEW g, Moved(a, rows, n, g),
         NEW c, c = [rows |-> rows, num |-> n, text |-> a.text]
  PROVE  /\ Owns(c) /\ c.num = n /\ c.rows = rows
         /\ \A j \in 1..n : At(c, j) = IF g[j] = 0 THEN NULL ELSE At(a, g[j])
<1> USE DEF Moved
<1>1. /\ a \in ArrayType /\ a.num \in Nat /\ a.num <= Len(a.rows) /\ a.rows \in Seq(Rows)
      /\ Len(a.rows) \in Nat /\ Len(rows) \in Nat
  BY DEF Owns, ArrayType
<1>2. c.rows = rows /\ c.num = n /\ c.text = a.text /\ c \in ArrayType
  BY <1>1 DEF ArrayType
<1>3. \A j \in 1..n : At(c, j) = IF g[j] = 0 THEN NULL ELSE At(a, g[j])
  BY <1>1, <1>2 DEF At
<1>4. \A j \in 1..Len(rows) : rows[j] # NULL => g[j] \in 1..Len(a.rows) /\ rows[j] = a.rows[g[j]]
  BY <1>1
<1>5. Owns(c)
  <2>1. \A j, k \in 1..Len(rows) : rows[j] # NULL /\ rows[j] = rows[k] => j = k
    <3> SUFFICES ASSUME NEW j \in 1..Len(rows), NEW k \in 1..Len(rows), rows[j] # NULL, rows[j] = rows[k]
                 PROVE  j = k
      OBVIOUS
    <3>1. /\ g[j] \in 1..Len(a.rows) /\ rows[j] = a.rows[g[j]]
          /\ g[k] \in 1..Len(a.rows) /\ rows[k] = a.rows[g[k]]
      BY <1>4
    <3>2. a.rows[g[j]] # NULL /\ a.rows[g[j]] = a.rows[g[k]]
      BY <3>1
    <3>3. \A x, y \in 1..Len(a.rows) : a.rows[x] # NULL /\ a.rows[x] = a.rows[y] => x = y
      BY DEF Owns
    <3>4. g[j] = g[k]
      BY <3>1, <3>2, <3>3
    <3> QED
      BY <3>1, <3>4
  <2>2. \A j \in 1..Len(rows) : rows[j] # NULL => j <= n /\ a.text[rows[j]] # Freed
    BY <1>4 DEF Owns
  <2>3. \A t \in Strings : a.text[t] # Freed => \E j \in 1..Len(rows) : rows[j] = t
    <3> SUFFICES ASSUME NEW t \in Strings, a.text[t] # Freed
                 PROVE  \E j \in 1..Len(rows) : rows[j] = t
      OBVIOUS
    <3>1. PICK i \in 1..Len(a.rows) : a.rows[i] = t
      BY DEF Owns
    <3>2. a.rows[i] # NULL
      BY <3>1, ArrayAssumption
    <3>3. PICK j \in 1..Len(rows) : g[j] = i
      BY <3>2
    <3> QED
      BY <3>1, <3>3
  <2> QED
    BY <2>1, <2>2, <2>3, <1>1, <1>2 DEF Owns
<1> QED
  BY <1>2, <1>3, <1>5

(* An element is erased, and those behind it move.                         *)
LEMMA ErasedElement ==
  ASSUME NEW a, Owns(a), NEW index \in Nat, index < a.num
  PROVE  LET c == Arr!EraseAt(a, index) IN
         /\ Owns(c) /\ c.num = a.num - 1
         /\ \A j \in 1..a.num - 1 : At(c, j) = IF j <= index THEN At(a, j) ELSE At(a, j + 1)
<1> DEFINE i == index + 1
           e == [Arr!Delete(a, i) EXCEPT !.rows[i] = NULL]
           num == a.num
           l == Len(a.rows)
<1>1. /\ a \in ArrayType /\ num \in Nat /\ num <= l /\ a.rows \in Seq(Rows) /\ l \in Nat
      /\ i \in 1..num /\ i \in 1..l
  BY DEF Owns, ArrayType
<1>2. /\ Owns(e) /\ e.num = num /\ Len(e.rows) = l
      /\ \A j \in 1..l : e.rows[j] = IF j = i THEN NULL ELSE a.rows[j]
      /\ \A j \in 1..num : At(e, j) = IF j = i THEN NULL ELSE At(a, j)
  BY <1>1, NoString
<1>3. /\ Arr!Delete(a, i).rows = a.rows /\ Arr!Delete(a, i).num = num
      /\ e = [Arr!Delete(a, i) EXCEPT !.rows = [a.rows EXCEPT ![i] = NULL]]
      /\ DOMAIN Arr!Delete(a, i) = Fields
  BY <1>1 DEF Arr!Delete, ArrayType, Fields
<1> DEFINE p == SubSeq(a.rows, 1, index)
           q == SubSeq(a.rows, index + 2, num)
           r == SubSeq(a.rows, num + 1, l)
           rows == p \o q \o <<NULL>> \o r
           c == [e EXCEPT !.rows = rows, !.num = num - 1]
<1>4. Arr!EraseAt(a, index) = c
  <2>1. Arr!EraseAt(a, index) = [Arr!Delete(a, i) EXCEPT !.rows = rows, !.num = num - 1]
    BY <1>3 DEF Arr!EraseAt
  <2> QED
    BY <2>1, <1>3 DEF Fields
<1>5. /\ p \in Seq(Rows) /\ Len(p) = index /\ \A j \in 1..index : p[j] = a.rows[j]
      /\ q \in Seq(Rows) /\ Len(q) = num - i /\ \A j \in 1..num - i : q[j] = a.rows[i + j]
      /\ r \in Seq(Rows) /\ Len(r) = l - num /\ \A j \in 1..l - num : r[j] = a.rows[num + j]
  <2>1. index - 0 = index /\ 0 + 1 = 1 /\ i + 1 = index + 2 /\ \A j \in 1..index : 0 + j = j
    OBVIOUS
  <2>2. /\ p \in Seq(Rows) /\ Len(p) = index - 0 /\ \A j \in 1..index - 0 : p[j] = a.rows[0 + j]
    BY <1>1, <2>1, Part
  <2>3. /\ q \in Seq(Rows) /\ Len(q) = num - i /\ \A j \in 1..num - i : q[j] = a.rows[i + j]
    BY <1>1, <2>1, Part
  <2>4. /\ r \in Seq(Rows) /\ Len(r) = l - num /\ \A j \in 1..l - num : r[j] = a.rows[num + j]
    <3>1. num \in Nat /\ l \in Nat /\ num <= l /\ l <= Len(a.rows) /\ a.rows \in Seq(Rows)
      BY <1>1
    <3> HIDE DEF num, l
    <3> QED
      BY <3>1, Part
  <2> QED
    BY <2>1, <2>2, <2>3, <2>4
<1> HIDE DEF p, q, r, e
<1>6. <<NULL>> \in Seq(Rows) /\ Len(<<NULL>>) = 1 /\ <<NULL>>[1] = NULL
  BY DEF Rows
<1>7. /\ rows \in Seq(Rows) /\ Len(rows) = l
      /\ \A j \in 1..index : rows[j] = a.rows[j]
      /\ \A j \in 1..num - i : rows[index + j] = a.rows[i + j]
      /\ rows[num] = NULL
      /\ \A j \in 1..l - num : rows[num + j] = a.rows[num + j]
  <2>1. /\ rows \in Seq(Rows) /\ Len(rows) = Len(p) + Len(q) + Len(<<NULL>>) + Len(r)
        /\ Has(rows, 0, p) /\ Has(rows, Len(p), q) /\ Has(rows, Len(p) + Len(q), <<NULL>>)
        /\ Has(rows, Len(p) + Len(q) + Len(<<NULL>>), r)
    BY <1>5, <1>6, FourParts
  <2> HIDE DEF rows
  <2>2. /\ index + (num - i) = num - 1 /\ index + (num - i) + 1 = num
        /\ num + (l - num) = l /\ \A j \in 1..index : 0 + j = j
    BY <1>1
  <2>3. /\ Len(rows) = l
        /\ Has(rows, 0, p) /\ Has(rows, index, q) /\ Has(rows, num - 1, <<NULL>>)
        /\ Has(rows, num, r)
    BY <2>1, <2>2, <1>5, <1>6
  <2>4. \A j \in 1..index : rows[0 + j] = a.rows[j]
    BY <2>3, <1>5 DEF Has
  <2>5. \A j \in 1..num - i : rows[index + j] = a.rows[i + j]
    BY <2>3, <1>5 DEF Has
  <2>6. rows[(num - 1) + 1] = NULL
    BY <2>3, <1>6 DEF Has
  <2>7. \A j \in 1..l - num : rows[num + j] = a.rows[num + j]
    BY <2>3, <1>5 DEF Has
  <2>8. (num - 1) + 1 = num
    BY <1>1
  <2> QED
    BY <2>1, <2>2, <2>3, <2>4, <2>5, <2>6, <2>7, <2>8
<1> HIDE DEF rows
<1>8. \A j \in 1..l : rows[j] =
           IF j <= index THEN a.rows[j] ELSE IF j < num THEN a.rows[j + 1]
           ELSE IF j = num THEN NULL ELSE a.rows[j]
  <2> SUFFICES ASSUME NEW j \in 1..l
               PROVE  rows[j] = IF j <= index THEN a.rows[j] ELSE IF j < num THEN a.rows[j + 1]
                                ELSE IF j = num THEN NULL ELSE a.rows[j]
    OBVIOUS
  <2>1. CASE j <= index
    BY <2>1, <1>7
  <2>2. CASE j > index /\ j < num
    <3>1. PICK k \in 1..num - i : j = index + k
      <4>1. j - index \in 1..num - i /\ j = index + (j - index)
        BY <2>2, <1>1
      <4> QED
        BY <4>1
    <3>2. i + k = j + 1
      BY <3>1, <1>1
    <3> QED
      BY <2>2, <3>1, <3>2, <1>7, <1>1
  <2>3. CASE j = num
    BY <2>3, <1>7, <1>1
  <2>4. CASE j > num
    <3>1. PICK k \in 1..l - num : j = num + k
      <4>1. j - num \in 1..l - num /\ j = num + (j - num)
        BY <2>4, <1>1
      <4> QED
        BY <4>1
    <3> QED
      BY <2>4, <3>1, <1>7, <1>1
  <2> QED
    BY <2>1, <2>2, <2>3, <2>4, <1>1
<1> DEFINE g == [j \in 1..l |-> IF j <= index THEN j ELSE IF j < num THEN j + 1
                               ELSE IF j = num THEN 0 ELSE j]
<1>9. g \in [1..l -> 0..l] /\ \A j, k \in 1..l : g[j] = g[k] /\ g[j] # 0 => j = k
  BY <1>1
<1>10. \A j \in 1..l : rows[j] = IF g[j] = 0 THEN NULL ELSE e.rows[g[j]]
  <2>1. \A j \in 1..l : g[j] # 0 => g[j] \in 1..l /\ g[j] # i /\ rows[j] = a.rows[g[j]]
    BY <1>1, <1>8
  <2>2. \A j \in 1..l : g[j] = 0 => rows[j] = NULL
    BY <1>1, <1>8
  <2> HIDE DEF g
  <2> QED
    BY <1>2, <2>1, <2>2
<1>11. \A j \in 1..l : rows[j] # NULL => j <= num - 1
  BY <1>1, <1>8 DEF Owns
<1>12. \A k \in 1..l : e.rows[k] # NULL => \E j \in 1..l : g[j] = k
  <2> SUFFICES ASSUME NEW k \in 1..l, e.rows[k] # NULL PROVE \E j \in 1..l : g[j] = k
    OBVIOUS
  <2>1. k # i
    BY <1>2
  <2>2. k <= num
    BY <1>2 DEF Owns
  <2>3. CASE k <= index
    <3>1. k \in 1..l /\ g[k] = k
      BY <2>3, <1>1
    <3> QED
      BY <3>1
  <2>4. CASE k > i
    <3>1. k - 1 \in 1..l /\ k - 1 > index /\ k - 1 < num /\ (k - 1) + 1 = k
      BY <2>2, <2>4, <1>1
    <3>2. g[k - 1] = k
      BY <3>1
    <3> QED
      BY <3>1, <3>2
  <2>5. k <= index \/ k > i
    BY <2>1, <1>1
  <2> QED
    BY <2>3, <2>4, <2>5
<1>13. num - 1 \in Nat /\ num - 1 <= l
  BY <1>1
<1>14. /\ Owns(c) /\ c.num = num - 1
       /\ \A j \in 1..num - 1 : At(c, j) = IF g[j] = 0 THEN NULL ELSE At(e, g[j])
  <2> HIDE DEF g, l, num
  <2>1. /\ g \in [1..Len(rows) -> 0..Len(e.rows)] /\ Owns(e) /\ rows \in Seq(Rows)
        /\ num - 1 \in Nat /\ num - 1 <= Len(rows)
        /\ \A j \in 1..Len(rows) : rows[j] = IF g[j] = 0 THEN NULL ELSE e.rows[g[j]]
        /\ \A j \in 1..Len(rows) : rows[j] # NULL => j <= num - 1
        /\ \A j, k \in 1..Len(rows) : g[j] = g[k] /\ g[j] # 0 => j = k
        /\ \A k \in 1..Len(e.rows) : e.rows[k] # NULL => \E j \in 1..Len(rows) : g[j] = k
    BY <1>2, <1>7, <1>9, <1>10, <1>11, <1>12, <1>13
  <2>2. Moved(e, rows, num - 1, g) /\ Owns(e)
    BY <2>1, <1>2 DEF Moved
  <2>3. c = [rows |-> rows, num |-> num - 1, text |-> e.text]
    <3>1. e \in ArrayType
      BY <1>2 DEF Owns
    <3> QED
      BY <3>1, OtherRows
  <2> HIDE DEF c
  <2> QED
    BY <2>2, <2>3, MovedRows
<1>15. \A j \in 1..num - 1 : At(c, j) = IF j <= index THEN At(a, j) ELSE At(a, j + 1)
  <2> HIDE DEF c
  <2>1. \A j \in 1..num - 1 : g[j] = IF j <= index THEN j ELSE j + 1
    BY <1>1
  <2> HIDE DEF g
  <2>2. \A j \in 1..num - 1 : g[j] \in 1..num /\ g[j] # i
    BY <1>1, <2>1
  <2>3. \A j \in 1..num - 1 : At(c, j) = At(e, g[j])
    BY <1>14, <2>2
  <2> QED
    BY <1>1, <1>2, <2>1, <2>2, <2>3
<1> QED
  BY <1>4, <1>14, <1>15

(* Rows are made free between the elements, and counted as elements.       *)
Widened(a, index, n) == [Arr!Shifted(a, index, n) EXCEPT !.num = a.num + n]

LEMMA OpenedRows ==
  ASSUME NEW a, Owns(a), NEW index \in Nat, index < a.num, NEW n \in Nat,
         a.num + n <= Len(a.rows)
  PROVE  LET c == Widened(a, index, n) IN
         /\ Owns(c) /\ c.num = a.num + n /\ Len(c.rows) = Len(a.rows)
         /\ \A j \in 1..n : c.rows[index + j] = NULL
         /\ \A j \in 1..index : At(c, j) = At(a, j)
         /\ \A j \in 1..n : At(c, index + j) = NULL
         /\ \A j \in 1..a.num - index : At(c, index + n + j) = At(a, index + j)
<1> DEFINE num == a.num
           l == Len(a.rows)
           p == SubSeq(a.rows, 1, index)
           q == [i \in 1..n |-> NULL]
           r == SubSeq(a.rows, index + 1, num)
           s == SubSeq(a.rows, num + n + 1, l)
           rows == p \o q \o r \o s
           c == Widened(a, index, n)
<1>1. /\ a \in ArrayType /\ num \in Nat /\ num <= l /\ a.rows \in Seq(Rows) /\ l \in Nat
      /\ index <= num /\ num + n <= l /\ index < num
  BY DEF Owns, ArrayType
<1>2. c = [rows |-> rows, num |-> num + n, text |-> a.text]
  <2>1. Arr!Shifted(a, index, n) = [a EXCEPT !.rows = rows]
    BY <1>1 DEF Arr!Shifted
  <2>2. c = [a EXCEPT !.rows = rows, !.num = num + n]
    BY <2>1 DEF Widened
  <2> HIDE DEF rows
  <2> QED
    BY <1>1, <2>2, OtherRows
<1>3. /\ p \in Seq(Rows) /\ Len(p) = index /\ \A j \in 1..index : p[j] = a.rows[j]
      /\ q \in Seq(Rows) /\ Len(q) = n /\ \A j \in 1..n : q[j] = NULL
      /\ r \in Seq(Rows) /\ Len(r) = num - index
      /\ \A j \in 1..num - index : r[j] = a.rows[index + j]
      /\ s \in Seq(Rows) /\ Len(s) = l - (num + n)
      /\ \A j \in 1..l - (num + n) : s[j] = a.rows[num + n + j]
  <2>1. index - 0 = index /\ 0 + 1 = 1 /\ \A j \in 1..index : 0 + j = j
    OBVIOUS
  <2>2. /\ p \in Seq(Rows) /\ Len(p) = index - 0 /\ \A j \in 1..index - 0 : p[j] = a.rows[0 + j]
    BY <1>1, <2>1, Part
  <2>3. /\ r \in Seq(Rows) /\ Len(r) = num - index
        /\ \A j \in 1..num - index : r[j] = a.rows[index + j]
    BY <1>1, Part
  <2>4. /\ s \in Seq(Rows) /\ Len(s) = l - (num + n)
        /\ \A j \in 1..l - (num + n) : s[j] = a.rows[num + n + j]
    <3>1. PICK k \in Nat : k = num + n
      BY <1>1
    <3>2. PICK e \in Nat : e = l
      BY <1>1
    <3>3. k <= e /\ e <= Len(a.rows)
      BY <3>1, <3>2, <1>1
    <3>4. /\ SubSeq(a.rows, k + 1, e) \in Seq(Rows) /\ Len(SubSeq(a.rows, k + 1, e)) = e - k
          /\ \A j \in 1..e - k : SubSeq(a.rows, k + 1, e)[j] = a.rows[k + j]
      BY <1>1, <3>3, Part
    <3> QED
      BY <3>1, <3>2, <3>4
  <2>5. /\ q \in Seq(Rows) /\ Len(q) = n /\ \A j \in 1..n : q[j] = NULL
    BY DEF Rows
  <2> QED
    BY <2>1, <2>2, <2>3, <2>4, <2>5
<1> HIDE DEF p, q, r, s, c
<1>4. /\ rows \in Seq(Rows) /\ Len(rows) = l
      /\ \A j \in 1..index : rows[j] = a.rows[j]
      /\ \A j \in 1..n : rows[index + j] = NULL
      /\ \A j \in 1..num - index : rows[index + n + j] = a.rows[index + j]
      /\ \A j \in 1..l - (num + n) : rows[num + n + j] = a.rows[num + n + j]
  <2>1. /\ rows \in Seq(Rows) /\ Len(rows) = Len(p) + Len(q) + Len(r) + Len(s)
        /\ Has(rows, 0, p) /\ Has(rows, Len(p), q) /\ Has(rows, Len(p) + Len(q), r)
        /\ Has(rows, Len(p) + Len(q) + Len(r), s)
    BY <1>3, FourParts
  <2> HIDE DEF rows
  <2>2. /\ index + n + (num - index) = num + n
        /\ num + n + (l - (num + n)) = l /\ \A j \in 1..index : 0 + j = j
    BY <1>1
  <2>3. /\ Len(rows) = l
        /\ Has(rows, 0, p) /\ Has(rows, index, q) /\ Has(rows, index + n, r)
        /\ Has(rows, num + n, s)
    BY <2>1, <2>2, <1>3, Zenon
  <2>4. \A j \in 1..index : rows[0 + j] = a.rows[j]
    BY <2>3, <1>3, Zenon DEF Has
  <2>5. \A j \in 1..n : rows[index + j] = NULL
    <3>1. Len(q) = n /\ \A j \in 1..n : q[j] = NULL
      BY <1>3
    <3> QED
      BY <2>3, <3>1 DEF Has
  <2>6. \A j \in 1..num - index : rows[index + n + j] = a.rows[index + j]
    <3>1. Len(r) = num - index /\ \A j \in 1..num - index : r[j] = a.rows[index + j]
      BY <1>3
    <3> QED
      BY <2>3, <3>1 DEF Has
  <2>7. \A j \in 1..l - (num + n) : rows[num + n + j] = a.rows[num + n + j]
    BY <2>3, <1>3, Zenon DEF Has
  <2> QED
    BY <2>1, <2>2, <2>3, <2>4, <2>5, <2>6, <2>7
<1> HIDE DEF rows
<1> DEFINE g == [j \in 1..l |-> IF j <= index THEN j ELSE IF j <= index + n THEN 0
                               ELSE IF j <= num + n THEN j - n ELSE j]
<1>5. \A j \in 1..l : g[j] # 0 => g[j] \in 1..l /\ rows[j] = a.rows[g[j]]
  <2> SUFFICES ASSUME NEW j \in 1..l, g[j] # 0 PROVE g[j] \in 1..l /\ rows[j] = a.rows[g[j]]
    OBVIOUS
  <2>1. CASE j <= index
    BY <2>1, <1>1, <1>4
  <2>2. CASE j > index + n /\ j <= num + n
    <3>1. PICK k \in 1..num - index : j = index + n + k
      <4>1. j - (index + n) \in 1..num - index /\ j = index + n + (j - (index + n))
        BY <2>2, <1>1
      <4> QED
        BY <4>1
    <3>2. g[j] = index + k /\ index + k \in 1..l
      BY <3>1, <2>2, <1>1
    <3>3. rows[j] = a.rows[index + k]
      BY <3>1, <1>4
    <3> QED
      BY <3>2, <3>3
  <2>3. CASE j > num + n
    <3>1. PICK k \in 1..l - (num + n) : j = num + n + k
      <4>1. j - (num + n) \in 1..l - (num + n) /\ j = num + n + (j - (num + n))
        BY <2>3, <1>1
      <4> QED
        BY <4>1
    <3>2. g[j] = j
      BY <2>3, <1>1
    <3> QED
      BY <3>1, <3>2, <1>1, <1>4
  <2>4. ~ (j > index /\ j <= index + n)
    OBVIOUS
  <2>5. j <= index \/ (j > index + n /\ j <= num + n) \/ j > num + n
    BY <2>4, <1>1
  <2> HIDE DEF g
  <2> QED
    BY <2>1, <2>2, <2>3, <2>5
<1>6. \A j \in 1..l : g[j] = 0 => rows[j] = NULL
  <2> SUFFICES ASSUME NEW j \in 1..l, g[j] = 0 PROVE rows[j] = NULL
    OBVIOUS
  <2>1. j > index /\ j <= index + n
    BY <1>1
  <2>2. j - index \in 1..n /\ j = index + (j - index)
    BY <2>1
  <2> QED
    BY <2>2, <1>4
<1>7. g \in [1..l -> 0..l]
  <2>1. \A j \in 1..l : g[j] \in 0..l
    BY <1>1
  <2> QED
    BY <2>1
<1>8. \A j, k \in 1..l : g[j] = g[k] /\ g[j] # 0 => j = k
  BY <1>1
<1>9. \A i \in 1..l : a.rows[i] # NULL => i <= num
  BY DEF Owns
<1>10. \A i \in 1..l : a.rows[i] # NULL => \E j \in 1..l : g[j] = i
  <2> SUFFICES ASSUME NEW i \in 1..l, a.rows[i] # NULL PROVE \E j \in 1..l : g[j] = i
    OBVIOUS
  <2>1. i <= num
    BY <1>9
  <2>2. CASE i <= index
    <3>1. g[i] = i
      BY <2>2
    <3> QED
      BY <3>1
  <2>3. CASE i > index
    <3>1. i + n \in 1..l /\ ~ (i + n <= index) /\ ~ (i + n <= index + n) /\ i + n <= num + n
          /\ (i + n) - n = i
      BY <2>1, <2>3, <1>1
    <3>2. g[i + n] = i
      BY <3>1
    <3> QED
      BY <3>1, <3>2
  <2>4. i <= index \/ i > index
    OBVIOUS
  <2> QED
    BY <2>2, <2>3, <2>4
<1>11. \A j \in 1..l : rows[j] # NULL => j <= num + n
  <2> SUFFICES ASSUME NEW j \in 1..l, ~ (j <= num + n) PROVE rows[j] = NULL
    OBVIOUS
  <2>1. g[j] = j /\ j # 0 /\ ~ (j <= num)
    BY <1>1
  <2> QED
    BY <2>1, <1>5, <1>9
<1>12. Moved(a, rows, num + n, g)
  <2>1. num + n \in Nat /\ num + n <= l
    BY <1>1
  <2>2. \A j \in 1..l : rows[j] = IF g[j] = 0 THEN NULL ELSE a.rows[g[j]]
    BY <1>5, <1>6
  <2> HIDE DEF g
  <2> QED
    BY <2>1, <2>2, <1>4, <1>7, <1>8, <1>10, <1>11 DEF Moved
<1>13. /\ Owns(c) /\ c.num = num + n /\ c.rows = rows
       /\ \A j \in 1..num + n : At(c, j) = IF g[j] = 0 THEN NULL ELSE At(a, g[j])
  <2> HIDE DEF g
  <2>1. PICK k : k = num + n
    OBVIOUS
  <2>2. Moved(a, rows, k, g) /\ c = [rows |-> rows, num |-> k, text |-> a.text]
    BY <1>2, <1>12, <2>1
  <2>3. /\ Owns(c) /\ c.num = k /\ c.rows = rows
        /\ \A j \in 1..k : At(c, j) = IF g[j] = 0 THEN NULL ELSE At(a, g[j])
    BY <2>2, MovedRows
  <2> QED
    BY <2>1, <2>3
<1>14. \A j \in 1..index : At(c, j) = At(a, j)
  <2>1. \A j \in 1..index : j \in 1..num + n /\ g[j] = j /\ j # 0
    BY <1>1
  <2> HIDE DEF g
  <2> QED
    BY <2>1, <1>13
<1>15. \A j \in 1..n : At(c, index + j) = NULL
  <2>1. \A j \in 1..n : index + j \in 1..num + n /\ g[index + j] = 0
    BY <1>1
  <2> HIDE DEF g
  <2> QED
    BY <2>1, <1>13
<1>16. \A j \in 1..num - index : At(c, index + n + j) = At(a, index + j)
  <2>1. \A j \in 1..num - index :
          /\ index + n + j \in 1..num + n /\ g[index + n + j] = index + j /\ index + j # 0
    BY <1>1
  <2> HIDE DEF g
  <2> QED
    BY <2>1, <1>13
<1> QED
  BY <1>4, <1>13, <1>14, <1>15, <1>16 DEF c

(* What an array becomes in one iteration of the loops of Array.           *)
SetStep(x, first, s, n) == IF s[n] = NULL THEN x ELSE Arr!setAt(x, first + n - 1, s[n])
NewStep(x, first, s, n) == IF s[n] = NULL THEN x ELSE Arr!New(x, first + n, s[n])

Iteration(loop, x, first, s, n) ==
  IF loop = "erase" THEN Arr!EraseAt(x, 0)
  ELSE IF loop = "set" THEN SetStep(x, first, s, n) ELSE NewStep(x, first, s, n)

(* f is the row of arrays that a loop goes through.                        *)
Run(f, loop, a, first, s, l) ==
  f = [n \in 0..l |-> IF n = 0 THEN a ELSE Iteration(loop, f[n - 1], first, s, n)]

(* Such a row of arrays exists for every length.                           *)
LEMMA LoopRuns ==
  ASSUME NEW loop, NEW a, NEW first, NEW s, NEW l \in Nat
  PROVE  \E f : Run(f, loop, a, first, s, l)
<1> DEFINE Upto(f, m) ==
             f = [n \in 0..m |-> IF n = 0 THEN a ELSE Iteration(loop, f[n - 1], first, s, n)]
           T == {m \in Nat : ~ \E f : Upto(f, m)}
<1>1. T = {}
  <2> SUFFICES ASSUME T # {} PROVE FALSE
    OBVIOUS
  <2>1. PICK m \in T : \A k \in T : m <= k
    <3>1. T \in SUBSET Nat
      OBVIOUS
    <3> HIDE DEF T
    <3> QED
      BY <3>1, LeastElement
  <2>2. CASE m = 0
    <3>1. Upto([n \in 0..m |-> a], m)
      BY <2>2
    <3> QED
      BY <3>1, <2>1
  <2>3. CASE m # 0
    <3>1. m - 1 \in Nat /\ ~ (m <= m - 1)
      BY <2>1, <2>3
    <3>2. PICK f : Upto(f, m - 1)
      BY <3>1, <2>1
    <3> DEFINE g == [n \in 0..m |-> IF n = m THEN Iteration(loop, f[m - 1], first, s, m) ELSE f[n]]
    <3>3. \A n \in 0..m : g[n] = IF n = 0 THEN a ELSE Iteration(loop, g[n - 1], first, s, n)
      <4> SUFFICES ASSUME NEW n \in 0..m
                   PROVE  g[n] = IF n = 0 THEN a ELSE Iteration(loop, g[n - 1], first, s, n)
        OBVIOUS
      <4>1. CASE n = m
        <5>1. n - 1 \in 0..m /\ n - 1 # m /\ g[n - 1] = f[m - 1] /\ n # 0
          BY <4>1, <3>1, <2>1, <2>3
        <5> QED
          BY <4>1, <5>1
      <4>2. CASE n # m /\ n # 0
        <5>1. n \in 0..m - 1 /\ n - 1 \in 0..m /\ n - 1 # m
          BY <4>2, <2>1
        <5>2. f[n] = Iteration(loop, f[n - 1], first, s, n)
          BY <3>2, <4>2, <5>1
        <5> QED
          BY <4>2, <5>1, <5>2
      <4>3. CASE n # m /\ n = 0
        <5>1. n \in 0..m - 1
          BY <4>3, <2>1
        <5>2. f[n] = a
          BY <3>2, <4>3, <5>1
        <5> QED
          BY <4>3, <5>2
      <4> QED
        BY <4>1, <4>2, <4>3
    <3>4. g = [n \in 0..m |-> g[n]]
      OBVIOUS
    <3> HIDE DEF g
    <3>5. Upto(g, m)
      BY <3>3, <3>4
    <3> QED
      BY <3>5, <2>1
  <2> QED
    BY <2>2, <2>3
<1> QED
  BY <1>1 DEF Run

(* insertArray is the last of a row of arrays with a new String in each.   *)
LEMMA NewRuns ==
  ASSUME NEW a, NEW first, NEW S, NEW s \in Seq(S)
  PROVE  \E b : /\ b[0] = a /\ Arr!NewAll(a, first, s) = b[Len(s)]
                /\ \A n \in 1..Len(s) : b[n] = NewStep(b[n - 1], first, s, n)
<1>1. Len(s) \in Nat
  OBVIOUS
<1>2. PICK f : Run(f, "new", a, first, s, Len(s))
  BY <1>1, LoopRuns
<1>3. \A x, n : Iteration("new", x, first, s, n) = NewStep(x, first, s, n)
  BY DEF Iteration
<1> DEFINE Is(g) ==
             g = [n \in 0..Len(s) |-> IF n = 0 THEN a ELSE NewStep(g[n - 1], first, s, n)]
           b == CHOOSE g : Is(g)
<1>4. Is(f)
  BY <1>2, <1>3 DEF Run
<1>5. Is(b)
  BY <1>4
<1>6. Arr!NewAll(a, first, s) = b[Len(s)]
  BY DEF Arr!NewAll, NewStep
<1> HIDE DEF b
<1>7. b[0] = a /\ \A n \in 1..Len(s) : b[n] = NewStep(b[n - 1], first, s, n)
  BY <1>1, <1>5
<1> QED
  BY <1>6, <1>7

(* The loops over set end with the last of a row of arrays, too.           *)
LEMMA SetRuns ==
  ASSUME NEW a, NEW first, NEW S, NEW s \in Seq(S)
  PROVE  \E b : /\ b[0] = a /\ Arr!SetAll(a, first, s) = b[Len(s)]
                /\ \A n \in 1..Len(s) : b[n] = SetStep(b[n - 1], first, s, n)
<1>1. Len(s) \in Nat
  OBVIOUS
<1>2. PICK f : Run(f, "set", a, first, s, Len(s))
  BY <1>1, LoopRuns
<1>3. \A x, n : Iteration("set", x, first, s, n) = SetStep(x, first, s, n)
  BY DEF Iteration
<1> DEFINE Is(g) ==
             g = [n \in 0..Len(s) |-> IF n = 0 THEN a ELSE SetStep(g[n - 1], first, s, n)]
           b == CHOOSE g : Is(g)
<1>4. Is(f)
  BY <1>2, <1>3 DEF Run
<1>5. Is(b)
  BY <1>4
<1>6. Arr!SetAll(a, first, s) = b[Len(s)]
  BY DEF Arr!SetAll, SetStep
<1> HIDE DEF b
<1>7. b[0] = a /\ \A n \in 1..Len(s) : b[n] = SetStep(b[n - 1], first, s, n)
  BY <1>1, <1>5
<1> QED
  BY <1>6, <1>7

(* makeUnique is that of an array with elements.                           *)
LEMMA EraseRuns ==
  ASSUME array.num \in Nat
  PROVE  \E b : /\ b[0] = array /\ (Arr!makeUnique => Arr!Becomes(b[array.num]))
                /\ \A n \in 1..array.num : b[n] = Arr!EraseAt(b[n - 1], 0)
<1> DEFINE num == array.num
<1>2. PICK f : Run(f, "erase", array, 0, 0, num)
  BY LoopRuns
<1>3. \A x, n : Iteration("erase", x, 0, 0, n) = Arr!EraseAt(x, 0)
  BY DEF Iteration
<1> DEFINE Is(g) ==
             g = [n \in 0..num |-> IF n = 0 THEN array ELSE Arr!EraseAt(g[n - 1], 0)]
           b == CHOOSE g : Is(g)
<1>4. Is(f)
  BY <1>2, <1>3 DEF Run
<1>5. Is(b)
  BY <1>4
<1>6. Arr!makeUnique => Arr!Becomes(b[num])
  BY DEF Arr!makeUnique
<1> HIDE DEF b
<1>7. b[0] = array /\ \A n \in 1..num : b[n] = Arr!EraseAt(b[n - 1], 0)
  BY <1>5
<1> QED
  BY <1>6, <1>7

(* What is seen of a row.                                                  *)
LEMMA SeenType ==
  ASSUME NEW a, Owns(a), NEW j \in 1..Len(a.rows)
  PROVE  At(a, j) \in Texts \cup {NULL} /\ (At(a, j) = NULL <=> a.rows[j] = NULL)
<1>1. a.rows \in Seq(Rows) /\ a.text \in [Strings -> Texts \cup {Freed}]
  BY DEF Owns, ArrayType
<1>2. a.rows[j] \in Rows
  BY <1>1, ElementOfSeq
<1>3. a.rows[j] # NULL => a.text[a.rows[j]] \in Texts
  BY <1>1, <1>2 DEF Owns, Rows
<1> QED
  BY <1>3, ArrayAssumption DEF At

(* A new String leaves the number of elements as it is.                    *)
LEMMA NewCounts ==
  ASSUME NEW a, DOMAIN a = Fields, NEW i, NEW v
  PROVE  LET c == Arr!New(a, i, v) IN DOMAIN c = Fields /\ c.num = a.num
<1> DEFINE s == CHOOSE t \in Strings : a.text[t] = Freed
<1> HIDE DEF s
<1>1. Arr!New(a, i, v) = [a EXCEPT !.rows = [@ EXCEPT ![i] = s], !.text = [@ EXCEPT ![s] = v]]
  BY DEF Arr!New, s
<1> QED
  BY <1>1 DEF Fields

(* A new String for each of s, in rows behind the first ones.              *)
NewSoFar(c, a, first, s, n) ==
  /\ DOMAIN c = Fields /\ c.num = a.num
  /\ a.num <= MaxLen =>
       /\ Owns(c)
       /\ \A j \in 1..n : At(c, first + j) = s[j]
       /\ \A j \in 1..a.num : j <= first \/ j > first + n => At(c, j) = At(a, j)

LEMMA NewStrings ==
  ASSUME NEW a, Owns(a), NEW first \in Nat, NEW s \in Seq(Texts \cup {NULL}),
         first + Len(s) <= a.num, \A j \in 1..Len(s) : At(a, first + j) = NULL
  PROVE  NewSoFar(Arr!NewAll(a, first, s), a, first, s, Len(s))
<1>1. /\ Len(s) \in Nat /\ a.num \in Nat /\ DOMAIN a = Fields /\ a.num <= Len(a.rows)
      /\ Len(a.rows) \in Nat
  BY DEF Owns, ArrayType, Fields
<1>2. PICK b : /\ b[0] = a /\ Arr!NewAll(a, first, s) = b[Len(s)]
               /\ \A n \in 1..Len(s) : b[n] = NewStep(b[n - 1], first, s, n)
  BY NewRuns
<1> DEFINE T == {n \in 0..Len(s) : ~ NewSoFar(b[n], a, first, s, n)}
<1>3. SUFFICES ASSUME T # {} PROVE FALSE
  BY <1>1, <1>2
<1>4. T \in SUBSET Nat
  BY <1>1
<1>5. PICK n \in T : \A k \in T : n <= k
  <2> HIDE DEF T
  <2> QED
    BY <1>3, <1>4, LeastElement
<1>6. n \in 0..Len(s) /\ ~ NewSoFar(b[n], a, first, s, n)
  BY <1>5
<1>7. n # 0
  <2> SUFFICES ASSUME n = 0 PROVE FALSE
    OBVIOUS
  <2> QED
    BY <1>1, <1>2, <1>6 DEF NewSoFar
<1>8. n \in 1..Len(s) /\ n - 1 \in 0..Len(s) /\ ~ (n <= n - 1)
  BY <1>1, <1>6, <1>7
<1>9. NewSoFar(b[n - 1], a, first, s, n - 1)
  BY <1>5, <1>8
<1>10. b[n] = NewStep(b[n - 1], first, s, n)
  BY <1>2, <1>8
<1>11. PICK d : d = b[n - 1]
  OBVIOUS
<1>12. s[n] \in Texts \cup {NULL} /\ first + n \in 1..a.num
  BY <1>1, <1>8, ElementOfSeq
<1>13. \A j \in 1..n : j = n \/ j \in 1..n - 1
  BY <1>8
<1>14. \A j \in 1..a.num :
         /\ j > first + n => j > first + (n - 1) /\ j # first + n
         /\ j <= first => j # first + n
  BY <1>1, <1>8
<1>15. \A j \in 1..n - 1 : first + j \in 1..a.num /\ first + j # first + n
  BY <1>1, <1>8
<1>16. first + n > first + (n - 1)
  BY <1>8
<1>17. a.num <= MaxLen => At(d, first + n) = NULL
  BY <1>1, <1>8, <1>9, <1>11, <1>12, <1>16 DEF NewSoFar
<1>18. NewSoFar(b[n], a, first, s, n)
  <2>1. CASE s[n] = NULL
    <3>1. b[n] = d
      BY <2>1, <1>10, <1>11 DEF NewStep
    <3>2. a.num <= MaxLen => \A j \in 1..n : At(d, first + j) = s[j]
      BY <2>1, <1>9, <1>11, <1>13, <1>17 DEF NewSoFar
    <3>3. a.num <= MaxLen => \A j \in 1..a.num : j <= first \/ j > first + n => At(d, j) = At(a, j)
      BY <1>9, <1>11, <1>14 DEF NewSoFar
    <3> QED
      BY <3>1, <3>2, <3>3, <1>9, <1>11 DEF NewSoFar
  <2>2. CASE s[n] # NULL
    <3> DEFINE c == Arr!New(d, first + n, s[n])
    <3>1. b[n] = c
      BY <2>2, <1>10, <1>11 DEF NewStep
    <3>2. DOMAIN c = Fields /\ c.num = a.num
      BY <1>9, <1>11, NewCounts DEF NewSoFar
    <3>3. SUFFICES ASSUME a.num <= MaxLen
                   PROVE  /\ Owns(c)
                          /\ \A j \in 1..n : At(c, first + j) = s[j]
                          /\ \A j \in 1..a.num : j <= first \/ j > first + n => At(c, j) = At(a, j)
      BY <3>1, <3>2 DEF NewSoFar
    <3>4. Owns(d) /\ d.num = a.num /\ first + n \in 1..d.num /\ s[n] \in Texts
      BY <2>2, <3>3, <1>9, <1>11, <1>12 DEF NewSoFar
    <3>5. d.rows[first + n] = NULL
      <4>1. first + n \in 1..Len(d.rows)
        BY <3>4 DEF Owns, ArrayType
      <4> QED
        BY <4>1, <3>3, <3>4, <1>17, SeenType
    <3>6. /\ Owns(c)
          /\ \A j \in 1..d.num : At(c, j) = IF j = first + n THEN s[n] ELSE At(d, j)
      BY <3>3, <3>4, <3>5, NewString
    <3> HIDE DEF c
    <3>7. \A j \in 1..n : At(c, first + j) = s[j]
      BY <3>3, <3>4, <3>6, <1>9, <1>11, <1>13, <1>15 DEF NewSoFar
    <3>8. \A j \in 1..a.num : j <= first \/ j > first + n => At(c, j) = At(a, j)
      BY <3>3, <3>4, <3>6, <1>9, <1>11, <1>14 DEF NewSoFar
    <3> QED
      BY <3>6, <3>7, <3>8
  <2> QED
    BY <2>1, <2>2
<1> QED
  BY <1>6, <1>18

(* The last string of the first n of s is in place k.                      *)
LastString(s, n, k) ==
  /\ k \in 0..n /\ (k # 0 => s[k] # NULL)
  /\ \A j \in 1..n : j > k => s[j] = NULL

(* c is a, and then s up to place k.                                       *)
Extends(c, a, s, k) ==
  /\ DOMAIN c = Fields /\ c.num = a.num + k
  /\ a.num + k <= MaxLen =>
       /\ Owns(c)
       /\ \A j \in 1..a.num : At(c, j) = At(a, j)
       /\ \A j \in 1..k : At(c, a.num + j) = Element(s[j])

LEMMA SetStrings ==
  ASSUME NEW a, Owns(a), NEW s \in Seq(Texts \cup {NULL})
  PROVE  \E k : LastString(s, Len(s), k) /\ Extends(Arr!SetAll(a, a.num, s), a, s, k)
<1>1. /\ Len(s) \in Nat /\ a.num \in Nat /\ DOMAIN a = Fields
  BY DEF Owns, ArrayType, Fields
<1>2. PICK b : /\ b[0] = a /\ Arr!SetAll(a, a.num, s) = b[Len(s)]
               /\ \A n \in 1..Len(s) : b[n] = SetStep(b[n - 1], a.num, s, n)
  <2>1. PICK S : S = Texts \cup {NULL}
    OBVIOUS
  <2>2. s \in Seq(S)
    BY <2>1
  <2> QED
    BY <2>2, SetRuns
<1> DEFINE Turned(n) == \E k : LastString(s, n, k) /\ Extends(b[n], a, s, k)
           T == {n \in 0..Len(s) : ~ Turned(n)}
<1>3. SUFFICES ASSUME T # {} PROVE FALSE
  BY <1>1, <1>2
<1>4. T \in SUBSET Nat
  BY <1>1
<1>5. PICK n \in T : \A k \in T : n <= k
  <2> HIDE DEF T
  <2> QED
    BY <1>3, <1>4, LeastElement
<1>6. n \in 0..Len(s) /\ ~ Turned(n)
  BY <1>5
<1>7. n # 0
  <2> SUFFICES ASSUME n = 0 PROVE FALSE
    OBVIOUS
  <2>1. LastString(s, 0, 0)
    BY DEF LastString
  <2>2. Extends(a, a, s, 0)
    BY <1>1 DEF Extends
  <2> QED
    BY <1>2, <1>6, <2>1, <2>2
<1>8. n \in 1..Len(s) /\ n - 1 \in 0..Len(s) /\ ~ (n <= n - 1)
  BY <1>1, <1>6, <1>7
<1>9. Turned(n - 1)
  BY <1>5, <1>8
<1>10. b[n] = SetStep(b[n - 1], a.num, s, n)
  BY <1>2, <1>8
<1>11. PICK d : d = b[n - 1]
  OBVIOUS
<1>12. PICK k : LastString(s, n - 1, k) /\ Extends(d, a, s, k)
  BY <1>9, <1>11
<1>13. k \in 0..n - 1 /\ k \in Nat /\ n \in Nat
  BY <1>8, <1>12 DEF LastString
<1>14. s[n] \in Texts \cup {NULL}
  BY <1>1, <1>8, ElementOfSeq
<1>15. CASE s[n] = NULL
  <2>1. b[n] = d
    BY <1>15, <1>10, <1>11 DEF SetStep
  <2>2. LastString(s, n, k)
    BY <1>8, <1>12, <1>13, <1>15 DEF LastString
  <2> QED
    BY <2>1, <2>2, <1>6, <1>12
<1>16. CASE s[n] # NULL
  <2> DEFINE index == a.num + n - 1
             c == Arr!setAt(d, index, s[n])
  <2>1. b[n] = c
    BY <1>16, <1>10, <1>11 DEF SetStep
  <2>2. LastString(s, n, n)
    BY <1>8, <1>16 DEF LastString
  <2>3. index \in Nat /\ index + 1 = a.num + n /\ d.num = a.num + k /\ d.num \in Nat
    BY <1>1, <1>8, <1>12, <1>13 DEF Extends
  <2>4. Larger(d.num, index + 1) = a.num + n
    BY <2>3, <1>1, <1>8, <1>13 DEF Larger
  <2> HIDE DEF index
  <2>5. DOMAIN c = Fields /\ c.num = a.num + n
    BY <2>3, <2>4, <1>12, SetCounts DEF Extends
  <2>6. ASSUME a.num + n <= MaxLen
        PROVE  /\ Owns(c)
               /\ \A j \in 1..a.num : At(c, j) = At(a, j)
               /\ \A j \in 1..n : At(c, a.num + j) = Element(s[j])
    <3>1. a.num + k <= MaxLen
      BY <2>6, <1>1, <1>8, <1>13, ArrayAssumption
    <3>2. /\ Owns(d) /\ \A j \in 1..a.num : At(d, j) = At(a, j)
          /\ \A j \in 1..k : At(d, a.num + j) = Element(s[j])
      BY <3>1, <1>12 DEF Extends
    <3>3. d.num <= MaxLen /\ index + 1 <= MaxLen /\ s[n] \in Texts
      BY <2>3, <2>6, <3>1, <1>14, <1>16
    <3>4. /\ Owns(c)
          /\ \A j \in 1..c.num :
               At(c, j) = IF j = index + 1 THEN Element(s[n])
                          ELSE IF j <= d.num THEN At(d, j) ELSE NULL
      BY <2>3, <3>2, <3>3, SetElement
    <3> HIDE DEF c
    <3>5. \A j \in 1..a.num : j \in 1..c.num /\ j # index + 1 /\ j <= d.num
      BY <2>3, <2>5, <1>1, <1>8, <1>13
    <3>6. \A j \in 1..a.num : At(c, j) = At(a, j)
      BY <3>2, <3>4, <3>5
    <3>7. \A j \in 1..n : At(c, a.num + j) = Element(s[j])
      <4> SUFFICES ASSUME NEW j \in 1..n PROVE At(c, a.num + j) = Element(s[j])
        OBVIOUS
      <4>1. a.num + j \in 1..c.num
        BY <2>5, <1>1, <1>8
      <4>2. CASE j = n
        BY <4>1, <4>2, <2>3, <3>4
      <4>3. CASE j <= k
        <5>1. a.num + j # index + 1 /\ a.num + j <= d.num /\ j \in 1..k
          BY <4>3, <2>3, <1>1, <1>13
        <5> QED
          BY <5>1, <4>1, <3>2, <3>4
      <4>4. CASE j > k /\ j # n
        <5>1. a.num + j # index + 1 /\ ~ (a.num + j <= d.num) /\ j \in 1..n - 1
          BY <4>4, <2>3, <1>1, <1>13
        <5>2. s[j] = NULL
          BY <4>4, <5>1, <1>12 DEF LastString
        <5> QED
          BY <5>1, <5>2, <4>1, <3>4 DEF Element
      <4> QED
        BY <4>2, <4>3, <4>4, <1>13
    <3> QED
      BY <3>4, <3>6, <3>7
  <2>7. Extends(c, a, s, n)
    BY <2>5, <2>6 DEF Extends
  <2> QED
    BY <2>1, <2>2, <2>7, <1>6
<1> QED
  BY <1>15, <1>16

(* makeUnique erases as many elements as there are.                        *)
LEMMA AllErased ==
  ASSUME Owns(array), Arr!makeUnique
  PROVE  \E c : Owns(c) /\ c.num = 0 /\ Arr!Becomes(c)
<1>1. array.num \in Nat
  BY DEF Owns, ArrayType
<1>2. PICK b : /\ b[0] = array /\ (Arr!makeUnique => Arr!Becomes(b[array.num]))
               /\ \A n \in 1..array.num : b[n] = Arr!EraseAt(b[n - 1], 0)
  BY <1>1, EraseRuns
<1> DEFINE Turned(n) == Owns(b[n]) /\ b[n].num = array.num - n
           T == {n \in 0..array.num : ~ Turned(n)}
<1>3. T = {}
  <2> SUFFICES ASSUME T # {} PROVE FALSE
    OBVIOUS
  <2>1. T \in SUBSET Nat
    BY <1>1
  <2>2. PICK n \in T : \A k \in T : n <= k
    <3> HIDE DEF T
    <3> QED
      BY <2>1, LeastElement
  <2>3. n \in 0..array.num /\ ~ Turned(n)
    BY <2>2
  <2>4. n # 0
    BY <1>1, <1>2, <2>3
  <2>5. n \in 1..array.num /\ n - 1 \in 0..array.num /\ ~ (n <= n - 1)
    BY <1>1, <2>3, <2>4
  <2>6. PICK d : d = b[n - 1]
    OBVIOUS
  <2>7. Owns(d) /\ d.num = array.num - (n - 1) /\ 0 < d.num
    <3>1. Turned(n - 1)
      BY <2>2, <2>5
    <3> QED
      BY <3>1, <2>5, <2>6, <1>1
  <2>8. b[n] = Arr!EraseAt(d, 0)
    BY <1>2, <2>5, <2>6
  <2>9. Owns(b[n]) /\ b[n].num = d.num - 1
    BY <2>7, <2>8, ErasedElement
  <2>10. d.num - 1 = array.num - n
    BY <2>5, <2>7, <1>1
  <2> QED
    BY <2>3, <2>9, <2>10
<1>4. Owns(b[array.num]) /\ b[array.num].num = 0
  <2>1. array.num \in 0..array.num /\ array.num - array.num = 0
    BY <1>1
  <2> QED
    BY <1>3, <2>1
<1> QED
  BY <1>2, <1>4

ArrayInv == Owns(array) /\ EmptyString \in Texts

(* The list that the application sees.                                     *)
Seens == Texts \cup {NULL}

(* Its length and its members.                                             *)
LEMMA SeenSeq ==
  ASSUME NEW a, Owns(a)
  PROVE  /\ Seen(a) \in Seq(Seens) /\ Len(Seen(a)) = a.num /\ a.num \in Nat
         /\ \A i \in 1..a.num : Seen(a)[i] = At(a, i)
<1>1. a.num \in Nat /\ Len(a.rows) \in Nat /\ a.num <= Len(a.rows)
  BY DEF Owns, ArrayType
<1>2. \A i \in 1..a.num : At(a, i) \in Seens
  BY <1>1, SeenType DEF Seens
<1> QED
  BY <1>1, <1>2 DEF Seen

(* Two lists with the same elements are one.                               *)
LEMMA SeenIs ==
  ASSUME NEW c, Owns(c), NEW t \in Seq(Seens), Len(t) = c.num,
         \A i \in 1..c.num : At(c, i) = t[i]
  PROVE  Seen(c) = t
<1>1. \A i \in 1..c.num : Seen(c)[i] = t[i]
  BY SeenSeq
<1> QED
  BY <1>1, SeenSeq, SeqEqual

(* It is the list that StringList is about, before a step and after it.    *)
LEMMA ListSeen ==
  /\ [i \in 1..array.num |-> Arr!Content(i)] = Seen(array)
  /\ [i \in 1..array.num |-> Arr!Content(i)]' = Seen(array')
BY DEF Arr!Content, Seen, At

(* A step to an array that owns its Strings is one of the list.            *)
LEMMA ArrayBecomes ==
  ASSUME NEW c, Owns(c), Arr!Becomes(c), EmptyString \in Texts
  PROVE  ArrayInv' /\ Arr!List!Becomes(Seen(c))
<1>1. array' = c /\ EmptyString' = EmptyString /\ undefined' = undefined
  BY DEF Arr!Becomes
<1>2. [i \in 1..array.num |-> Arr!Content(i)]' = Seen(c)
  BY <1>1, ListSeen
<1> QED
  BY <1>1, <1>2 DEF ArrayInv, Arr!List!Becomes

(* A list with an element set, and one with elements without a string.     *)
WithSet(seen, index, v) ==
  IF index < Len(seen) THEN [seen EXCEPT ![index + 1] = Element(v)]
  ELSE seen \o Arr!List!Holes(index - Len(seen)) \o <<Element(v)>>

(* Elements without a string.                                              *)
LEMMA HolesSeq ==
  ASSUME NEW n \in Nat
  PROVE  /\ Arr!List!Holes(n) \in Seq(Seens) /\ Len(Arr!List!Holes(n)) = n
         /\ \A j \in 1..n : Arr!List!Holes(n)[j] = NULL
BY DEF Arr!List!Holes, Seens

(* An element, and the list of it alone.                                   *)
LEMMA ElementSeen ==
  ASSUME NEW v \in Seens
  PROVE  /\ Element(v) \in Seens
         /\ <<Element(v)>> \in Seq(Seens) /\ Len(<<Element(v)>>) = 1 /\ <<Element(v)>>[1] = Element(v)
BY DEF Element, Seens

(* set, as the application sees it.                                        *)
LEMMA SeenSet ==
  ASSUME NEW a, Owns(a), NEW index \in Nat, NEW v \in Texts,
         Arr!setAt(a, index, v).num <= MaxLen
  PROVE  /\ Owns(Arr!setAt(a, index, v))
         /\ Seen(Arr!setAt(a, index, v)) = WithSet(Seen(a), index, v)
<1> DEFINE c == Arr!setAt(a, index, v)
           seen == Seen(a)
           t == WithSet(seen, index, v)
<1>1. /\ seen \in Seq(Seens) /\ Len(seen) = a.num /\ a.num \in Nat
      /\ \A i \in 1..a.num : seen[i] = At(a, i)
  BY SeenSeq
<1> HIDE DEF seen
<1>2. c.num = Larger(a.num, index + 1)
  <2>1. DOMAIN a = Fields
    BY DEF Owns, ArrayType, Fields
  <2> QED
    BY <1>1, <2>1, SetCounts
<1>3. a.num <= MaxLen /\ index + 1 <= MaxLen
  BY <1>1, <1>2, ArrayAssumption DEF Larger
<1>4. /\ Owns(c)
      /\ \A j \in 1..c.num :
           At(c, j) = IF j = index + 1 THEN Element(v)
                      ELSE IF j <= a.num THEN At(a, j) ELSE NULL
  BY <1>3, SetElement
<1> HIDE DEF c
<1>5. v \in Seens
  BY DEF Seens
<1>6. CASE index < a.num
  <2>1. t = [seen EXCEPT ![index + 1] = Element(v)] /\ index + 1 \in 1..Len(seen)
    BY <1>1, <1>6 DEF WithSet
  <2>2. /\ t \in Seq(Seens) /\ Len(t) = Len(seen)
        /\ \A j \in 1..Len(seen) : t[j] = IF j = index + 1 THEN Element(v) ELSE seen[j]
    BY <1>1, <1>5, <2>1, ElementSeen, ExceptSeq
  <2>3. c.num = a.num
    BY <1>1, <1>2, <1>6 DEF Larger
  <2>4. \A j \in 1..c.num : At(c, j) = t[j]
    BY <1>1, <1>4, <2>2, <2>3
  <2> HIDE DEF t
  <2>5. Seen(c) = t
    BY <1>1, <1>4, <2>2, <2>3, <2>4, SeenIs
  <2> QED
    BY <1>4, <2>5 DEF c, t, seen
<1>7. CASE ~ (index < a.num)
  <2> DEFINE n == index - a.num
             holes == Arr!List!Holes(n)
             last == <<Element(v)>>
  <2>1. n \in Nat /\ a.num + n = index
    BY <1>1, <1>7
  <2>2. t = seen \o holes \o last
    BY <1>1, <1>7 DEF WithSet
  <2>3. /\ holes \in Seq(Seens) /\ Len(holes) = n /\ \A j \in 1..n : holes[j] = NULL
        /\ last \in Seq(Seens) /\ Len(last) = 1 /\ last[1] = Element(v)
    BY <1>5, <2>1, HolesSeq, ElementSeen
  <2> HIDE DEF holes, last, t, n
  <2>4. /\ t \in Seq(Seens) /\ Len(t) = a.num + n + 1
        /\ Has(t, 0, seen) /\ Has(t, a.num, holes) /\ Has(t, a.num + n, last)
    <3> DEFINE u == seen \o holes \o last
    <3>1. /\ u \in Seq(Seens) /\ Len(u) = Len(seen) + Len(holes) + Len(last)
          /\ Has(u, 0, seen) /\ Has(u, Len(seen), holes) /\ Has(u, Len(seen) + Len(holes), last)
      BY <1>1, <2>3, ThreeParts
    <3> HIDE DEF u
    <3>2. u = t
      BY <2>2 DEF u
    <3> QED
      BY <1>1, <2>3, <3>1, <3>2
  <2>5. c.num = index + 1
    BY <1>1, <1>2, <1>7 DEF Larger
  <2>6. \A j \in 1..a.num : t[0 + j] = seen[j]
    BY <1>1, <2>4 DEF Has
  <2>7. \A j \in 1..n : t[a.num + j] = NULL
    BY <2>3, <2>4 DEF Has
  <2>8. t[index + 1] = Element(v)
    BY <2>1, <2>3, <2>4 DEF Has
  <2>9. \A j \in 1..c.num : At(c, j) = t[j]
    <3> SUFFICES ASSUME NEW j \in 1..c.num PROVE At(c, j) = t[j]
      OBVIOUS
    <3>1. CASE j = index + 1
      BY <3>1, <1>4, <2>8
    <3>2. CASE j <= a.num
      <4>1. j \in 1..a.num /\ 0 + j = j /\ j # index + 1
        BY <3>2, <1>1, <1>7
      <4> QED
        BY <3>2, <4>1, <1>1, <1>4, <2>6
    <3>3. CASE j # index + 1 /\ ~ (j <= a.num)
      <4>1. j - a.num \in 1..n /\ a.num + (j - a.num) = j
        BY <3>3, <1>1, <2>1, <2>5
      <4>2. t[j] = NULL
        BY <4>1, <2>7
      <4> QED
        BY <3>3, <4>2, <1>4
    <3> QED
      BY <3>1, <3>2, <3>3
  <2>10. Len(t) = c.num
    BY <2>1, <2>4, <2>5
  <2>11. Seen(c) = t
    BY <1>4, <2>4, <2>9, <2>10, SeenIs
  <2> QED
    BY <1>4, <2>11 DEF c, t, seen
<1> QED
  BY <1>6, <1>7

(* Each call of the array is one of the list, or against Undefined.        *)
LEMMA SetRefines ==
  ASSUME ArrayInv, NEW index \in Nat, NEW v \in Texts, Arr!set(index, v)
  PROVE  ArrayInv' /\ Arr!List!set(index, v)
<1> DEFINE c == Arr!setAt(array, index, v)
<1>1. Arr!Becomes(c) /\ Owns(array) /\ EmptyString \in Texts
  BY DEF Arr!set, ArrayInv
<1>2. c.num <= MaxLen
  BY <1>1 DEF Arr!Becomes
<1>3. Owns(c) /\ Seen(c) = WithSet(Seen(array), index, v)
  BY <1>1, <1>2, SeenSet
<1>4. ArrayInv' /\ Arr!List!Becomes(WithSet(Seen(array), index, v))
  <2> HIDE DEF c
  <2>1. ArrayInv' /\ Arr!List!Becomes(Seen(c))
    BY <1>1, <1>3, ArrayBecomes
  <2> QED
    BY <1>3, <2>1
<1>5. Arr!List!set(index, v) <=> Arr!List!Becomes(WithSet(Seen(array), index, v))
  BY ListSeen DEF Arr!List!set, Element, Arr!List!Element, WithSet
<1> QED
  BY <1>4, <1>5

(* The part of a list up to its last string, with the texts of elements.   *)
LEMMA TrimmedSeq ==
  ASSUME NEW s \in Seq(Seens), NEW k, LastString(s, Len(s), k)
  PROVE  LET t == Arr!List!Elements(Arr!List!Trimmed(s)) IN
         t \in Seq(Seens) /\ Len(t) = k /\ \A j \in 1..k : t[j] = Element(s[j])
<1> DEFINE places == {0} \cup {i \in DOMAIN s : s[i] # NULL}
           r == SubSeq(s, 1, k)
<1>1. Len(s) \in Nat /\ DOMAIN s = 1..Len(s) /\ k \in 0..Len(s)
  BY DEF LastString
<1>2. k \in places /\ \A i \in places : k >= i
  BY <1>1 DEF LastString
<1>3. Arr!List!Max(places) = k
  <2>1. places \subseteq Nat /\ k \in Nat
    BY <1>1
  <2> HIDE DEF places
  <2>2. \A x \in places : (\A y \in places : x >= y) => x = k
    BY <1>2, <2>1
  <2> QED
    BY <1>2, <2>2 DEF Arr!List!Max
<1>4. Arr!List!Trimmed(s) = r
  BY <1>3 DEF Arr!List!Trimmed
<1>5. r \in Seq(Seens) /\ Len(r) = k /\ \A j \in 1..k : r[j] = s[j]
  <2>1. k \in Nat /\ 0 + 1 = 1 /\ k - 0 = k /\ \A j \in 1..k : 0 + j = j
    BY <1>1
  <2>2. /\ SubSeq(s, 0 + 1, k) \in Seq(Seens) /\ Len(SubSeq(s, 0 + 1, k)) = k - 0
        /\ \A j \in 1..k - 0 : SubSeq(s, 0 + 1, k)[j] = s[0 + j]
    BY <1>1, <2>1, Part
  <2> QED
    BY <2>1, <2>2
<1> HIDE DEF r
<1> DEFINE t == Arr!List!Elements(r)
<1>6. t = [i \in 1..k |-> Element(s[i])]
  BY <1>1, <1>5 DEF Arr!List!Elements, Arr!List!Element, Element
<1>7. \A i \in 1..k : Element(s[i]) \in Seens
  BY <1>1, ElementOfSeq, ElementSeen
<1>8. t \in Seq(Seens) /\ Len(t) = k /\ \A j \in 1..k : t[j] = Element(s[j])
  BY <1>1, <1>6, <1>7
<1> QED
  BY <1>4, <1>8

(* Where every element is a text, none is cut off.                         *)
LEMMA TextsSeq ==
  ASSUME NEW s \in Seq(Texts)
  PROVE  s \in Seq(Seens) /\ Arr!List!Trimmed(s) = s /\ LastString(s, Len(s), Len(s))
<1>1. s \in Seq(Seens)
  BY SeqMonotonic DEF Seens
<1>2. Len(s) \in Nat /\ DOMAIN s = 1..Len(s) /\ \A i \in 1..Len(s) : s[i] # NULL
  <2>1. \A i \in 1..Len(s) : s[i] \in Texts
    BY ElementOfSeq
  <2> QED
    BY <2>1, ArrayAssumption
<1>3. LastString(s, Len(s), Len(s))
  BY <1>2 DEF LastString
<1> DEFINE places == {0} \cup {i \in DOMAIN s : s[i] # NULL}
<1>4. Arr!List!Max(places) = Len(s)
  <2>1. places = 0..Len(s)
    BY <1>2
  <2> HIDE DEF places
  <2> QED
    BY <1>2, <2>1 DEF Arr!List!Max
<1>5. Arr!List!Trimmed(s) = SubSeq(s, 1, Len(s))
  BY <1>4 DEF Arr!List!Trimmed
<1> QED
  BY <1>1, <1>3, <1>5, SubSeqFull

(* Nor where the last one is.                                              *)
LEMMA EndsWithString ==
  ASSUME NEW s \in Seq(Seens), ~ Arr!List!EndsEmpty(s)
  PROVE  Arr!List!Trimmed(s) = s
<1> DEFINE places == {0} \cup {i \in DOMAIN s : s[i] # NULL}
<1>1. Len(s) \in Nat /\ DOMAIN s = 1..Len(s)
  OBVIOUS
<1>2. Len(s) \in places /\ \A i \in places : Len(s) >= i
  <2>1. s = <<>> \/ s[Len(s)] # NULL
    BY DEF Arr!List!EndsEmpty, Arr!List!Last
  <2> QED
    BY <1>1, <2>1
<1>3. Arr!List!Max(places) = Len(s)
  <2>1. PICK n \in Nat : n = Len(s)
    BY <1>1
  <2>2. places \subseteq Nat /\ n \in places /\ \A i \in places : n >= i
    BY <1>1, <1>2, <2>1
  <2> HIDE DEF places
  <2>3. \A x \in places : (\A y \in places : x >= y) => x = n
    BY <2>2
  <2> QED
    BY <2>1, <2>2, <2>3 DEF Arr!List!Max
<1>4. Arr!List!Trimmed(s) = SubSeq(s, 1, Len(s))
  BY <1>3 DEF Arr!List!Trimmed
<1> QED
  BY <1>4, SubSeqFull

(* The strings of a list, set behind the elements.                         *)
LEMMA SeenSetAll ==
  ASSUME NEW a, Owns(a), NEW s \in Seq(Seens), Arr!SetAll(a, a.num, s).num <= MaxLen
  PROVE  /\ Owns(Arr!SetAll(a, a.num, s))
         /\ Seen(Arr!SetAll(a, a.num, s)) = Seen(a) \o Arr!List!Elements(Arr!List!Trimmed(s))
<1> DEFINE c == Arr!SetAll(a, a.num, s)
           seen == Seen(a)
           r == Arr!List!Elements(Arr!List!Trimmed(s))
           t == seen \o r
<1>1. /\ seen \in Seq(Seens) /\ Len(seen) = a.num /\ a.num \in Nat
      /\ \A i \in 1..a.num : seen[i] = At(a, i)
  BY SeenSeq
<1>2. PICK k : LastString(s, Len(s), k) /\ Extends(c, a, s, k)
  BY SetStrings DEF Seens
<1>3. k \in Nat
  <2>1. Len(s) \in Nat
    OBVIOUS
  <2> QED
    BY <1>2, <2>1 DEF LastString
<1>4. /\ Owns(c) /\ c.num = a.num + k
      /\ \A j \in 1..a.num : At(c, j) = At(a, j)
      /\ \A j \in 1..k : At(c, a.num + j) = Element(s[j])
  BY <1>2 DEF Extends
<1> HIDE DEF c, seen
<1>5. r \in Seq(Seens) /\ Len(r) = k /\ \A j \in 1..k : r[j] = Element(s[j])
  BY <1>2, TrimmedSeq
<1> HIDE DEF r
<1>6. /\ t \in Seq(Seens) /\ Len(t) = Len(seen) + Len(r)
      /\ Has(t, 0, seen) /\ Has(t, Len(seen), r)
  BY <1>1, <1>5, TwoParts
<1> HIDE DEF t
<1>7. \A j \in 1..a.num : t[0 + j] = seen[j]
  BY <1>1, <1>6 DEF Has
<1>8. \A j \in 1..k : t[a.num + j] = Element(s[j])
  BY <1>1, <1>5, <1>6 DEF Has
<1>9. \A j \in 1..c.num : At(c, j) = t[j]
  <2> SUFFICES ASSUME NEW j \in 1..c.num PROVE At(c, j) = t[j]
    OBVIOUS
  <2>1. CASE j <= a.num
    <3>1. j \in 1..a.num /\ 0 + j = j
      BY <2>1, <1>1
    <3> QED
      BY <3>1, <1>1, <1>4, <1>7
  <2>2. CASE ~ (j <= a.num)
    <3>1. j - a.num \in 1..k /\ a.num + (j - a.num) = j
      BY <2>2, <1>1, <1>3, <1>4
    <3> QED
      BY <3>1, <1>4, <1>8
  <2> QED
    BY <2>1, <2>2
<1>10. Len(t) = c.num
  BY <1>1, <1>4, <1>5, <1>6
<1>11. Seen(c) = t
  BY <1>4, <1>6, <1>9, <1>10, SeenIs
<1> QED
  BY <1>4, <1>11 DEF c, t, seen, r

(* The same as a step of the array.                                        *)
LEMMA SetAllRefines ==
  ASSUME NEW a, Owns(a), NEW first, first = a.num, NEW s \in Seq(Seens),
         EmptyString \in Texts, Arr!Becomes(Arr!SetAll(a, first, s))
  PROVE  /\ ArrayInv'
         /\ Arr!List!Becomes(Seen(a) \o Arr!List!Elements(Arr!List!Trimmed(s)))
<1> DEFINE c == Arr!SetAll(a, a.num, s)
<1>1. Arr!Becomes(c) /\ c.num <= MaxLen
  BY DEF Arr!Becomes
<1>2. Owns(c) /\ Seen(c) = Seen(a) \o Arr!List!Elements(Arr!List!Trimmed(s))
  BY <1>1, SeenSetAll
<1> HIDE DEF c
<1>3. ArrayInv' /\ Arr!List!Becomes(Seen(c))
  BY <1>1, <1>2, ArrayBecomes
<1> QED
  BY <1>2, <1>3

(* In an array without elements.                                           *)
LEMMA RefillRefines ==
  ASSUME NEW a, Owns(a), a.num = 0, NEW s \in Seq(Seens),
         EmptyString \in Texts, Arr!Becomes(Arr!SetAll(a, 0, s))
  PROVE  ArrayInv' /\ Arr!List!Becomes(Arr!List!Elements(Arr!List!Trimmed(s)))
<1> DEFINE r == Arr!List!Elements(Arr!List!Trimmed(s))
<1>1. ArrayInv' /\ Arr!List!Becomes(Seen(a) \o r)
  BY SetAllRefines
<1>2. Seen(a) = <<>>
  BY SeenSeq
<1>3. r \in Seq(Seens)
  <2>1. PICK k : LastString(s, Len(s), k)
    BY SetStrings DEF Seens
  <2> QED
    BY <2>1, TrimmedSeq
<1> HIDE DEF r
<1>4. Seen(a) \o r = r
  BY <1>2, <1>3, ConcatEmptySeq
<1> QED
  BY <1>1, <1>4 DEF r

(* clear, and an array copied to itself.                                   *)
LEMMA ClearRefines ==
  ASSUME ArrayInv, Arr!clear \/ Arr!copySelf
  PROVE  /\ ArrayInv' /\ Arr!List!clear
         /\ Arr!List!copySelfEmpties \/ Arr!List!vars' = Arr!List!vars
<1> DEFINE c == Arr!Cleared(array)
<1>1. Arr!Becomes(c) /\ Owns(c) /\ c.num = 0 /\ EmptyString \in Texts
  BY NoElements DEF ArrayInv, Arr!clear, Arr!copySelf
<1> HIDE DEF c
<1>2. ArrayInv' /\ Arr!List!Becomes(Seen(c))
  BY <1>1, ArrayBecomes
<1>3. Seen(c) = <<>>
  BY <1>1, SeenSeq
<1>4. CASE Seen(array) = <<>>
  BY <1>2, <1>3, <1>4, ListSeen DEF Arr!List!clear, Arr!List!Becomes, Arr!List!vars
<1>5. CASE Seen(array) # <<>>
  BY <1>2, <1>3, <1>5, ListSeen DEF Arr!List!clear, Arr!List!copySelfEmpties
<1> QED
  BY <1>4, <1>5, <1>2, <1>3 DEF Arr!List!clear

(* A copy of another array.                                                *)
LEMMA CopyRefines ==
  ASSUME ArrayInv, NEW other \in Others, Arr!copy(other)
  PROVE  ArrayInv' /\ (Arr!List!copy(other) \/ Arr!List!copyTrimmed(other))
<1> DEFINE a == Arr!reserve(Arr!Cleared(array), Len(other))
<1>1. other \in Seq(Seens) /\ Len(other) \in Nat
  BY ArrayAssumption DEF Seens
<1>2. Owns(Arr!Cleared(array)) /\ Arr!Cleared(array).num = 0 /\ EmptyString \in Texts
  BY NoElements DEF ArrayInv
<1>3. Owns(a) /\ a.num = 0
  BY <1>1, <1>2, MoreRows
<1>4. Arr!Becomes(Arr!SetAll(a, 0, other))
  BY DEF Arr!copy
<1> HIDE DEF a
<1>5. ArrayInv' /\ Arr!List!Becomes(Arr!List!Elements(Arr!List!Trimmed(other)))
  BY <1>1, <1>2, <1>3, <1>4, RefillRefines
<1> QED
  BY <1>1, <1>5, EndsWithString DEF Arr!List!copy, Arr!List!copyTrimmed

(* Another array behind the elements.                                      *)
LEMMA AddRefines ==
  ASSUME ArrayInv, NEW other \in Others, Arr!add(other)
  PROVE  ArrayInv' /\ (Arr!List!add(other) \/ Arr!List!addTrimmed(other))
<1> DEFINE a == Arr!reserve(array, array.num + Len(other))
<1>1. /\ other \in Seq(Seens) /\ Len(other) \in Nat /\ Owns(array) /\ array.num \in Nat
      /\ EmptyString \in Texts
  BY ArrayAssumption DEF Seens, ArrayInv, Owns, ArrayType
<1>2. Owns(a) /\ a.num = array.num /\ \A j \in 1..array.num : At(a, j) = At(array, j)
  BY <1>1, MoreRows
<1>3. Arr!Becomes(Arr!SetAll(a, array.num, other))
  BY DEF Arr!add
<1> HIDE DEF a
<1>4. Seen(a) = Seen(array)
  BY <1>2 DEF Seen
<1>5. ArrayInv' /\ Arr!List!Becomes(Seen(array) \o Arr!List!Elements(Arr!List!Trimmed(other)))
  <2>1. ArrayInv' /\ Arr!List!Becomes(Seen(a) \o Arr!List!Elements(Arr!List!Trimmed(other)))
    BY <1>1, <1>2, <1>3, SetAllRefines
  <2> QED
    BY <1>4, <2>1
<1> QED
  BY <1>1, <1>5, ListSeen, EndsWithString DEF Arr!List!add, Arr!List!addTrimmed

(* The first elements of a list, and those behind.                         *)
LEMMA PartSeen ==
  ASSUME NEW a, Owns(a), NEW m \in Nat, NEW n \in Nat, m <= n, n <= a.num
  PROVE  LET t == SubSeq(Seen(a), m + 1, n) IN
         /\ t \in Seq(Seens) /\ Len(t) = n - m
         /\ \A j \in 1..n - m : t[j] = At(a, m + j)
<1> DEFINE seen == Seen(a)
           t == SubSeq(seen, m + 1, n)
<1>1. seen \in Seq(Seens) /\ Len(seen) = a.num /\ a.num \in Nat
      /\ \A i \in 1..a.num : seen[i] = At(a, i)
  BY SeenSeq
<1> HIDE DEF seen
<1>2. /\ t \in Seq(Seens) /\ Len(t) = n - m
      /\ \A j \in 1..n - m : t[j] = seen[m + j]
  BY <1>1, Part
<1> HIDE DEF t
<1>3. \A j \in 1..n - m : m + j \in 1..a.num
  BY <1>1
<1>4. \A j \in 1..n - m : t[j] = At(a, m + j)
  BY <1>1, <1>2, <1>3
<1> QED
  BY <1>2, <1>4 DEF t, seen

(* The first elements of a list.                                           *)
LEMMA FirstSeen ==
  ASSUME NEW a, Owns(a), NEW n \in Nat, n <= a.num
  PROVE  LET t == SubSeq(Seen(a), 1, n) IN
         t \in Seq(Seens) /\ Len(t) = n /\ \A j \in 1..n : t[j] = At(a, j)
<1>1. PICK m \in Nat : m = 0
  OBVIOUS
<1>2. m <= n /\ m + 1 = 1 /\ n - m = n /\ \A j \in 1..n : m + j = j
  BY <1>1
<1>3. LET t == SubSeq(Seen(a), m + 1, n) IN
      t \in Seq(Seens) /\ Len(t) = n - m /\ \A j \in 1..n - m : t[j] = At(a, m + j)
  BY <1>2, PartSeen
<1> QED
  BY <1>2, <1>3, Zenon

(* An element erased.                                                      *)
LEMMA EraseRefines ==
  ASSUME ArrayInv, NEW index \in Nat, index < array.num, Arr!Becomes(Arr!EraseAt(array, index))
  PROVE  ArrayInv' /\ Arr!List!erase(index)
<1> DEFINE c == Arr!EraseAt(array, index)
           seen == Seen(array)
           p == SubSeq(seen, 1, index)
           q == SubSeq(seen, index + 2, array.num)
           t == p \o q
           m == array.num - (index + 1)
<1>1. /\ Owns(array) /\ EmptyString \in Texts /\ array.num \in Nat /\ m \in Nat
      /\ index <= array.num
  <2>1. Owns(array) /\ EmptyString \in Texts /\ array.num \in Nat
    BY DEF ArrayInv, Owns, ArrayType
  <2>2. m \in Nat /\ index <= array.num
    BY <2>1
  <2> QED
    BY <2>1, <2>2
<1>2. /\ Owns(c) /\ c.num = array.num - 1
      /\ \A j \in 1..array.num - 1 :
           At(c, j) = IF j <= index THEN At(array, j) ELSE At(array, j + 1)
  BY <1>1, ErasedElement
<1> HIDE DEF c
<1>3. /\ seen \in Seq(Seens) /\ Len(seen) = array.num
  BY <1>1, SeenSeq
<1>4. p \in Seq(Seens) /\ Len(p) = index /\ \A j \in 1..index : p[j] = At(array, j)
  BY <1>1, FirstSeen
<1>5. q \in Seq(Seens) /\ Len(q) = m /\ \A j \in 1..m : q[j] = At(array, index + 1 + j)
  <2>1. PICK n \in Nat : n = index + 1
    OBVIOUS
  <2>2. n + 1 = index + 2 /\ n <= array.num /\ array.num - n = m
    BY <1>1, <2>1
  <2>3. LET r == SubSeq(Seen(array), n + 1, array.num) IN
        /\ r \in Seq(Seens) /\ Len(r) = array.num - n
        /\ \A j \in 1..array.num - n : r[j] = At(array, n + j)
    BY <1>1, <2>2, PartSeen
  <2> QED
    BY <2>1, <2>2, <2>3, Zenon
<1>6. Arr!List!RemoveAt(seen, index + 1) = t
  BY <1>3 DEF Arr!List!RemoveAt
<1> HIDE DEF p, q, seen
<1>7. t \in Seq(Seens) /\ Len(t) = Len(p) + Len(q) /\ Has(t, 0, p) /\ Has(t, Len(p), q)
  BY <1>4, <1>5, TwoParts
<1> HIDE DEF t
<1>8. \A j \in 1..index : t[0 + j] = At(array, j)
  BY <1>4, <1>7 DEF Has
<1>9. \A j \in 1..m : t[index + j] = At(array, index + 1 + j)
  BY <1>4, <1>5, <1>7 DEF Has
<1>10. \A j \in 1..c.num : At(c, j) = t[j]
  <2> SUFFICES ASSUME NEW j \in 1..c.num PROVE At(c, j) = t[j]
    OBVIOUS
  <2>1. CASE j <= index
    <3>1. j \in 1..index /\ 0 + j = j /\ j \in 1..array.num - 1
      BY <2>1, <1>1, <1>2
    <3> QED
      BY <3>1, <2>1, <1>2, <1>8
  <2>2. CASE ~ (j <= index)
    <3>1. /\ j - index \in 1..m /\ index + (j - index) = j /\ index + 1 + (j - index) = j + 1
          /\ j \in 1..array.num - 1
      BY <2>2, <1>1, <1>2
    <3> QED
      BY <3>1, <2>2, <1>2, <1>9
  <2> QED
    BY <2>1, <2>2
<1>11. Len(t) = c.num
  <2>1. index + m = array.num - 1
    BY <1>1
  <2>2. Len(t) = index + m
    BY <1>4, <1>5, <1>7, Zenon
  <2> QED
    BY <2>1, <2>2, <1>2, Zenon
<1>12. Seen(c) = t
  BY <1>2, <1>7, <1>10, <1>11, SeenIs
<1>13. ArrayInv' /\ Arr!List!Becomes(Seen(c))
  <2>1. Arr!Becomes(c)
    BY DEF c
  <2> QED
    BY <1>1, <1>2, <2>1, ArrayBecomes
<1>14. Arr!List!Becomes(Arr!List!RemoveAt(seen, index + 1))
  BY <1>6, <1>12, <1>13
<1> QED
  BY <1>3, <1>13, <1>14, ListSeen DEF Arr!List!erase, seen

(* pop, of an element without a string or of one with.                     *)
LEMMA PopRefines ==
  ASSUME ArrayInv, Arr!pop
  PROVE  ArrayInv' /\ (Arr!List!pop \/ Arr!List!Undefined)
<1> DEFINE seen == Seen(array)
           last == array.rows[array.num]
<1>1. /\ Owns(array) /\ EmptyString \in Texts /\ array.num \in Nat /\ array.num > 0
      /\ Len(array.rows) \in Nat /\ array.num <= Len(array.rows) /\ DOMAIN array = Fields
  BY DEF ArrayInv, Owns, ArrayType, Arr!pop, Fields
<1>2. /\ seen \in Seq(Seens) /\ Len(seen) = array.num
      /\ \A i \in 1..array.num : seen[i] = At(array, i)
  BY <1>1, SeenSeq
<1>3. seen # <<>> /\ (Arr!List!Last(seen) = NULL <=> last = NULL)
  <2>1. array.num \in 1..Len(array.rows) /\ array.num \in 1..array.num
    BY <1>1
  <2>2. At(array, array.num) = NULL <=> last = NULL
    BY <1>1, <2>1, SeenType
  <2>3. seen[Len(seen)] = At(array, array.num)
    BY <1>2, <2>1
  <2> HIDE DEF seen, last
  <2> QED
    BY <1>1, <1>2, <2>2, <2>3 DEF Arr!List!Last
<1>4. CASE last # NULL
  <2>1. undefined' = "pop" /\ array' = array /\ EmptyString' = EmptyString
    BY <1>4 DEF Arr!pop, Arr!LeavesDefined
  <2>2. ArrayInv'
    BY <2>1 DEF ArrayInv
  <2>3. [i \in 1..array.num |-> Arr!Content(i)]' = [i \in 1..array.num |-> Arr!Content(i)]
    BY <2>1, ListSeen
  <2> QED
    BY <1>3, <1>4, <2>1, <2>2, <2>3, ListSeen DEF Arr!List!Undefined
<1>5. CASE last = NULL
  <2> DEFINE c == [array EXCEPT !.num = array.num - 1]
             t == SubSeq(seen, 1, array.num - 1)
  <2>1. Arr!Becomes(c)
    BY <1>5 DEF Arr!pop
  <2>2. PICK n \in Nat : n = array.num - 1
    BY <1>1
  <2>3. c.num = n /\ c.rows = array.rows /\ c.text = array.text /\ c \in ArrayType
    BY <1>1, <2>2 DEF Owns, ArrayType
  <2> HIDE DEF c
  <2>4. Owns(c)
    <3>1. n <= Len(array.rows)
      BY <1>1, <2>2
    <3>2. \A i \in 1..Len(array.rows) : array.rows[i] # NULL => i <= n
      <4> SUFFICES ASSUME NEW i \in 1..Len(array.rows), array.rows[i] # NULL PROVE i <= n
        OBVIOUS
      <4>1. i <= array.num /\ i # array.num
        BY <1>1, <1>5 DEF Owns
      <4> QED
        BY <4>1, <2>2, <1>1
    <3> QED
      BY <1>1, <2>3, <3>1, <3>2 DEF Owns
  <2>5. t \in Seq(Seens) /\ Len(t) = n /\ \A j \in 1..n : t[j] = At(array, j)
    <3>1. n <= array.num
      BY <1>1, <2>2
    <3>2. LET r == SubSeq(Seen(array), 1, n) IN
          r \in Seq(Seens) /\ Len(r) = n /\ \A j \in 1..n : r[j] = At(array, j)
      BY <1>1, <3>1, FirstSeen
    <3> QED
      BY <3>2, <2>2
  <2>6. Arr!List!Front(seen) = t
    BY <1>2 DEF Arr!List!Front
  <2> HIDE DEF t
  <2>7. \A j \in 1..n : At(c, j) = At(array, j)
    BY <2>3 DEF At
  <2>8. Seen(c) = t
    BY <2>3, <2>4, <2>5, <2>7, SeenIs
  <2>9. ArrayInv' /\ Arr!List!Becomes(Seen(c))
    BY <1>1, <2>1, <2>4, ArrayBecomes
  <2> QED
    BY <1>3, <1>5, <2>6, <2>8, <2>9, ListSeen DEF Arr!List!pop
<1> QED
  BY <1>4, <1>5

(* A step that leaves what C++ defines leaves the array as it is.          *)
LEMMA Leaving ==
  ASSUME ArrayInv, NEW call, Arr!LeavesDefined(call)
  PROVE  /\ ArrayInv' /\ undefined' = call
         /\ [i \in 1..array.num |-> Arr!Content(i)]' = [i \in 1..array.num |-> Arr!Content(i)]
         /\ EmptyString' = EmptyString
<1>1. undefined' = call /\ array' = array /\ EmptyString' = EmptyString
  BY DEF Arr!LeavesDefined
<1>2. Seen(array') = Seen(array)
  BY <1>1
<1> QED
  BY <1>1, <1>2, ListSeen DEF ArrayInv

(* A row has a string if and only if it is seen.                           *)
LEMMA HasString ==
  ASSUME NEW a, Owns(a), NEW i \in 1..a.num
  PROVE  i \in DOMAIN Seen(a) /\ (Seen(a)[i] = NULL <=> a.rows[i] = NULL)
<1>1. a.num \in Nat /\ Len(a.rows) \in Nat /\ a.num <= Len(a.rows)
  BY DEF Owns, ArrayType
<1>2. i \in 1..Len(a.rows)
  BY <1>1
<1>3. At(a, i) = NULL <=> a.rows[i] = NULL
  BY <1>2, SeenType
<1> QED
  BY <1>3 DEF Seen

(* An array added to itself: it has no strings, or the rows have moved.    *)
LEMMA AddSelfRefines ==
  ASSUME ArrayInv, Arr!addSelf
  PROVE  /\ ArrayInv'
         /\ \/ Arr!List!Undefined
            \/ [i \in 1..array.num |-> Arr!Content(i)]' = [i \in 1..array.num |-> Arr!Content(i)]
               /\ EmptyString' = EmptyString /\ undefined' = undefined
<1>1. /\ Owns(array) /\ EmptyString \in Texts /\ array.num \in Nat
  BY DEF ArrayInv, Owns, ArrayType
<1>2. CASE (\E i \in 1..array.num : array.rows[i] # NULL) /\ Arr!LeavesDefined("add")
  <2>1. PICK i \in 1..array.num : array.rows[i] # NULL
    BY <1>2
  <2>2. \E j \in DOMAIN Seen(array) : Seen(array)[j] # NULL
    BY <1>1, <2>1, HasString
  <2> QED
    BY <1>2, <2>2, Leaving, ListSeen DEF Arr!List!Undefined
<1>3. CASE Arr!Becomes(Arr!reserve(array, 2 * array.num))
  <2>1. PICK n \in Nat : n = 2 * array.num
    BY <1>1
  <2> DEFINE c == Arr!reserve(array, n)
  <2>2. Owns(c) /\ c.num = array.num /\ \A j \in 1..array.num : At(c, j) = At(array, j)
    BY <1>1, MoreRows
  <2>3. Arr!Becomes(c)
    BY <1>3, <2>1
  <2> HIDE DEF c
  <2>4. Seen(c) = Seen(array)
    BY <2>2 DEF Seen
  <2>5. ArrayInv' /\ Arr!List!Becomes(Seen(c))
    BY <1>1, <2>2, <2>3, ArrayBecomes
  <2> QED
    BY <2>4, <2>5, ListSeen DEF Arr!List!Becomes
<1> QED
  BY <1>2, <1>3 DEF Arr!addSelf

(* An assignment to what get gives.                                        *)
LEMMA AssignRefines ==
  ASSUME ArrayInv, NEW index \in Nat, NEW v \in Texts, Arr!assign(index, v)
  PROVE  ArrayInv' /\ (Arr!List!assign(index, v) \/ Arr!List!assignShared(index, v))
<1> DEFINE seen == Seen(array)
<1>1. /\ Owns(array) /\ EmptyString \in Texts /\ array.num \in Nat /\ index < array.num
      /\ Len(array.rows) \in Nat /\ array.num <= Len(array.rows)
  BY DEF ArrayInv, Owns, ArrayType, Arr!assign
<1>2. /\ seen \in Seq(Seens) /\ Len(seen) = array.num
      /\ \A i \in 1..array.num : seen[i] = At(array, i)
  BY <1>1, SeenSeq
<1>3. PICK n \in Nat : n = index + 1
  OBVIOUS
<1>4. n \in 1..array.num /\ n \in 1..Len(array.rows)
  BY <1>1, <1>3
<1>5. seen[n] = NULL <=> array.rows[n] = NULL
  BY <1>1, <1>4, HasString
<1> HIDE DEF seen
<1>6. CASE array.rows[n] = NULL
  <2>1. EmptyString' = v /\ array' = array /\ undefined' = undefined
    BY <1>3, <1>6 DEF Arr!assign
  <2>2. ArrayInv'
    BY <1>1, <2>1 DEF ArrayInv
  <2>3. [i \in 1..array.num |-> Arr!Content(i)]' = [i \in 1..array.num |-> Arr!Content(i)]
    BY <2>1, ListSeen
  <2> QED
    BY <1>1, <1>2, <1>3, <1>5, <1>6, <2>1, <2>2, <2>3, ListSeen DEF Arr!List!assignShared, seen
<1>7. CASE array.rows[n] # NULL
  <2> DEFINE c == [array EXCEPT !.text[array.rows[n]] = v]
             t == [seen EXCEPT ![n] = v]
  <2>1. Arr!Becomes(c)
    BY <1>3, <1>7 DEF Arr!assign
  <2>2. /\ Owns(c) /\ c.num = array.num
        /\ \A j \in 1..array.num : At(c, j) = IF j = n THEN v ELSE At(array, j)
    <3>1. Owns(array) /\ n \in 1..Len(array.rows) /\ array.rows[n] # NULL
      BY <1>1, <1>4, <1>7
    <3>2. LET x == [array EXCEPT !.text[array.rows[n]] = v] IN
          /\ Owns(x) /\ x.num = array.num /\ x.rows = array.rows
          /\ \A j \in 1..array.num : At(x, j) = IF j = n THEN v ELSE At(array, j)
      BY <3>1, OtherText
    <3> QED
      BY <3>2, Zenon
  <2> HIDE DEF c
  <2>3. v \in Seens
    BY DEF Seens
  <2>4. /\ t \in Seq(Seens) /\ Len(t) = Len(seen)
        /\ \A j \in 1..Len(seen) : t[j] = IF j = n THEN v ELSE seen[j]
    BY <1>2, <1>4, <2>3, ExceptSeq
  <2> HIDE DEF t
  <2>5. \A j \in 1..c.num : At(c, j) = t[j]
    BY <1>2, <2>2, <2>4
  <2>6. Seen(c) = t
    BY <1>2, <2>2, <2>4, <2>5, SeenIs
  <2>7. ArrayInv' /\ Arr!List!Becomes(Seen(c))
    BY <1>1, <2>1, <2>2, ArrayBecomes
  <2>8. Arr!List!Becomes([seen EXCEPT ![index + 1] = v])
    BY <1>3, <2>6, <2>7 DEF t
  <2> QED
    BY <1>1, <1>2, <1>3, <1>5, <1>7, <2>7, <2>8, ListSeen DEF Arr!List!assign, seen
<1> QED
  BY <1>6, <1>7

(* A search that meets an element without a String.                        *)
LEMMA HasRefines ==
  ASSUME ArrayInv, NEW v, Arr!has(v)
  PROVE  ArrayInv' /\ Arr!List!Undefined
<1>1. Owns(array) /\ Arr!LeavesDefined("has")
  BY DEF ArrayInv, Arr!has
<1>2. PICK i \in 1..array.num : array.rows[i] = NULL
  BY DEF Arr!has
<1>3. \E j \in DOMAIN Seen(array) : Seen(array)[j] = NULL
  BY <1>1, <1>2, HasString
<1> QED
  BY <1>1, <1>3, Leaving, ListSeen DEF Arr!List!Undefined

(* Where the list is in three parts, so are the rows.                      *)
InParts(c, t, k, l, m) ==
  /\ c.num = k + l + m
  /\ \A j \in 1..k : At(c, j) = t[j]
  /\ \A j \in 1..l : At(c, k + j) = t[k + j]
  /\ \A j \in 1..m : At(c, k + l + j) = t[k + l + j]

LEMMA SeenParts ==
  ASSUME NEW c, Owns(c), NEW t \in Seq(Seens), Len(t) = c.num,
         NEW k \in Nat, NEW l \in Nat, NEW m \in Nat, InParts(c, t, k, l, m)
  PROVE  Seen(c) = t
<1> USE DEF InParts
<1>1. \A j \in 1..c.num : At(c, j) = t[j]
  <2> SUFFICES ASSUME NEW j \in 1..c.num PROVE At(c, j) = t[j]
    OBVIOUS
  <2>1. CASE j <= k
    BY <2>1
  <2>2. CASE j > k /\ j <= k + l
    <3>1. j - k \in 1..l /\ k + (j - k) = j
      BY <2>2
    <3> QED
      BY <3>1
  <2>3. CASE j > k + l
    <3>1. j - (k + l) \in 1..m /\ k + l + (j - (k + l)) = j
      BY <2>3
    <3> QED
      BY <3>1
  <2> QED
    BY <2>1, <2>2, <2>3
<1> QED
  BY <1>1, SeenIs

(* A list with another one put into it.                                    *)
LEMMA MiddleSeen ==
  ASSUME NEW a, Owns(a), NEW index \in Nat, index <= a.num, NEW s \in Seq(Seens)
  PROVE  LET t == SubSeq(Seen(a), 1, index) \o s \o SubSeq(Seen(a), index + 1, a.num) IN
         /\ t \in Seq(Seens) /\ Len(t) = index + Len(s) + (a.num - index)
         /\ \A j \in 1..index : t[j] = At(a, j)
         /\ \A j \in 1..Len(s) : t[index + j] = s[j]
         /\ \A j \in 1..a.num - index : t[index + Len(s) + j] = At(a, index + j)
<1> DEFINE p == SubSeq(Seen(a), 1, index)
           q == SubSeq(Seen(a), index + 1, a.num)
           t == p \o s \o q
<1>1. p \in Seq(Seens) /\ Len(p) = index /\ \A j \in 1..index : p[j] = At(a, j)
  BY FirstSeen
<1>2. /\ q \in Seq(Seens) /\ Len(q) = a.num - index
      /\ \A j \in 1..a.num - index : q[j] = At(a, index + j)
  <2>1. a.num \in Nat /\ a.num <= a.num
    BY DEF Owns, ArrayType
  <2> QED
    BY <2>1, PartSeen
<1> HIDE DEF p, q
<1>3. /\ t \in Seq(Seens) /\ Len(t) = Len(p) + Len(s) + Len(q)
      /\ Has(t, 0, p) /\ Has(t, Len(p), s) /\ Has(t, Len(p) + Len(s), q)
  BY <1>1, <1>2, ThreeParts
<1> HIDE DEF t
<1>4. \A j \in 1..index : t[j] = At(a, j)
  <2>1. \A j \in 1..index : t[0 + j] = p[j] /\ 0 + j = j
    BY <1>1, <1>3 DEF Has
  <2> QED
    BY <1>1, <2>1
<1>5. \A j \in 1..Len(s) : t[index + j] = s[j]
  BY <1>1, <1>3 DEF Has
<1>6. \A j \in 1..a.num - index : t[index + Len(s) + j] = At(a, index + j)
  BY <1>1, <1>2, <1>3 DEF Has
<1> QED
  BY <1>1, <1>2, <1>3, <1>4, <1>5, <1>6, Zenon DEF t, p, q

(* Rows that are moved are not counted yet.                                *)
LEMMA ShiftedCounts ==
  ASSUME NEW a, Owns(a), NEW index, NEW n
  PROVE  LET b == Arr!Shifted(a, index, n) IN
         /\ b.num = a.num /\ DOMAIN b = Fields /\ (index >= a.num => b = a)
         /\ \A m : b.rows = [b EXCEPT !.num = m].rows
<1>1. DOMAIN a = Fields
  BY DEF Owns, ArrayType, Fields
<1> DEFINE b == Arr!Shifted(a, index, n)
<1>2. b.num = a.num /\ DOMAIN b = Fields /\ (index >= a.num => b = a)
  BY <1>1 DEF Arr!Shifted, Fields
<1> HIDE DEF b
<1>3. \A m : b.rows = [b EXCEPT !.num = m].rows
  BY <1>2 DEF Fields
<1> QED
  BY <1>2, <1>3 DEF b

(* A string inserted before an element, or set behind the last one.        *)
LEMMA InsertRefines ==
  ASSUME ArrayInv, NEW index \in Nat, NEW v \in Texts, Arr!insert(index, v)
  PROVE  /\ ArrayInv'
         /\ Arr!List!insert(index, v) \/ Arr!List!set(index, v) \/ Arr!List!Undefined
<1> DEFINE seen == Seen(array)
           r == Arr!reserve(array, array.num + 2)
           b == Arr!Shifted(r, index, 1)
<1>1. /\ Owns(array) /\ EmptyString \in Texts /\ array.num \in Nat
  BY DEF ArrayInv, Owns, ArrayType
<1>2. /\ seen \in Seq(Seens) /\ Len(seen) = array.num
      /\ \A i \in 1..array.num : seen[i] = At(array, i)
  BY <1>1, SeenSeq
<1>3. /\ Owns(r) /\ r.num = array.num /\ Len(r.rows) >= array.num + 2
      /\ \A j \in 1..array.num : At(r, j) = At(array, j)
  <2>1. array.num + 2 \in Nat
    BY <1>1
  <2> QED
    BY <1>1, <2>1, MoreRows
<1>4. CASE array.num > index /\ Arr!LeavesDefined("insert")
  <2>1. seen # <<>>
    BY <1>1, <1>2, <1>4
  <2> QED
    BY <1>4, <2>1, Leaving, ListSeen DEF Arr!List!Undefined
<1>5. CASE array.num > index /\ Arr!Becomes(Arr!setAt([b EXCEPT !.num = @ + 1], index, v))
  <2> DEFINE d == [b EXCEPT !.num = r.num + 1]
             c == Arr!setAt(d, index, v)
             s == <<Element(v)>>
             t == SubSeq(seen, 1, index) \o s \o SubSeq(seen, index + 1, array.num)
  <2>1. index < r.num /\ r.num + 1 <= Len(r.rows) /\ r.num \in Nat
    <3>1. Len(r.rows) \in Nat
      BY <1>3 DEF Owns, ArrayType
    <3> HIDE DEF r
    <3> QED
      BY <1>1, <1>3, <1>5, <3>1
  <2>2. /\ Owns(d) /\ d.num = r.num + 1
        /\ \A j \in 1..index : At(d, j) = At(r, j)
        /\ \A j \in 1..r.num - index : At(d, index + 1 + j) = At(r, index + j)
    <3>1. PICK n \in Nat : n = 1
      OBVIOUS
    <3> HIDE DEF r
    <3>2. Owns(r) /\ index < r.num /\ r.num + n <= Len(r.rows)
      BY <1>3, <2>1, <3>1, Zenon
    <3>3. LET e == Widened(r, index, n) IN
          /\ Owns(e) /\ e.num = r.num + n /\ Len(e.rows) = Len(r.rows)
          /\ \A j \in 1..n : e.rows[index + j] = NULL
          /\ \A j \in 1..index : At(e, j) = At(r, j)
          /\ \A j \in 1..n : At(e, index + j) = NULL
          /\ \A j \in 1..r.num - index : At(e, index + n + j) = At(r, index + j)
      BY <3>2, OpenedRows
    <3> QED
      BY <3>1, <3>3, Zenon DEF Widened
  <2>3. Arr!Becomes(c)
    <3>1. b.num = r.num
      BY <1>3, ShiftedCounts
    <3> HIDE DEF b, r
    <3> QED
      BY <1>5, <3>1
  <2>4. c.num <= MaxLen
    BY <2>3 DEF Arr!Becomes
  <2> HIDE DEF d, seen, r
  <2>5. Owns(c) /\ Seen(c) = WithSet(Seen(d), index, v)
    BY <2>2, <2>4, SeenSet
  <2>6. v \in Seens /\ s \in Seq(Seens) /\ Len(s) = 1 /\ s[1] = Element(v) /\ Element(v) \in Seens
    <3>1. v \in Seens
      BY DEF Seens
    <3> QED
      BY <3>1, ElementSeen
  <2> DEFINE u == Seen(d)
             w == [u EXCEPT ![index + 1] = Element(v)]
  <2>7. /\ u \in Seq(Seens) /\ Len(u) = d.num /\ \A i \in 1..d.num : u[i] = At(d, i)
        /\ index + 1 \in 1..Len(u) /\ d.num \in Nat
    <3>1. u \in Seq(Seens) /\ Len(u) = d.num /\ \A i \in 1..d.num : u[i] = At(d, i)
      BY <2>2, SeenSeq
    <3> QED
      BY <2>1, <2>2, <3>1
  <2> HIDE DEF u
  <2>8. WithSet(u, index, v) = w
    BY <2>7 DEF WithSet
  <2>9. /\ w \in Seq(Seens) /\ Len(w) = Len(u)
        /\ \A j \in 1..Len(u) : w[j] = IF j = index + 1 THEN Element(v) ELSE u[j]
    BY <2>6, <2>7, ExceptSeq
  <2> HIDE DEF w
  <2>10. /\ t \in Seq(Seens) /\ Len(t) = index + 1 + (array.num - index)
         /\ \A j \in 1..index : t[j] = At(array, j)
         /\ \A j \in 1..1 : t[index + j] = s[j]
         /\ \A j \in 1..array.num - index : t[index + 1 + j] = At(array, index + j)
    <3>1. index <= array.num
      BY <1>1, <1>5
    <3> HIDE DEF s
    <3>2. /\ t \in Seq(Seens) /\ Len(t) = index + Len(s) + (array.num - index)
          /\ \A j \in 1..index : t[j] = At(array, j)
          /\ \A j \in 1..Len(s) : t[index + j] = s[j]
          /\ \A j \in 1..array.num - index : t[index + Len(s) + j] = At(array, index + j)
      BY <1>1, <2>6, <3>1, MiddleSeen, Zenon DEF seen
    <3> HIDE DEF t
    <3> QED
      BY <2>6, <3>2, Zenon
  <2> HIDE DEF t, s, c
  <2>11. c.num = Len(t) /\ c.num = Len(w) /\ Len(w) = array.num + 1 /\ Len(t) = array.num + 1
    <3>1. Len(w) = c.num
      BY <2>5, <2>8, <2>9, SeenSeq DEF u
    <3> QED
      BY <1>1, <1>3, <2>2, <2>7, <2>9, <2>10, <3>1
  <2>12. \A j \in 1..Len(w) : t[j] = w[j]
    <3> SUFFICES ASSUME NEW j \in 1..array.num + 1 PROVE t[j] = w[j]
      BY <2>11
    <3>1. j \in 1..Len(u) /\ Len(u) = d.num /\ j \in 1..d.num
      BY <2>7, <2>9, <2>11
    <3>2. CASE j <= index
      <4>1. j \in 1..index /\ j # index + 1 /\ j \in 1..array.num
        BY <3>2, <1>1, <1>5
      <4>2. w[j] = At(array, j)
        BY <4>1, <3>1, <2>9, <2>7, <2>2, <1>3
      <4> QED
        BY <4>1, <4>2, <2>10
    <3>3. CASE j = index + 1
      BY <3>3, <3>1, <2>6, <2>9, <2>10
    <3>4. CASE j > index + 1
      <4>1. PICK k \in Int : k = j - (index + 1)
        OBVIOUS
      <4>2. /\ k \in 1..array.num - index /\ index + 1 + k = j /\ j # index + 1
            /\ index + k \in 1..array.num
        BY <3>4, <4>1, <1>1
      <4>3. w[j] = At(d, index + 1 + k)
        BY <4>2, <3>1, <2>9, <2>7
      <4>4. At(d, index + 1 + k) = At(array, index + k)
        BY <4>2, <2>2, <1>3
      <4> QED
        BY <4>2, <4>3, <4>4, <2>10
    <3> QED
      BY <3>2, <3>3, <3>4
  <2>13. Seen(c) = t
    BY <2>5, <2>8, <2>9, <2>10, <2>11, <2>12, SeqEqual DEF u
  <2>14. ArrayInv' /\ Arr!List!Becomes(Seen(c))
    BY <1>1, <2>3, <2>5, ArrayBecomes
  <2>15. Arr!List!InsertAt(seen, index + 1, Element(v)) = t
    <3>1. (index + 1) - 1 = index
      OBVIOUS
    <3> QED
      BY <1>2, <3>1 DEF Arr!List!InsertAt, t, s, seen
  <2>16. index < Len(seen)
    BY <1>1, <1>2, <1>5 DEF seen
  <2> QED
    BY <2>13, <2>14, <2>15, <2>16, ListSeen
       DEF Arr!List!insert, seen, Arr!List!Element, Element
<1>6. CASE ~ (array.num > index) /\ Arr!Becomes(Arr!setAt(b, index, v))
  <2> DEFINE c == Arr!setAt(r, index, v)
  <2>1. b = r
    <3>1. index >= r.num
      BY <1>1, <1>3, <1>6
    <3> QED
      BY <1>3, <3>1, ShiftedCounts
  <2>2. Arr!Becomes(c) /\ c.num <= MaxLen
    BY <1>6, <2>1 DEF Arr!Becomes
  <2>3. Seen(r) = seen
    BY <1>3 DEF Seen
  <2> HIDE DEF r, seen
  <2>4. Owns(c) /\ Seen(c) = WithSet(Seen(r), index, v)
    BY <1>3, <2>2, SeenSet
  <2> HIDE DEF c
  <2>5. ArrayInv' /\ Arr!List!Becomes(Seen(c))
    BY <1>1, <2>2, <2>4, ArrayBecomes
  <2>6. Arr!List!set(index, v) <=> Arr!List!Becomes(WithSet(Seen(array), index, v))
    BY ListSeen DEF Arr!List!set, Element, Arr!List!Element, WithSet
  <2> QED
    BY <2>3, <2>4, <2>5, <2>6 DEF seen
<1> QED
  BY <1>4, <1>5, <1>6 DEF Arr!insert

(* Rows without a String at index, where there are elements or are to be.  *)
Opened(a, index, n) ==
  [Arr!Shifted(a, index, n) EXCEPT !.num = Arr!Max({@, index}) + n]

LEMMA OpenedForAll ==
  ASSUME NEW a, Owns(a), NEW index \in Nat, NEW n \in Nat \ {0},
         index + n <= Len(Arr!Shifted(a, index, n).rows), a.num + n <= Len(a.rows)
  PROVE  LET d == Opened(a, index, n) IN
         /\ Owns(d) /\ d.num = Larger(a.num, index) + n
         /\ \A j \in 1..a.num : j <= index => At(d, j) = At(a, j)
         /\ \A j \in 1..index : j > a.num => At(d, j) = NULL
         /\ \A j \in 1..n : At(d, index + j) = NULL
         /\ \A j \in 1..a.num - index : At(d, index + n + j) = At(a, index + j)
<1> DEFINE b == Arr!Shifted(a, index, n)
           d == Opened(a, index, n)
           m == Larger(a.num, index)
           e == [b EXCEPT !.num = m + n]
<1>1. a.num \in Nat /\ Len(a.rows) \in Nat
  BY DEF Owns, ArrayType
<1>2. b.num = a.num /\ (index >= a.num => b = a)
  BY ShiftedCounts
<1>3. d = e
  <2>1. Arr!Max({b.num, index}) = m
    BY <1>1, <1>2, LargerOfTwo DEF Larger
  <2>2. d = [b EXCEPT !.num = Arr!Max({@, index}) + n]
    BY DEF Opened
  <2> HIDE DEF b, m, d
  <2> QED
    BY <2>1, <2>2
<1> HIDE DEF d
<1>4. CASE index < a.num
  <2> DEFINE f == Widened(a, index, n)
  <2>1. m = a.num
    BY <1>1, <1>4 DEF Larger
  <2>2. e = f
    BY <2>1 DEF Widened
  <2>3. /\ Owns(f) /\ f.num = a.num + n
        /\ \A j \in 1..index : At(f, j) = At(a, j)
        /\ \A j \in 1..n : At(f, index + j) = NULL
        /\ \A j \in 1..a.num - index : At(f, index + n + j) = At(a, index + j)
    <3>1. Owns(a) /\ index < a.num /\ n \in Nat /\ a.num + n <= Len(a.rows)
      BY <1>4
    <3>2. LET g == Widened(a, index, n) IN
          /\ Owns(g) /\ g.num = a.num + n /\ Len(g.rows) = Len(a.rows)
          /\ \A j \in 1..n : g.rows[index + j] = NULL
          /\ \A j \in 1..index : At(g, j) = At(a, j)
          /\ \A j \in 1..n : At(g, index + j) = NULL
          /\ \A j \in 1..a.num - index : At(g, index + n + j) = At(a, index + j)
      BY <3>1, OpenedRows
    <3> QED
      BY <3>2, Zenon
  <2>4. d = f
    BY <1>3, <2>2
  <2> HIDE DEF f, m
  <2>5. \A j \in 1..a.num : j <= index => At(d, j) = At(a, j)
    BY <2>3, <2>4
  <2>6. \A j \in 1..index : ~ (j > a.num)
    BY <1>1, <1>4
  <2> QED
    BY <2>1, <2>3, <2>4, <2>5, <2>6, Zenon DEF d, m, b
<1>5. CASE ~ (index < a.num)
  <2>1. m = index /\ a.num <= index
    BY <1>1, <1>5 DEF Larger
  <2>2. PICK k \in Nat : k = index + n
    OBVIOUS
  <2> DEFINE f == [a EXCEPT !.num = k]
  <2>3. b = a
    BY <1>1, <1>2, <1>5
  <2>4. d = f
    BY <1>3, <2>1, <2>2, <2>3
  <2>5. a.num <= k /\ k <= Len(a.rows)
    <3>1. index + n <= Len(b.rows)
      OBVIOUS
    <3> HIDE DEF b
    <3> QED
      BY <1>1, <2>1, <2>2, <2>3, <3>1
  <2>6. /\ Owns(f) /\ f.num = k
        /\ \A j \in 1..k : At(f, j) = IF j <= a.num THEN At(a, j) ELSE NULL
    BY <2>5, MoreElements
  <2> HIDE DEF f, m, b
  <2>7. \A j \in 1..a.num : j \in 1..k /\ j <= a.num
    BY <1>1, <2>5
  <2>8. \A j \in 1..index : j > a.num => j \in 1..k /\ ~ (j <= a.num)
    BY <1>1, <2>2
  <2>9. \A j \in 1..n : index + j \in 1..k /\ ~ (index + j <= a.num)
    BY <1>1, <2>1, <2>2
  <2>10. \A j \in 1..a.num - index : FALSE
    BY <1>1, <2>1
  <2> QED
    BY <2>1, <2>2, <2>4, <2>6, <2>7, <2>8, <2>9, <2>10, Zenon DEF d, m, b
<1> QED
  BY <1>4, <1>5

(* What is seen where a new String is made for each of another list.       *)
LEMMA SeenInserted ==
  ASSUME NEW a, Owns(a), NEW index \in Nat, NEW s \in Seq(Seens), Len(s) # 0,
         index + Len(s) <= Len(Arr!Shifted(a, index, Len(s)).rows),
         a.num + Len(s) <= Len(a.rows),
         NEW c,
         c = Arr!NewAll(Opened(a, index, Len(s)), index, s),
         c.num <= MaxLen
  PROVE  /\ Owns(c) /\ c.num = Larger(a.num, index) + Len(s)
         /\ \A j \in 1..a.num : j <= index => At(c, j) = At(a, j)
         /\ \A j \in 1..index : j > a.num => At(c, j) = NULL
         /\ \A j \in 1..Len(s) : At(c, index + j) = s[j]
         /\ \A j \in 1..a.num - index : At(c, index + Len(s) + j) = At(a, index + j)
<1>1. PICK n \in Nat \ {0} : n = Len(s)
  OBVIOUS
<1> DEFINE d == Opened(a, index, n)
           m == Larger(a.num, index)
<1>2. a.num \in Nat /\ Len(a.rows) \in Nat /\ m \in Nat /\ m >= a.num /\ m >= index
  <2>1. a.num \in Nat /\ Len(a.rows) \in Nat
    BY DEF Owns, ArrayType
  <2> QED
    BY <2>1 DEF Larger
<1>3. /\ Owns(d) /\ d.num = m + n
      /\ \A j \in 1..a.num : j <= index => At(d, j) = At(a, j)
      /\ \A j \in 1..index : j > a.num => At(d, j) = NULL
      /\ \A j \in 1..n : At(d, index + j) = NULL
      /\ \A j \in 1..a.num - index : At(d, index + n + j) = At(a, index + j)
  <2>1. index + n <= Len(Arr!Shifted(a, index, n).rows) /\ a.num + n <= Len(a.rows)
    BY <1>1
  <2>2. LET e == Opened(a, index, n) IN
        /\ Owns(e) /\ e.num = Larger(a.num, index) + n
        /\ \A j \in 1..a.num : j <= index => At(e, j) = At(a, j)
        /\ \A j \in 1..index : j > a.num => At(e, j) = NULL
        /\ \A j \in 1..n : At(e, index + j) = NULL
        /\ \A j \in 1..a.num - index : At(e, index + n + j) = At(a, index + j)
    <3>1. Owns(a) /\ index \in Nat /\ n \in Nat \ {0}
      OBVIOUS
    <3> HIDE DEF d, m
    <3> QED
      BY <2>1, <3>1, OpenedForAll
  <2> QED
    BY <2>2, Zenon
<1>4. c = Arr!NewAll(d, index, s)
  BY <1>1
<1> HIDE DEF d, m
<1>5. NewSoFar(c, d, index, s, n)
  <2>1. index + Len(s) <= d.num
    BY <1>1, <1>2, <1>3
  <2>2. \A j \in 1..Len(s) : At(d, index + j) = NULL
    BY <1>1, <1>3
  <2> QED
    BY <1>1, <1>3, <1>4, <2>1, <2>2, NewStrings DEF Seens
<1>6. c.num = d.num
  BY <1>5 DEF NewSoFar
<1>7. /\ Owns(c) /\ \A j \in 1..n : At(c, index + j) = s[j]
      /\ \A j \in 1..d.num : j <= index \/ j > index + n => At(c, j) = At(d, j)
  BY <1>5, <1>6 DEF NewSoFar
<1>8. \A j \in 1..a.num : j <= index => At(c, j) = At(a, j)
  <2>1. \A j \in 1..a.num : j \in 1..d.num
    BY <1>2, <1>3
  <2> QED
    BY <2>1, <1>3, <1>7, Zenon
<1>9. \A j \in 1..index : j > a.num => At(c, j) = NULL
  <2>1. \A j \in 1..index : j \in 1..d.num /\ j <= index
    BY <1>2, <1>3
  <2> QED
    BY <2>1, <1>3, <1>7, Zenon
<1>10. \A j \in 1..a.num - index : At(c, index + n + j) = At(a, index + j)
  <2>1. \A j \in 1..a.num - index : index + n + j \in 1..d.num /\ index + n + j > index + n
    BY <1>2, <1>3
  <2> QED
    BY <2>1, <1>3, <1>7, Zenon
<1> QED
  BY <1>1, <1>3, <1>6, <1>7, <1>8, <1>9, <1>10, Zenon DEF m

(* The list with another one put into it, or behind elements without text. *)
WithList(seen, index, s) ==
  IF index <= Len(seen)
  THEN SubSeq(seen, 1, index) \o s \o SubSeq(seen, index + 1, Len(seen))
  ELSE seen \o Arr!List!Holes(index - Len(seen)) \o s

(* Such an array, as the application sees it.                              *)
LEMMA InsertedSeen ==
  ASSUME NEW a, Owns(a), NEW index \in Nat, NEW s \in Seq(Seens), Len(s) # 0,
         NEW c, Owns(c), c.num = Larger(a.num, index) + Len(s),
         \A j \in 1..a.num : j <= index => At(c, j) = At(a, j),
         \A j \in 1..index : j > a.num => At(c, j) = NULL,
         \A j \in 1..Len(s) : At(c, index + j) = s[j],
         \A j \in 1..a.num - index : At(c, index + Len(s) + j) = At(a, index + j)
  PROVE  Seen(c) = WithList(Seen(a), index, s)
<1> DEFINE seen == Seen(a)
           t == WithList(seen, index, s)
<1>1. /\ seen \in Seq(Seens) /\ Len(seen) = a.num /\ a.num \in Nat
      /\ \A i \in 1..a.num : seen[i] = At(a, i)
  BY SeenSeq
<1>2. PICK n \in Nat : n = Len(s)
  OBVIOUS
<1>3. CASE index <= a.num
  <2> DEFINE u == SubSeq(seen, 1, index) \o s \o SubSeq(seen, index + 1, a.num)
  <2>1. t = u
    BY <1>1, <1>3, Zenon DEF WithList
  <2>2. /\ u \in Seq(Seens) /\ Len(u) = index + n + (a.num - index)
        /\ \A j \in 1..index : u[j] = At(a, j)
        /\ \A j \in 1..n : u[index + j] = s[j]
        /\ \A j \in 1..a.num - index : u[index + n + j] = At(a, index + j)
    <3>1. LET w == SubSeq(Seen(a), 1, index) \o s \o SubSeq(Seen(a), index + 1, a.num) IN
          /\ w \in Seq(Seens) /\ Len(w) = index + Len(s) + (a.num - index)
          /\ \A j \in 1..index : w[j] = At(a, j)
          /\ \A j \in 1..Len(s) : w[index + j] = s[j]
          /\ \A j \in 1..a.num - index : w[index + Len(s) + j] = At(a, index + j)
      BY <1>3, MiddleSeen
    <3> QED
      BY <1>2, <3>1, Zenon
  <2> HIDE DEF u, t, seen
  <2>3. PICK m \in Nat : m = a.num - index
    BY <1>1, <1>3
  <2>4. c.num = index + n + m /\ Len(u) = c.num
    <3>1. Larger(a.num, index) = a.num
      BY <1>1, <1>3 DEF Larger
    <3>2. c.num = a.num + n
      BY <1>2, <3>1, Zenon
    <3>3. Len(u) = index + n + (a.num - index)
      BY <2>2, Zenon
    <3>4. a.num + n = index + n + m
      BY <1>1, <2>3
    <3> QED
      BY <2>3, <3>2, <3>3, <3>4, Zenon
  <2>5. \A j \in 1..index : At(c, j) = u[j]
    <3>1. \A j \in 1..index : j \in 1..a.num /\ j <= index
      BY <1>1, <1>3
    <3> QED
      BY <2>2, <3>1, Zenon
  <2>6. \A j \in 1..n : At(c, index + j) = u[index + j]
    BY <1>2, <2>2, Zenon
  <2>7. \A j \in 1..m : At(c, index + n + j) = u[index + n + j]
    BY <1>2, <2>2, <2>3, Zenon
  <2>8. Seen(c) = u
    <3>1. InParts(c, u, index, n, m)
      BY <2>4, <2>5, <2>6, <2>7, Zenon DEF InParts
    <3> QED
      BY <2>2, <2>4, <3>1, SeenParts
  <2> QED
    BY <2>1, <2>8 DEF t, seen
<1>4. CASE ~ (index <= a.num)
  <2>1. PICK k \in Nat : k = index - a.num
    BY <1>1, <1>4
  <2> DEFINE holes == Arr!List!Holes(k)
             u == seen \o holes \o s
  <2>2. t = u
    BY <1>1, <1>4, <2>1, Zenon DEF WithList
  <2>3. holes \in Seq(Seens) /\ Len(holes) = k /\ \A j \in 1..k : holes[j] = NULL
    BY HolesSeq
  <2> HIDE DEF holes, t, seen
  <2>4. /\ u \in Seq(Seens) /\ Len(u) = Len(seen) + Len(holes) + Len(s)
        /\ Has(u, 0, seen) /\ Has(u, Len(seen), holes) /\ Has(u, Len(seen) + Len(holes), s)
    BY <1>1, <2>3, ThreeParts
  <2> HIDE DEF u
  <2>5. c.num = a.num + k + n /\ Len(u) = c.num /\ a.num + k = index
    <3>1. Larger(a.num, index) = index /\ a.num + k = index
      BY <1>1, <1>4, <2>1 DEF Larger
    <3>2. c.num = a.num + k + n
      BY <1>2, <3>1, Zenon
    <3>3. Len(u) = a.num + k + n
      BY <1>1, <1>2, <2>3, <2>4, Zenon
    <3> QED
      BY <3>1, <3>2, <3>3, Zenon
  <2>6. \A j \in 1..a.num : At(c, j) = u[j]
    <3>1. \A j \in 1..a.num : j <= index /\ 0 + j = j
      BY <1>1, <1>4
    <3>2. \A j \in 1..a.num : u[0 + j] = seen[j]
      BY <1>1, <2>4, Zenon DEF Has
    <3> QED
      BY <1>1, <3>1, <3>2, Zenon
  <2>7. \A j \in 1..k : At(c, a.num + j) = u[a.num + j]
    <3>1. \A j \in 1..k : a.num + j \in 1..index /\ a.num + j > a.num
      BY <1>1, <1>4, <2>1
    <3>2. \A j \in 1..k : u[a.num + j] = NULL
      BY <1>1, <2>3, <2>4, Zenon DEF Has
    <3> QED
      BY <3>1, <3>2, Zenon
  <2>8. \A j \in 1..n : At(c, a.num + k + j) = u[a.num + k + j]
    <3>1. \A j \in 1..n : u[a.num + k + j] = s[j]
      BY <1>1, <1>2, <2>3, <2>4, Zenon DEF Has
    <3> QED
      BY <1>2, <2>5, <3>1, Zenon
  <2>9. Seen(c) = u
    <3>1. u \in Seq(Seens) /\ Len(u) = c.num /\ c.num = a.num + k + n /\ a.num \in Nat
      BY <1>1, <2>4, <2>5, Zenon
    <3> QED
      <4>1. InParts(c, u, a.num, k, n)
        BY <2>6, <2>7, <2>8, <3>1, Zenon DEF InParts
      <4> QED
        BY <3>1, <4>1, SeenParts
  <2> QED
    BY <2>2, <2>9 DEF t, seen
<1> QED
  BY <1>3, <1>4

(* An array inserted, or written behind the rows.                          *)
LEMMA InsertArrayRefines ==
  ASSUME ArrayInv, NEW index \in Nat, index <= MaxLen, NEW other \in Others,
         Arr!insertArray(index, other)
  PROVE  ArrayInv' /\ (Arr!List!insertArray(index, other) \/ Arr!List!Undefined)
<1>1. other \in Seq(Seens) /\ MaxLen \in Nat
  BY ArrayAssumption DEF Seens
<1>2. PICK n \in Nat : n = Len(other)
  BY <1>1
<1> DEFINE r == Arr!reserve(array, array.num + n + 2)
           b == Arr!Shifted(r, index, n)
           c == Arr!NewAll([b EXCEPT !.num = Arr!Max({@, index}) + n], index, other)
<1>3. Owns(array) /\ EmptyString \in Texts /\ array.num \in Nat
  BY DEF ArrayInv, Owns, ArrayType
<1>4. /\ Owns(r) /\ r.num = array.num /\ Len(r.rows) >= array.num + n + 2
      /\ \A j \in 1..array.num : At(r, j) = At(array, j)
  <2>1. array.num + n + 2 \in Nat
    BY <1>3
  <2> QED
    BY <1>3, <2>1, MoreRows
<1>5. r.num + n <= Len(r.rows) /\ Len(r.rows) \in Nat
  <2>1. Len(r.rows) \in Nat
    BY <1>4 DEF Owns, ArrayType
  <2> HIDE DEF r
  <2> QED
    BY <1>3, <1>4, <2>1
<1>6. /\ n # 0
      /\ \/ index + n > Len(b.rows) /\ Arr!LeavesDefined("insertArray")
         \/ index + n <= Len(b.rows) /\ Arr!Becomes(c)
  <2>1. /\ n > 0
        /\ \/ index + n > Len(b.rows) /\ Arr!LeavesDefined("insertArray")
           \/ index + n <= Len(b.rows) /\ Arr!Becomes(c)
    BY <1>2, Zenon DEF Arr!insertArray
  <2> QED
    BY <2>1
<1> HIDE DEF r
<1>7. Len(Seen(array)) = array.num
  BY <1>3, SeenSeq
<1>8. CASE index + n > Len(b.rows) /\ Arr!LeavesDefined("insertArray")
  <2>1. ~ (index < r.num)
    <3>1. SUFFICES ASSUME index < r.num PROVE FALSE
      OBVIOUS
    <3> DEFINE d == Widened(r, index, n)
    <3>2. Len(d.rows) = Len(r.rows)
      BY <1>4, <1>5, <3>1, OpenedRows
    <3>3. d.rows = b.rows
      BY <1>4, ShiftedCounts DEF Widened
    <3> HIDE DEF d, b
    <3> QED
      BY <1>3, <1>4, <1>5, <1>8, <3>1, <3>2, <3>3
  <2>2. b = r
    <3>1. index >= r.num
      BY <1>3, <1>4, <2>1
    <3> QED
      BY <1>4, <3>1, ShiftedCounts
  <2>3. array.num + 3 <= MaxLen
    <3> HIDE DEF b
    <3> QED
      BY <1>1, <1>3, <1>4, <1>5, <1>8, <2>2
  <2> QED
    BY <1>7, <1>8, <2>3, Leaving, ListSeen DEF Arr!List!Undefined
<1>9. CASE index + n <= Len(b.rows) /\ Arr!Becomes(c)
  <2>1. c.num <= MaxLen
    BY <1>9 DEF Arr!Becomes
  <2> HIDE DEF c
  <2>2. c = Arr!NewAll(Opened(r, index, Len(other)), index, other)
    BY <1>2, Zenon DEF c, b, Opened
  <2>3. Len(other) # 0 /\ index + Len(other) <= Len(Arr!Shifted(r, index, Len(other)).rows)
        /\ r.num + Len(other) <= Len(r.rows)
    BY <1>2, <1>5, <1>6, <1>9, Zenon
  <2>4. /\ Owns(c) /\ c.num = Larger(r.num, index) + Len(other)
        /\ \A j \in 1..r.num : j <= index => At(c, j) = At(r, j)
        /\ \A j \in 1..index : j > r.num => At(c, j) = NULL
        /\ \A j \in 1..Len(other) : At(c, index + j) = other[j]
        /\ \A j \in 1..r.num - index : At(c, index + Len(other) + j) = At(r, index + j)
    <3>1. Owns(r) /\ other \in Seq(Seens)
      BY <1>1, <1>4
    <3>2. /\ Len(other) # 0 /\ r.num + Len(other) <= Len(r.rows)
          /\ index + Len(other) <= Len(Arr!Shifted(r, index, Len(other)).rows)
      BY <2>3
    <3> HIDE DEF b
    <3> QED
      BY <2>1, <2>2, <3>1, <3>2, SeenInserted
  <2>5. Seen(c) = WithList(Seen(r), index, other)
    BY <1>1, <1>4, <2>3, <2>4, InsertedSeen, Zenon
  <2>6. Seen(r) = Seen(array)
    BY <1>4 DEF Seen
  <2>7. ArrayInv' /\ Arr!List!Becomes(Seen(c))
    BY <1>3, <1>9, <2>4, ArrayBecomes
  <2>8. Arr!List!Becomes(WithList(Seen(array), index, other))
    BY <2>5, <2>6, <2>7
  <2> QED
    BY <2>7, <2>8, ListSeen DEF Arr!List!insertArray, WithList
<1> QED
  BY <1>6, <1>8, <1>9

(* Array and StringList count sets alike.                                  *)
LEMMA SameCardinality ==
  \A S : Arr!Cardinality(S) = Cardinality(S) /\ Arr!List!Cardinality(S) = Cardinality(S)
BY DEF Cardinality, Arr!Cardinality, Arr!List!Cardinality

(* The members of a finite set in a row.                                   *)
LEMMA AscendingSeq ==
  ASSUME NEW S, IsFiniteSet(S), NEW s \in Arr!Ascending(S)
  PROVE  s \in Seq(S) /\ Len(s) = Cardinality(S)
<1>1. Cardinality(S) \in Nat
  BY FS_CardinalityType
<1>2. s \in [1..Cardinality(S) -> S]
  BY SameCardinality DEF Arr!Ascending, Arr!SetToSeqs
<1> QED
  BY <1>1, <1>2

(* The values of a list are a finite set.                                  *)
LEMMA FiniteToSet ==
  ASSUME NEW S, NEW s \in Seq(S)
  PROVE  IsFiniteSet(Arr!ToSet(s)) /\ Arr!ToSet(s) \subseteq S
<1>1. s \in Surjection(1..Len(s), Arr!ToSet(s))
  BY DEF Surjection, Arr!ToSet
<1>2. IsFiniteSet(1..Len(s))
  BY FS_Interval
<1> QED
  BY <1>1, <1>2, FS_Surjection, ElementOfSeq DEF Arr!ToSet

(* Array and StringList use the same orders.                               *)
LEMMA SameToSet ==
  /\ \A s : Arr!List!ToSet(s) = Arr!ToSet(s)
  /\ \A S : Arr!List!Ascending(S) = Arr!Ascending(S)
  /\ \A s : Arr!List!Arrangements(s) = Arr!Arrangements(s)
<1>1. \A s : Arr!List!ToSet(s) = Arr!ToSet(s)
  BY DEF Arr!List!ToSet, Arr!ToSet
<1>2. \A S : Arr!List!Ascending(S) = Arr!Ascending(S)
  BY SameCardinality DEF Arr!List!Ascending, Arr!Ascending, Arr!List!SetToSeqs, Arr!SetToSeqs
<1>3. \A s : Arr!List!Arrangements(s) = Arr!Arrangements(s)
  BY DEF Arr!List!Arrangements, Arr!Arrangements, Arr!List!Bijection, Arr!Bijection,
         Arr!List!Injection, Arr!Injection, Arr!List!Surjection, Arr!Surjection,
         Arr!List!IsInjective, Arr!IsInjective
<1> QED
  BY <1>1, <1>2, <1>3

(* A list in another order.                                                *)
LEMMA ArrangedSeq ==
  ASSUME NEW S, NEW v \in Seq(S), NEW s \in Arr!Arrangements(v)
  PROVE  s \in Seq(S)
<1>1. PICK p \in Arr!Bijection(DOMAIN v, DOMAIN v) : s = [i \in DOMAIN v |-> v[p[i]]]
  BY DEF Arr!Arrangements
<1>2. p \in [DOMAIN v -> DOMAIN v]
  BY DEF Arr!Bijection, Arr!Injection
<1>3. DOMAIN v = 1..Len(v) /\ Len(v) \in Nat /\ \A i \in 1..Len(v) : v[i] \in S
  BY ElementOfSeq
<1>4. s \in [1..Len(v) -> S]
  BY <1>1, <1>2, <1>3
<1> QED
  BY <1>3, <1>4

(* What is read of the array.                                              *)
LEMMA ReadValues ==
  ASSUME ArrayInv
  PROVE  Arr!Values \in Seq(Texts) /\ Arr!List!Reads = Arr!Values
<1> DEFINE seen == Seen(array)
<1>1. /\ Owns(array) /\ EmptyString \in Texts /\ array.num \in Nat
  BY DEF ArrayInv, Owns, ArrayType
<1>2. /\ seen \in Seq(Seens) /\ Len(seen) = array.num /\ DOMAIN seen = 1..array.num
      /\ \A i \in 1..array.num : seen[i] = At(array, i)
  <2>1. /\ seen \in Seq(Seens) /\ Len(seen) = array.num
        /\ \A i \in 1..array.num : seen[i] = At(array, i)
    BY <1>1, SeenSeq
  <2> HIDE DEF seen
  <2> QED
    BY <2>1
<1>3. \A i \in 1..array.num : seen[i] \in Seens /\ (seen[i] = NULL <=> array.rows[i] = NULL)
  <2> SUFFICES ASSUME NEW i \in 1..array.num
               PROVE  seen[i] \in Seens /\ (seen[i] = NULL <=> array.rows[i] = NULL)
    OBVIOUS
  <2>1. seen[i] = NULL <=> array.rows[i] = NULL
    BY <1>1, HasString
  <2> HIDE DEF seen
  <2>2. seen[i] \in Seens
    BY <1>2, ElementOfSeq
  <2> QED
    BY <2>1, <2>2
<1> DEFINE value(i) == IF seen[i] = NULL THEN EmptyString ELSE seen[i]
<1>4. \A i \in 1..array.num : Arr!get(i - 1) = value(i) /\ value(i) \in Texts
  <2> SUFFICES ASSUME NEW i \in 1..array.num PROVE Arr!get(i - 1) = value(i) /\ value(i) \in Texts
    OBVIOUS
  <2>1. (i - 1) + 1 = i
    BY <1>1
  <2>2. Arr!get(i - 1) = IF array.rows[i] = NULL THEN EmptyString ELSE array.text[array.rows[i]]
    BY <2>1 DEF Arr!get
  <2>3. seen[i] = IF array.rows[i] = NULL THEN NULL ELSE array.text[array.rows[i]]
    BY <1>2 DEF At
  <2> HIDE DEF seen
  <2> QED
    BY <1>1, <1>3, <2>2, <2>3 DEF Seens
<1>5. Arr!Values = [i \in 1..array.num |-> value(i)]
  <2> HIDE DEF value
  <2> QED
    BY <1>4 DEF Arr!Values
<1>6. Arr!List!Reads = [i \in 1..array.num |-> value(i)]
  BY <1>2, ListSeen DEF Arr!List!Reads, Arr!List!Read
<1> HIDE DEF value
<1> QED
  BY <1>1, <1>4, <1>5, <1>6

(* The array emptied and filled with texts.                                *)
LEMMA TextsRefine ==
  ASSUME ArrayInv, NEW s \in Seq(Texts), Arr!Becomes(Arr!SetAll(Arr!Cleared(array), 0, s))
  PROVE  ArrayInv' /\ Arr!List!Becomes(Arr!List!Elements(s))
<1>1. Owns(Arr!Cleared(array)) /\ Arr!Cleared(array).num = 0 /\ EmptyString \in Texts
  BY NoElements DEF ArrayInv
<1>2. s \in Seq(Seens) /\ Arr!List!Trimmed(s) = s
  BY TextsSeq
<1>3. ArrayInv' /\ Arr!List!Becomes(Arr!List!Elements(Arr!List!Trimmed(s)))
  BY <1>1, <1>2, RefillRefines
<1> QED
  BY <1>2, <1>3

(* Texts behind the elements.                                              *)
LEMMA AppendRefines ==
  ASSUME ArrayInv, NEW s \in Seq(Texts), Arr!Becomes(Arr!SetAll(array, array.num, s))
  PROVE  ArrayInv' /\ Arr!List!append(s)
<1>1. Owns(array) /\ EmptyString \in Texts
  BY DEF ArrayInv
<1>2. s \in Seq(Seens) /\ Arr!List!Trimmed(s) = s
  BY TextsSeq
<1>3. ArrayInv' /\ Arr!List!Becomes(Seen(array) \o Arr!List!Elements(Arr!List!Trimmed(s)))
  BY <1>1, <1>2, SetAllRefines
<1> QED
  BY <1>2, <1>3, ListSeen DEF Arr!List!append

(* An array of two texts.                                                  *)
LEMMA FromArgsRefines ==
  ASSUME ArrayInv, NEW u \in Texts, NEW v \in Texts, Arr!fromArgs(<<u, v>>)
  PROVE  /\ ArrayInv'
         /\ \E n \in 0..2 : \E s \in [1..n -> Texts] : Arr!List!fromArgs(s)
<1> DEFINE s == <<u, v>>
<1>1. s \in Seq(Texts) /\ s \in [1..2 -> Texts] /\ 2 \in 0..2
  OBVIOUS
<1>2. Arr!Becomes(Arr!SetAll(Arr!Cleared(array), 0, s))
  BY DEF Arr!fromArgs
<1> HIDE DEF s
<1>3. ArrayInv' /\ Arr!List!fromArgs(s)
  BY <1>1, <1>2, TextsRefine DEF Arr!List!fromArgs
<1> QED
  BY <1>1, <1>3

(* The pieces of a text, appended.                                         *)
LEMMA ExplodeRefines ==
  ASSUME ArrayInv, NEW u \in Texts, NEW v \in Texts, NEW limit \in 0..1, NEW skip,
         Arr!explode(<<u, v>>, limit, skip)
  PROVE  /\ ArrayInv'
         /\ \E n \in 0..2 : \E s \in [1..n -> Texts] : Arr!List!append(s)
<1> DEFINE pieces == <<u, v>>
           S == {i \in DOMAIN pieces : skip => pieces[i] # 0}
<1>1. PICK taken \in Arr!Ascending(S) :
        LET n == IF limit = 0 \/ Len(taken) <= limit THEN Len(taken) ELSE limit IN
        Arr!Becomes(Arr!SetAll(array, array.num, [i \in 1..n |-> pieces[taken[i]]]))
  BY DEF Arr!explode
<1>2. S \subseteq 1..2 /\ \A i \in 1..2 : pieces[i] \in Texts
  OBVIOUS
<1> HIDE DEF S, pieces
<1>3. IsFiniteSet(S) /\ Cardinality(S) \in 0..2
  <2>1. IsFiniteSet(1..2) /\ Cardinality(1..2) = 2
    <3>1. 1 \in Int /\ 2 \in Int /\ ~ (1 > 2) /\ 2 - 1 + 1 = 2
      OBVIOUS
    <3> QED
      BY <3>1, FS_Interval, Zenon
  <2>2. IsFiniteSet(S) /\ Cardinality(S) <= 2
    BY <1>2, <2>1, FS_Subset
  <2> QED
    BY <2>2, FS_CardinalityType
<1>4. taken \in Seq(S) /\ Len(taken) = Cardinality(S)
  BY <1>3, AscendingSeq
<1>5. PICK n : n = IF limit = 0 \/ Len(taken) <= limit THEN Len(taken) ELSE limit
  OBVIOUS
<1>6. n \in 0..2 /\ n <= Len(taken) /\ Len(taken) \in Nat
  BY <1>3, <1>4, <1>5
<1> DEFINE s == [i \in 1..n |-> pieces[taken[i]]]
<1>7. s \in [1..n -> Texts]
  <2> SUFFICES ASSUME NEW i \in 1..n PROVE pieces[taken[i]] \in Texts
    OBVIOUS
  <2>1. i \in 1..Len(taken)
    BY <1>6
  <2>2. taken[i] \in S
    BY <1>4, <2>1, ElementOfSeq
  <2> QED
    BY <1>2, <2>2
<1>8. Arr!Becomes(Arr!SetAll(array, array.num, s))
  BY <1>1, <1>5
<1> HIDE DEF s
<1>9. s \in Seq(Texts)
  BY <1>6, <1>7
<1>10. ArrayInv' /\ Arr!List!append(s)
  BY <1>8, <1>9, AppendRefines
<1> QED
  BY <1>6, <1>7, <1>10

(* The sorts: the array is filled with its values in another order.        *)
LEMMA SortRefines ==
  ASSUME ArrayInv, Arr!sort \/ Arr!sortReverse \/ Arr!sortUnique
  PROVE  ArrayInv' /\ (Arr!List!sort \/ Arr!List!sortReverse \/ Arr!List!sortUnique)
<1>1. Arr!Values \in Seq(Texts) /\ Arr!List!Reads = Arr!Values
  BY ReadValues
<1> DEFINE Fills(s) == Arr!Becomes(Arr!SetAll(Arr!Cleared(array), 0, s))
<1>2. ASSUME NEW s \in Seq(Texts), Fills(s)
      PROVE  ArrayInv' /\ Arr!List!Becomes(Arr!List!Elements(s))
  BY <1>2, TextsRefine
<1>3. CASE Arr!sort
  <2>1. PICK s \in Arr!Arrangements(Arr!Values) :
          (\A i \in 2..Len(s) : s[i - 1] <= s[i]) /\ Fills(s)
    BY <1>3 DEF Arr!sort
  <2>2. s \in Seq(Texts)
    BY <1>1, ArrangedSeq
  <2> HIDE DEF Fills
  <2>3. ArrayInv' /\ Arr!List!Becomes(Arr!List!Elements(s))
    BY <1>2, <2>1, <2>2
  <2>4. s \in Arr!List!Arrangements(Arr!List!Reads)
    BY <1>1, SameToSet
  <2> QED
    BY <2>1, <2>3, <2>4 DEF Arr!List!sort
<1>4. CASE Arr!sortReverse
  <2>1. PICK s \in Arr!Arrangements(Arr!Values) :
          (\A i \in 2..Len(s) : s[i - 1] >= s[i]) /\ Fills(s)
    BY <1>4 DEF Arr!sortReverse
  <2>2. s \in Seq(Texts)
    BY <1>1, ArrangedSeq
  <2> HIDE DEF Fills
  <2>3. ArrayInv' /\ Arr!List!Becomes(Arr!List!Elements(s))
    BY <1>2, <2>1, <2>2
  <2>4. s \in Arr!List!Arrangements(Arr!List!Reads)
    BY <1>1, SameToSet
  <2> QED
    BY <2>1, <2>3, <2>4 DEF Arr!List!sortReverse
<1>5. CASE Arr!sortUnique
  <2>1. PICK s \in Arr!Ascending(Arr!ToSet(Arr!Values)) : Fills(s)
    BY <1>5 DEF Arr!sortUnique
  <2>2. s \in Seq(Texts)
    <3>1. IsFiniteSet(Arr!ToSet(Arr!Values)) /\ Arr!ToSet(Arr!Values) \subseteq Texts
      BY <1>1, FiniteToSet
    <3>2. s \in Seq(Arr!ToSet(Arr!Values))
      BY <3>1, AscendingSeq
    <3> QED
      BY <3>1, <3>2, SeqMonotonic
  <2> HIDE DEF Fills
  <2>3. ArrayInv' /\ Arr!List!Becomes(Arr!List!Elements(s))
    BY <1>2, <2>1, <2>2
  <2>4. s \in Arr!List!Ascending(Arr!List!ToSet(Arr!List!Reads))
    BY <1>1, SameToSet
  <2> QED
    BY <2>1, <2>3, <2>4 DEF Arr!List!sortUnique
<1> QED
  BY <1>3, <1>4, <1>5

(* makeUnique leaves no element.                                           *)
LEMMA MakeUniqueRefines ==
  ASSUME ArrayInv, Arr!makeUnique
  PROVE  /\ ArrayInv'
         /\ Arr!List!makeUniqueEmpties \/ Arr!List!vars' = Arr!List!vars
<1>1. Owns(array) /\ EmptyString \in Texts
  BY DEF ArrayInv
<1>2. PICK c : Owns(c) /\ c.num = 0 /\ Arr!Becomes(c)
  BY <1>1, AllErased
<1>3. ArrayInv' /\ Arr!List!Becomes(Seen(c))
  BY <1>1, <1>2, ArrayBecomes
<1>4. Seen(c) = <<>>
  BY <1>2, SeenSeq
<1>5. CASE Seen(array) = <<>>
  BY <1>3, <1>4, <1>5, ListSeen DEF Arr!List!Becomes, Arr!List!vars
<1>6. CASE Seen(array) # <<>>
  BY <1>3, <1>4, <1>6, ListSeen DEF Arr!List!makeUniqueEmpties
<1> QED
  BY <1>3, <1>5, <1>6

(* What the list allows.                                                   *)
Admitted == Arr!List!Next \/ Arr!List!Divergence

(* A call at an index.                                                     *)
LEMMA IndexStep ==
  ASSUME ArrayInv, undefined = NULL, NEW index \in 0..MaxLen,
         \/ \E v \in Texts : Arr!set(index, v) \/ Arr!insert(index, v) \/ Arr!assign(index, v)
         \/ \E other \in Others : Arr!insertArray(index, other)
         \/ Arr!erase(index)
  PROVE  ArrayInv' /\ Admitted
<1>1. MaxLen \in Nat /\ index \in Nat /\ index <= MaxLen
  BY ArrayAssumption
<1>2. CASE \E v \in Texts : Arr!set(index, v) \/ Arr!insert(index, v) \/ Arr!assign(index, v)
  <2>1. PICK v \in Texts : Arr!set(index, v) \/ Arr!insert(index, v) \/ Arr!assign(index, v)
    BY <1>2
  <2>2. /\ ArrayInv'
        /\ \/ Arr!List!set(index, v) \/ Arr!List!insert(index, v) \/ Arr!List!assign(index, v)
           \/ Arr!List!assignShared(index, v) \/ Arr!List!Undefined
    BY <1>1, <2>1, SetRefines, InsertRefines, AssignRefines, Zenon
  <2> QED
    BY <2>2, Zenon DEF Admitted, Arr!List!Next, Arr!List!Divergence
<1>3. CASE \E other \in Others : Arr!insertArray(index, other)
  <2>1. PICK other \in Others : Arr!insertArray(index, other)
    BY <1>3
  <2>2. ArrayInv' /\ (Arr!List!insertArray(index, other) \/ Arr!List!Undefined)
    BY <1>1, <2>1, InsertArrayRefines, Zenon
  <2> QED
    BY <2>1, <2>2, Zenon DEF Admitted, Arr!List!Next, Arr!List!Divergence
<1>4. CASE Arr!erase(index)
  <2>1. index < array.num /\ Arr!Becomes(Arr!EraseAt(array, index))
    BY <1>4 DEF Arr!erase
  <2>2. ArrayInv' /\ Arr!List!erase(index)
    BY <1>1, <2>1, EraseRefines
  <2> QED
    BY <2>2, Zenon DEF Admitted, Arr!List!Next, Arr!List!Divergence
<1> QED
  BY <1>2, <1>3, <1>4

(* shift erases the first element.                                         *)
LEMMA ShiftRefines ==
  ASSUME ArrayInv, Arr!shift
  PROVE  ArrayInv' /\ \E index \in 0..MaxLen : Arr!List!erase(index)
<1>1. array.num \in Nat
  BY DEF ArrayInv, Owns, ArrayType
<1>2. 0 \in 0..MaxLen /\ 0 \in Nat
  BY ArrayAssumption
<1>3. 0 < array.num /\ Arr!Becomes(Arr!EraseAt(array, 0))
  BY <1>1 DEF Arr!shift
<1>4. ArrayInv' /\ Arr!List!erase(0)
  BY <1>2, <1>3, EraseRefines
<1> QED
  BY <1>2, <1>4

(* A call of the array is a step of the list, or changes nothing there.    *)
LEMMA ArrayStep ==
  ASSUME ArrayInv, Arr!Next
  PROVE  ArrayInv' /\ (Admitted \/ Arr!List!vars' = Arr!List!vars)
<1>1. undefined = NULL
  BY DEF Arr!Next
<1>2. CASE \E index \in 0..MaxLen :
             \/ \E v \in Texts : Arr!set(index, v) \/ Arr!insert(index, v) \/ Arr!assign(index, v)
             \/ \E other \in Others : Arr!insertArray(index, other)
             \/ Arr!erase(index)
  BY <1>1, <1>2, IndexStep
<1>3. CASE \E other \in Others : Arr!copy(other) \/ Arr!add(other)
  <2>1. PICK other \in Others : Arr!copy(other) \/ Arr!add(other)
    BY <1>3
  <2>2. /\ ArrayInv'
        /\ \/ Arr!List!copy(other) \/ Arr!List!add(other)
           \/ Arr!List!copyTrimmed(other) \/ Arr!List!addTrimmed(other)
    BY <2>1, CopyRefines, AddRefines, Zenon
  <2> QED
    BY <1>1, <2>2, Zenon DEF Admitted, Arr!List!Next, Arr!List!Divergence
<1>4. CASE \E u, v \in Texts :
             \/ Arr!fromArgs(<<u, v>>)
             \/ \E limit \in 0..1, skip \in BOOLEAN : Arr!explode(<<u, v>>, limit, skip)
  <2>1. PICK u \in Texts, v \in Texts :
             \/ Arr!fromArgs(<<u, v>>)
             \/ \E limit \in 0..1, skip \in BOOLEAN : Arr!explode(<<u, v>>, limit, skip)
    BY <1>4
  <2>2. /\ ArrayInv'
        /\ \E n \in 0..2 : \E s \in [1..n -> Texts] : Arr!List!append(s) \/ Arr!List!fromArgs(s)
    BY <2>1, FromArgsRefines, ExplodeRefines, Zenon
  <2> QED
    BY <1>1, <2>2, Zenon DEF Admitted, Arr!List!Next, Arr!List!Divergence
<1>5. CASE Arr!clear \/ Arr!copySelf
  <2>1. ArrayInv' /\ Arr!List!clear
    BY <1>5, ClearRefines
  <2> QED
    BY <1>1, <2>1, Zenon DEF Admitted, Arr!List!Next, Arr!List!Divergence
<1>6. CASE Arr!addSelf
  <2>1. /\ ArrayInv'
        /\ \/ Arr!List!Undefined
           \/ [i \in 1..array.num |-> Arr!Content(i)]' = [i \in 1..array.num |-> Arr!Content(i)]
              /\ EmptyString' = EmptyString /\ undefined' = undefined
    BY <1>6, AddSelfRefines
  <2> QED
    BY <1>1, <2>1 DEF Admitted, Arr!List!Divergence, Arr!List!vars
<1>7. CASE Arr!shift
  <2>1. ArrayInv' /\ \E index \in 0..MaxLen : Arr!List!erase(index)
    BY <1>7, ShiftRefines
  <2> QED
    BY <1>1, <2>1, Zenon DEF Admitted, Arr!List!Next, Arr!List!Divergence
<1>8. CASE Arr!pop
  <2>1. ArrayInv' /\ (Arr!List!pop \/ Arr!List!Undefined)
    BY <1>8, PopRefines
  <2> QED
    BY <1>1, <2>1, Zenon DEF Admitted, Arr!List!Next, Arr!List!Divergence
<1>9. CASE Arr!sort \/ Arr!sortReverse \/ Arr!sortUnique
  <2>1. ArrayInv' /\ (Arr!List!sort \/ Arr!List!sortReverse \/ Arr!List!sortUnique)
    BY <1>9, SortRefines
  <2> QED
    BY <1>1, <2>1, Zenon DEF Admitted, Arr!List!Next, Arr!List!Divergence
<1>10. CASE Arr!makeUnique
  <2>1. ArrayInv' /\ (Arr!List!makeUniqueEmpties \/ Arr!List!vars' = Arr!List!vars)
    BY <1>10, MakeUniqueRefines
  <2> QED
    BY <1>1, <2>1, Zenon DEF Admitted, Arr!List!Next, Arr!List!Divergence
<1>11. CASE \E v \in Texts : Arr!has(v)
  <2>1. ArrayInv' /\ Arr!List!Undefined
    BY <1>11, HasRefines
  <2> QED
    BY <1>1, <2>1, Zenon DEF Admitted, Arr!List!Next, Arr!List!Divergence
<1> QED
  BY <1>2, <1>3, <1>4, <1>5, <1>6, <1>7, <1>8, <1>9, <1>10, <1>11, Zenon DEF Arr!Next

(* Each call is what the list allows for it, or changes nothing there.     *)
LEMMA CallsMatch ==
  ASSUME ArrayInv, Arr!List!vars' # Arr!List!vars
  PROVE  Arr!Calls
<1>1. ASSUME NEW index \in 0..MaxLen, NEW v \in Texts, Arr!assign(index, v)
      PROVE  Arr!List!assign(index, v) \/ Arr!List!assignShared(index, v)
  <2>1. index \in Nat
    BY ArrayAssumption
  <2> QED
    BY <1>1, <2>1, AssignRefines
<1>2. ASSUME NEW other \in Others
      PROVE  /\ Arr!copy(other) => Arr!List!copy(other) \/ Arr!List!copyTrimmed(other)
             /\ Arr!add(other) => Arr!List!add(other) \/ Arr!List!addTrimmed(other)
  BY CopyRefines, AddRefines
<1>3. Arr!copySelf => Arr!List!copySelfEmpties
  BY ClearRefines
<1>4. Arr!addSelf => Arr!List!Undefined
  BY AddSelfRefines DEF Arr!List!vars
<1>5. Arr!pop => Arr!List!pop \/ Arr!List!Undefined
  BY PopRefines
<1>6. Arr!makeUnique => Arr!List!makeUnique \/ Arr!List!makeUniqueEmpties
  BY MakeUniqueRefines
<1> QED
  BY <1>1, <1>2, <1>3, <1>4, <1>5, <1>6 DEF Arr!Calls

(* And so is none.                                                         *)
LEMMA ArrayStutter ==
  ASSUME ArrayInv, UNCHANGED arrays
  PROVE  ArrayInv' /\ Arr!List!vars' = Arr!List!vars
<1>1. array' = array /\ EmptyString' = EmptyString /\ undefined' = undefined
  BY DEF arrays
<1> QED
  BY <1>1, ListSeen DEF ArrayInv, Arr!List!vars

(* The array without elements.                                             *)
LEMMA ArrayInit ==
  ASSUME Arr!Init
  PROVE  ArrayInv /\ Arr!List!Init
<1>1. /\ array = [rows |-> <<>>, num |-> 0, text |-> [s \in Strings |-> Freed]]
      /\ EmptyString = 0 /\ undefined = NULL
  BY DEF Arr!Init
<1>2. array.rows = <<>> /\ array.num = 0 /\ array.text = [s \in Strings |-> Freed]
  BY <1>1
<1>3. array \in ArrayType
  BY <1>1 DEF ArrayType
<1>4. Owns(array)
  <2>1. Len(array.rows) = 0
    BY <1>2
  <2>2. \A i \in 1..Len(array.rows) : FALSE
    BY <2>1
  <2>3. \A s \in Strings : array.text[s] = Freed
    BY <1>2
  <2>4. array.num <= Len(array.rows)
    BY <1>2, <2>1
  <2> QED
    BY <1>3, <2>2, <2>3, <2>4, Zenon DEF Owns
<1>5. Seen(array) = <<>>
  BY <1>2, <1>4, SeenSeq
<1>6. EmptyString \in Texts
  BY <1>1, ArrayAssumption
<1> QED
  BY <1>1, <1>4, <1>5, <1>6, ListSeen DEF ArrayInv, Arr!List!Init

(* No String of an array has two rows, is lost or is deleted while a row   *)
(* has it, and no row behind the elements has one, whatever calls are made *)
(* and however the array grows. The inductive invariant, ArrayInv, adds the*)
(* types, and that there is a row for every element.                       *)
THEOREM ArrayOwnsItsStrings == ArraySpec => []ArrayOwnsStrings
<1>1. Arr!Init => ArrayInv
  BY ArrayInit
<1>2. ArrayInv /\ [Arr!Next]_arrays => ArrayInv'
  BY ArrayStep, ArrayStutter
<1>3. ArrayInv => ArrayOwnsStrings
  <2> SUFFICES ASSUME ArrayInv PROVE ArrayOwnsStrings
    OBVIOUS
  <2>1. Owns(array) /\ array.rows \in Seq(Rows)
    BY DEF ArrayInv, Owns, ArrayType
  <2>2. DOMAIN array.rows = 1..Len(array.rows)
    BY <2>1
  <2>3. Arr!ToSet(array.rows) = {array.rows[i] : i \in 1..Len(array.rows)}
    BY <2>2 DEF Arr!ToSet
  <2>4. \A s \in Strings : array.text[s] # Freed => s \in Arr!ToSet(array.rows)
    BY <2>1, <2>3, Zenon DEF Owns
  <2>5. \A i \in DOMAIN array.rows : array.rows[i] # NULL =>
          /\ i <= array.num /\ array.text[array.rows[i]] # Freed
          /\ \A j \in DOMAIN array.rows : array.rows[j] = array.rows[i] => j = i
    BY <2>1, <2>2, Zenon DEF Owns
  <2> QED
    BY <2>4, <2>5, Zenon DEF ArrayOwnsStrings, Arr!OwnsStrings
<1> QED
  BY <1>1, <1>2, <1>3, PTL DEF ArraySpec

(* An array is the list that StringList describes: what the application    *)
(* sees of its rows is what is documented of the same calls, through every *)
(* growth and every move of the pointers, or one of the divergences that   *)
(* StringList names, and that only for the calls they are of.              *)
THEOREM ArrayIsStringList == ArraySpec => ImplementsList
<1>1. Arr!Init => ArrayInv /\ Arr!List!Init
  BY ArrayInit
<1>2. ArrayInv /\ [Arr!Next]_arrays
        => ArrayInv' /\ [Admitted /\ Arr!Calls]_(Arr!List!vars)
  <2>1. CASE ArrayInv /\ Arr!Next
    <3>1. ArrayInv' /\ (Admitted \/ Arr!List!vars' = Arr!List!vars)
      BY <2>1, ArrayStep
    <3> QED
      BY <2>1, <3>1, CallsMatch
  <2>2. CASE ArrayInv /\ UNCHANGED arrays
    BY <2>2, ArrayStutter
  <2> QED
    BY <2>1, <2>2
<1>3. [Admitted /\ Arr!Calls]_(Arr!List!vars)
        => [Arr!vars' # Arr!vars
              => (Arr!List!Next \/ Arr!List!Divergence) /\ Arr!Calls]_(Arr!List!vars)
  BY DEF Admitted
<1> QED
  BY <1>1, <1>2, <1>3, PTL DEF ArraySpec, ImplementsList, Arr!ImplementsList

=============================================================================
