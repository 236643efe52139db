------------------------------ MODULE Objects ------------------------------
(***************************************************************************)
(* Objects beside the heap that belong to one thread each and know nothing *)
(* of each other: a group of memory blocks, a file in memory and an array  *)
(* of strings.                                                             *)
(***************************************************************************)
EXTENDS MemoryHeap, Integers

CONSTANTS
  Asked,      (* the sizes that are asked of the group                     *)
  HeaderSize, (* of the header of a block                                  *)
  GroupSize,  (* sizeof(MemoryGroup)                                       *)
  Unset, Newline, Word, Page, Scratch, MaxAlloc, Data, Lengths, Offsets,
              (* those of MemFile                                          *)
  Texts, Strings, Freed, Slack, MaxLen, MaxRows, Others
              (* those of Array                                            *)

ASSUME GroupAssumption ==
  Asked \subseteq Nat /\ HeaderSize \in Nat /\ GroupSize \in Nat

Half == Word \div 2

(* There is memory for less than half of what a word can count, and what   *)
(* is written and asked for at once is less. A byte is a number.           *)
ASSUME MemFileAssumption ==
  /\ Word \in Nat /\ Page \in Nat \ {0} /\ Page <= Half
  /\ MaxAlloc \in 0..Half - 1 /\ Scratch \in Nat
  /\ Unset \in Int /\ Data \subseteq Seq(Int) /\ Offsets \subseteq -Half..Half - 1
  /\ Lengths \subseteq Nat
  /\ NULL \notin Seq(Int) /\ NULL \notin {"buffer", "memory"}
  /\ \A s \in Data : Len(s) + Page <= Half
  /\ \A n \in Lengths : 2 * n <= Half

(* For the elements of an array, if one has no String yet, there is another*)
(* one.                                                                    *)
ASSUME ArrayAssumption ==
  /\ NULL \notin Texts \cup Strings /\ Freed \notin Texts /\ 0 \in Texts
  /\ Slack \in Nat \ {0} /\ MaxLen \in Nat
  /\ Others \subseteq Seq(Texts \cup {NULL})
  /\ \A owned \in [1..MaxLen -> Strings \cup {NULL}] :
       (\E i \in 1..MaxLen : owned[i] = NULL) =>
         \E s \in Strings : \A i \in 1..MaxLen : owned[i] # s

VARIABLES
  groupList, groupSize, groupLive, order, passed, life,
  file, got, wild,
  array, EmptyString, undefined

group == <<groupList, groupSize, groupLive, order, passed, life>>
memfile == <<file, got, wild>>
arrays == <<array, EmptyString, undefined>>

Group == INSTANCE MemoryGroup WITH
  list <- groupList, size <- groupSize, live <- groupLive,
  Sizes <- Asked, mysize <- HeaderSize, Own <- GroupSize

GroupSpec == Group!Init /\ [][Group!Next]_group

(* The list and the counters of a MemoryGroup, as stated there.            *)
GroupKeepsBooks == Group!GroupKeepsBooks

Mem == INSTANCE MemFile

MemSpec == Mem!Init /\ [][Mem!Next]_memfile

(* A MemFile is the file that ByteFile describes.                          *)
ImplementsByteFile == Mem!ImplementsByteFile

Arr == INSTANCE Array

ArraySpec == Arr!Init /\ [][Arr!Next]_arrays

(* The Strings of an Array, as stated there.                               *)
ArrayOwnsStrings == Arr!OwnsStrings

(* An Array is the list of strings that StringList describes.              *)
ImplementsList == Arr!ImplementsList

=============================================================================
