----------------------------- MODULE StringList -----------------------------
(***************************************************************************)
(* What ppl7::Array is to its application: a list of strings that grows    *)
(* as needed.  An element that was never given text has no string (NULL)   *)
(* and is read as an empty one.  Nothing is said of capacity, rows and     *)
(* String objects.  Next is what the comments in Array.cpp promise of each *)
(* call; what the code does against them is Divergence.                    *)
(***************************************************************************)
EXTENDS Naturals, Sequences, FiniteSets, SequencesExt, FiniteSetsExt

CONSTANTS
  Texts,    (* the strings, as numbers in their order; 0 is the empty one  *)
  NULL,
  MaxLen,   (* bound: of a list                                            *)
  Others    (* bound: the other lists in use                               *)

VARIABLES
  list,
  shared,   (* the text all elements without a string are read as          *)
  undefined (* the call that was made against Undefined, or NULL           *)

vars == <<list, shared, undefined>>

Init == list = <<>> /\ shared = 0 /\ undefined = NULL

Element(v) == IF v \in {0, NULL} THEN NULL ELSE v
Elements(s) == [i \in DOMAIN s |-> Element(s[i])]
Read(e) == IF e = NULL THEN shared ELSE e
Holes(n) == [i \in 1..n |-> NULL]

(* The elements of a set of numbers in their order, as the one member, and *)
(* the orders of a list.                                                   *)
Ascending(S) == {s \in SetToSeqs(S) : \A i \in 2..Len(s) : s[i - 1] < s[i]}

Arrangements(s) ==
  {[i \in DOMAIN s |-> s[p[i]]] : p \in Bijection(DOMAIN s, DOMAIN s)}

Becomes(s) == list' = s /\ UNCHANGED <<shared, undefined>>

(* At an index (from 0) beyond the end the list grows.                     *)
set(index, v) ==
  Becomes(IF index < Len(list) THEN [list EXCEPT ![index + 1] = Element(v)]
          ELSE list \o Holes(index - Len(list)) \o <<Element(v)>>)

clear == Becomes(<<>>)

(* Another list is taken over as it is (copied 1:1, Array.cpp 108).        *)
copy(s) == Becomes(Elements(s))
add(s) == Becomes(list \o Elements(s))

insert(index, v) ==
  index < Len(list) /\ Becomes(InsertAt(list, index + 1, Element(v)))

insertArray(index, s) ==
  Becomes(IF index <= Len(list)
          THEN SubSeq(list, 1, index) \o s \o SubSeq(list, index + 1, Len(list))
          ELSE list \o Holes(index - Len(list)) \o s)

erase(index) == index < Len(list) /\ Becomes(RemoveAt(list, index + 1))

pop == list # <<>> /\ Becomes(Front(list))

(* Texts are appended, the empty ones too.                                 *)
append(s) == Becomes(list \o Elements(s))
fromArgs(s) == Becomes(Elements(s))

Reads == [i \in DOMAIN list |-> Read(list[i])]

sort ==
  \E s \in Arrangements(Reads) :
    (\A i \in 2..Len(s) : s[i - 1] <= s[i]) /\ Becomes(Elements(s))

sortReverse ==
  \E s \in Arrangements(Reads) :
    (\A i \in 2..Len(s) : s[i - 1] >= s[i]) /\ Becomes(Elements(s))

sortUnique == \E s \in Ascending(ToSet(Reads)) : Becomes(Elements(s))

(* Of equal elements the first stays, in its place among the others        *)
(* (Array.cpp 1228, tests/src/core/array.cpp 646-655).                     *)
makeUnique ==
  \E first \in Ascending({i \in DOMAIN list : \A j \in 1..i - 1 : Reads[j] # Reads[i]}) :
    Becomes([n \in DOMAIN first |-> list[first[n]]])

(* An assignment to get(index).                                            *)
assign(index, v) == index < Len(list) /\ Becomes([list EXCEPT ![index + 1] = v])

Next ==
  /\ undefined = NULL
  /\ \/ \E index \in 0..MaxLen :
          \/ \E v \in Texts : set(index, v) \/ insert(index, v) \/ assign(index, v)
          \/ \E s \in Others : insertArray(index, s)
          \/ erase(index)
     \/ \E s \in Others : copy(s) \/ add(s)
     \/ \E n \in 0..2 : \E s \in [1..n -> Texts] : append(s) \/ fromArgs(s)
     \/ clear \/ pop
     \/ sort \/ sortReverse \/ sortUnique \/ makeUnique

Spec == Init /\ [][Next]_vars

-----------------------------------------------------------------------------
(* Where the code does something else.                                     *)

(* Of another list with no string at its end come the elements up to its   *)
(* last string only (Array.cpp 185-192, 202-209; against 108, 180, 198).   *)
Trimmed(s) == SubSeq(s, 1, Max({0} \cup {i \in DOMAIN s : s[i] # NULL}))
EndsEmpty(s) == s # <<>> /\ Last(s) = NULL
copyTrimmed(s) == EndsEmpty(s) /\ Becomes(Elements(Trimmed(s)))
addTrimmed(s) == EndsEmpty(s) /\ Becomes(list \o Elements(Trimmed(s)))

(* A list copied to itself is empty: it is cleared first (187).            *)
copySelfEmpties == list # <<>> /\ Becomes(<<>>)

(* makeUnique erases every element, as what is not in the set of values    *)
(* seen is erased and nothing is put in (Array.cpp 1237-1246).             *)
makeUniqueEmpties == list # <<>> /\ Becomes(<<>>)

(* An assignment to an element without a string is one to the string all   *)
(* such elements of all arrays share (Array.cpp 595-605; against 588).     *)
assignShared(index, v) ==
  /\ index < Len(list) /\ list[index + 1] = NULL
  /\ shared' = v /\ UNCHANGED <<list, undefined>>

(* C++ leaves open what happens: an insertion before the end reads rows    *)
(* that have moved (341-347), one of a list three or more elements beyond  *)
(* the end writes behind them (385-387), pop of a string reads behind the  *)
(* last one (872; against 863), a list added to itself reads rows that have*)
(* moved (204-208), a search reads an element without a string (1255, 1265).*)
Undefined ==
  /\ \/ undefined' = "insert" /\ list # <<>>
     \/ undefined' = "insertArray" /\ Len(list) + 3 <= MaxLen
     \/ undefined' = "pop" /\ list # <<>> /\ Last(list) # NULL
     \/ undefined' = "add" /\ \E i \in DOMAIN list : list[i] # NULL
     \/ undefined' = "has" /\ \E i \in DOMAIN list : list[i] = NULL
  /\ UNCHANGED <<list, shared>>

Divergence ==
  /\ undefined = NULL
  /\ \/ \E s \in Others : copyTrimmed(s) \/ addTrimmed(s)
     \/ \E index \in 0..MaxLen, v \in Texts : assignShared(index, v)
     \/ copySelfEmpties \/ makeUniqueEmpties
     \/ Undefined

=============================================================================
