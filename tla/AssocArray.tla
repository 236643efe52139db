----------------------------- MODULE AssocArray -----------------------------
(***************************************************************************)
(* ppl7::AssocArray (src/src/types/AssocArray.cpp): a tree of maps from    *)
(* keys to texts and further arrays, each with a counter for its next      *)
(* number.  The object belongs to one thread and a call is one step.  Two  *)
(* keys that compare equal are one key here, and the order of those of an  *)
(* instance is one: the map does what maps do.                             *)
(***************************************************************************)
EXTENDS Integers, Sequences, SequencesExt, FiniteSetsExt, TLC

CONSTANTS
  Word,      (* 2^64                                                       *)
  Paths,     (* bound: the arguments of the calls                          *)
  Texts, Others,
  MaxText,   (* bound: as long as a text becomes                           *)
  MaxNodes   (* bound: elements, on all levels                             *)

VARIABLE root

vars == <<root>>

NewKey == <<"[]", 0>>
Number(n) == <<"number", n>>
IsNumber(key) == key[1] = "number"

Array == [is |-> "array", text |-> <<>>, tree |-> <<>>, maxint |-> 0]
Text(t) == [is |-> "text", text |-> t, tree |-> <<>>, maxint |-> 0]

Init == root = Array

-----------------------------------------------------------------------------
(* A key that is a number has 63 bits.                                     *)
Largest == Word \div 2 - 1
NextKey(a) == Number(Min({a.maxint, Largest}))
firstkey(a, key) == IF key = NewKey THEN NextKey(a) ELSE key

(* A mistake: the key that is equal does not count.                        *)
CounterLater(a, key) ==
  LET n == firstkey(a, key)[2] % Word
      m == IF key = NewKey THEN (a.maxint + 1) % Word ELSE a.maxint
  IN  IF IsNumber(firstkey(a, key)) /\ n > m THEN (n + 1) % Word ELSE m

(* maxint when a key has been used; one below zero is a very large one.    *)
Counter(a, key) ==
  LET n == firstkey(a, key)[2] % Word
      m == IF key = NewKey THEN (a.maxint + 1) % Word ELSE a.maxint
  IN  IF IsNumber(firstkey(a, key)) /\ n >= m THEN (n + 1) % Word ELSE m

(* What is no array on the way becomes one.                                *)
RECURSIVE createTree(_, _, _)
createTree(a, path, var) ==
  LET key == firstkey(a, Head(path))
      found == key \in DOMAIN a.tree /\ a.tree[key].is = "array"
      node == IF Len(path) = 1 THEN var
              ELSE createTree(IF found THEN a.tree[key] ELSE Array, Tail(path), var)
  IN  [a EXCEPT !.tree = (key :> node) @@ @, !.maxint = Counter(a, Head(path))]

(* Numbers come before names.                                              *)
Before(k, l) ==
  IF IsNumber(k) = IsNumber(l) THEN k[2] < l[2] ELSE IsNumber(k)
Keys(a) == SetToSortSeq(DOMAIN a.tree, Before)

(* a with what is in b, and a copy of a value: an array is filled anew.    *)
RECURSIVE Add(_, _), Copy(_)
Add(a, b) ==
  LET Entry(c, key) ==
        IF key \in DOMAIN c.tree /\ c.tree[key].is = "array" /\ b.tree[key].is = "array"
        THEN [c EXCEPT !.tree = (key :> Add(c.tree[key], b.tree[key])) @@ @]
        ELSE createTree(c, <<key>>, Copy(b.tree[key]))
  IN  FoldLeft(Entry, a, Keys(b))
Copy(v) == IF v.is = "array" THEN Add(Array, v) ELSE v

(* a with what is read of the export of b: arrays are replaced.            *)
RECURSIVE Import(_, _)
Import(a, b) ==
  LET Read(v) == IF v.is = "array" THEN Copy(Import(Array, v)) ELSE v
      Entry(c, key) == createTree(c, <<key>>, Read(b.tree[key]))
  IN  FoldLeft(Entry, a, Keys(b))

RECURSIVE Find(_, _)
Find(a, path) ==
  IF Head(path) \notin DOMAIN a.tree THEN {}
  ELSE LET v == a.tree[Head(path)] IN
       IF Len(path) = 1 THEN {v}
       ELSE IF v.is = "array" THEN Find(v, Tail(path)) ELSE {}

(* What is found at the path becomes the new value, or goes: new is a set. *)
RECURSIVE Changed(_, _, _)
Changed(a, path, new) ==
  LET key == Head(path)
      rest == [k \in DOMAIN a.tree \ {key} |-> a.tree[k]]
      there == IF Len(path) = 1 THEN new ELSE {Changed(a.tree[key], Tail(path), new)}
  IN  IF Find(a, path) = {} THEN a
      ELSE [a EXCEPT !.tree = rest @@ [k \in {key : v \in there} |-> CHOOSE v \in there : TRUE]]

-----------------------------------------------------------------------------
(* What is at which path, and the arrays whose counters are behind a key.  *)
RECURSIVE Flat(_), Behind(_)
Flat(a) ==
  LET of(key) == Flat(a.tree[key])
      q == {<<key>> : key \in DOMAIN a.tree} \cup
           UNION {{<<key>> \o p : p \in DOMAIN of(key)} : key \in DOMAIN a.tree}
  IN  [p \in q |-> LET v == CHOOSE v \in Find(a, p) : TRUE IN <<v.is, v.text>>]

Behind(a) ==
  LET numbers == {key[2] : key \in {k \in DOMAIN a.tree : IsNumber(k)}}
      here == \E n \in numbers : n >= a.maxint
  IN  (IF a.is = "array" /\ here THEN {<<>>} ELSE {})
      \cup UNION {{<<key>> \o p : p \in Behind(a.tree[key])} : key \in DOMAIN a.tree}

Becomes(a) == Cardinality(DOMAIN Flat(a)) <= MaxNodes /\ root' = a

set(path, v) == Becomes(createTree(root, path, Copy(v)))

(* toString of an array throws.                                            *)
append(path, text) ==
  \/ Find(root, path) = {} /\ set(path, Text(text))
  \/ \E v \in Find(root, path) :
       /\ v.is = "text" /\ Len(v.text) < MaxText
       /\ root' = Changed(root, path, {Text(v.text \o text)})

erase(path) == root' = Changed(root, path, {})
clear == root' = Array
add(b) == Becomes(Add(root, b))
importBinary(b) == Becomes(Import(root, b))
assign(b) == Becomes(Add(Array, b))

(* The array is emptied before it is added to itself.                      *)
assignItself == root' = Array

(* A copy takes its place.                                                 *)
copy == root' = Copy(root)

Next ==
  \/ \E p \in Paths :
       \/ \E t \in Texts : set(p, Text(t)) \/ append(p, t)
       \/ \E b \in Others : set(p, b)
       \/ erase(p)
  \/ \E b \in Others : add(b) \/ importBinary(b) \/ assign(b)
  \/ clear \/ assignItself \/ copy

-----------------------------------------------------------------------------
TextNode(t) == <<"text", t>>

(* It is the tree KeyTree describes: what was set is found under its path, *)
(* through merging, copying, export and import, and a new key never takes  *)
(* the place of an element, unless the array has had a negative one, or has*)
(* the largest one there can be, which is then overwritten by every new one*)
(* from there on.                                                          *)
Tree == INSTANCE KeyTree WITH
  Others <- {Flat(b) : b \in Others},
  ArrayNode <- <<"array", <<>>>>,
  tree <- Flat(root), behind <- Behind(root)

(* What asks for a new key is not excused as a call that names a key.      *)
Calls ==
  \A p \in Paths :
    /\ \A t \in Texts :
         /\ set(p, Text(t)) => Tree!set(p, [r \in {<<>>} |-> TextNode(t)])
         /\ append(p, t) =>
              Tree!append(p, t) \/ Tree!set(p, [r \in {<<>>} |-> TextNode(t)])
    /\ \A b \in Others : set(p, b) => Tree!set(p, Tree!Below(Flat(b)))
    /\ erase(p) => Tree!erase(p)

ImplementsKeyTree ==
  Tree!Init /\ [][vars' # vars => Tree!Next /\ Calls]_(Tree!vars)

=============================================================================
