------------------------------ MODULE KeyTree ------------------------------
(***************************************************************************)
(* What a ppl7::AssocArray is to its application: texts and arrays, each   *)
(* at its path of keys.  The key "[]" stands for a new number, one that is *)
(* larger than those that are there.  It does not in two cases: after a    *)
(* negative number (Disordered) and after the largest one (Exhausted).     *)
(***************************************************************************)
EXTENDS Integers, Sequences, SequencesExt, FiniteSetsExt

CONSTANTS
  Paths, Texts, Others, NewKey, ArrayNode, TextNode(_),
  Largest   (* number a key can have                                       *)

VARIABLES
  tree,     (* what is at which path                                       *)
  behind    (* the paths of the arrays that count from a number below      *)

vars == <<tree, behind>>

Init == tree = <<>> /\ behind = {}

IsNumber(key) == key[1] = "number"
Value(key) == key[2]

(* Numbering gets into disorder only where there is a negative key.        *)
Behind ==
  behind' \subseteq behind \cup
    {Front(q) : q \in {q \in DOMAIN tree' : IsNumber(Last(q)) /\ Value(Last(q)) < 0}}

(* The numbers p has for a new key, that of q at i.                        *)
IsNew(q, i) ==
  \A r \in DOMAIN tree :
    Front(r) = SubSeq(q, 1, i - 1) /\ IsNumber(Last(r)) => Value(Last(r)) < Value(q[i])

(* Once a number below zero, taken for one of 64 bits, has made the counter*)
(* start again (AssocArray.cpp 349-350), the number may be one that is     *)
(* there, and its element is overwritten.                                  *)
Disordered(q, i) == SubSeq(q, 1, i - 1) \in behind

(* Behind the largest number there is none: the counter goes on, but what  *)
(* it is read as is always the largest one, and each new element overwrites*)
(* the one before (343, 349, 353).                                         *)
Exhausted(q, i) == Value(q[i]) = Largest /\ SubSeq(q, 1, i) \in DOMAIN tree

Resolves(p, q) ==
  /\ Len(q) = Len(p)
  /\ \A i \in DOMAIN p :
       IF p[i] = NewKey
       THEN IsNumber(q[i]) /\ (IsNew(q, i) \/ Disordered(q, i) \/ Exhausted(q, i))
       ELSE q[i] = p[i]

(* The tree with another one, or a text, at q; what is on the way there    *)
(* becomes an array.                                                       *)
Placed(q, sub) ==
  LET way == {SubSeq(q, 1, i) : i \in 1..Len(q) - 1}
      kept == {r \in DOMAIN tree : ~IsPrefix(q, r)}
  IN  [r \in kept \cup way \cup {q \o s : s \in DOMAIN sub} |->
         CASE r \in way -> ArrayNode
           [] IsPrefix(q, r) -> sub[SubSeq(r, Len(q) + 1, Len(r))]
           [] OTHER -> tree[r]]

Below(o) == [q \in DOMAIN o \cup {<<>>} |-> IF q = <<>> THEN ArrayNode ELSE o[q]]

set(p, sub) ==
  /\ \E q \in DOMAIN tree' : Resolves(p, q) /\ tree' = Placed(q, sub)
  /\ Behind

(* Text is added to text; nothing happens to an array.                     *)
append(p, text) ==
  /\ p \in DOMAIN tree
  /\ tree' = IF tree[p] = ArrayNode THEN tree
             ELSE [tree EXCEPT ![p] = TextNode(@[2] \o text)]
  /\ Behind

erase(p) ==
  /\ tree' = [q \in {q \in DOMAIN tree : ~IsPrefix(p, q)} |-> tree[q]]
  /\ Behind

clear == tree' = <<>> /\ Behind

Over(o, kept) ==
  [q \in DOMAIN o \cup kept |-> IF q \in DOMAIN o THEN o[q] ELSE tree[q]]

(* Arrays that are in both are merged, all else is replaced.               *)
add(o) ==
  LET merged(q) ==
        \A i \in DOMAIN q :
          LET r == SubSeq(q, 1, i) IN
          r \in DOMAIN o => o[r] = ArrayNode /\ tree[r] = ArrayNode
  IN  tree' = Over(o, {q \in DOMAIN tree : merged(q)}) /\ Behind

importBinary(o) ==
  tree' = Over(o, {q \in DOMAIN tree : <<q[1]>> \notin DOMAIN o}) /\ Behind

assign(o) == tree' = o /\ Behind

copy == tree' = tree /\ Behind

Next ==
  \/ \E p \in Paths :
       \/ \E t \in Texts : set(p, [r \in {<<>>} |-> TextNode(t)]) \/ append(p, t)
       \/ \E o \in Others : set(p, Below(o))
       \/ erase(p)
  \/ \E o \in Others : add(o) \/ importBinary(o) \/ assign(o)
  \/ clear \/ copy

Spec == Init /\ [][Next]_vars

=============================================================================
