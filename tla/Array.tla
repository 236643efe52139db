------------------------------- MODULE Array -------------------------------
(***************************************************************************)
(* ppl7::Array (src/src/types/Array.cpp): rows of pointers to String       *)
(* objects.  The object belongs to one thread and a call is one step; what *)
(* is followed is which row owns which String, and where a call leaves the *)
(* rows it may use.  An index counts from 0, a row of the model from 1.    *)
(***************************************************************************)
EXTENDS Naturals, Sequences, FiniteSets, SequencesExt, FiniteSetsExt

CONSTANTS
  Texts,    (* the strings, as numbers in their order; 0 is the empty one  *)
  NULL,
  Strings,  (* addresses of String objects                                 *)
  Freed,    (* the text of a String that does not exist                    *)
  Slack,    (* rows that set gets beyond the index: 10                     *)
  MaxLen,   (* bound: the elements of an array                             *)
  MaxRows,  (* bound: its rows                                             *)
  Others    (* bound: other arrays and argument lists                      *)

VARIABLES
  array,       (* rows, numElements, and the text of every String          *)
  EmptyString, (* the text of the static String for elements without one   *)
  undefined    (* the call that left what C++ defines, or NULL             *)

vars == <<array, EmptyString, undefined>>

Init ==
  /\ array = [rows |-> <<>>, num |-> 0, text |-> [s \in Strings |-> Freed]]
  /\ EmptyString = 0
  /\ undefined = NULL

-----------------------------------------------------------------------------
(* What a call does, or a part of it, to an array a.                       *)

reserve(a, size) ==
  [a EXCEPT !.rows = @ \o [i \in 1..(IF size > Len(@) THEN size - Len(@) ELSE 0) |-> NULL]]

(* new String, in row i.                                                   *)
New(a, i, v) ==
  LET s == CHOOSE s \in Strings : a.text[s] = Freed IN
  [a EXCEPT !.rows[i] = s, !.text[s] = v]

(* A mistake: the String is forgotten.                                     *)
DeleteLeaving(a, i) == a

(* delete; the pointer stays.                                              *)
Delete(a, i) ==
  IF a.rows[i] = NULL THEN a ELSE [a EXCEPT !.text[a.rows[i]] = Freed]

(* A third of the capacity is never more than the index and Slack.         *)
setAt(a, index, v) ==
  LET i == index + 1
      b == IF index >= Len(a.rows) THEN reserve(a, index + Slack) ELSE a
      c == [b EXCEPT !.num = Max({@, i})]
  IN  IF v = 0 THEN [Delete(c, i) EXCEPT !.rows[i] = NULL]
      ELSE IF c.rows[i] = NULL THEN New(c, i, v)
      ELSE [c EXCEPT !.text[c.rows[i]] = v]

(* All rows, also those behind the last element.                           *)
Cleared(a) ==
  [rows |-> <<>>, num |-> 0,
   text |-> [s \in Strings |-> IF s \in ToSet(a.rows) THEN Freed ELSE a.text[s]]]

(* The strings s[1], s[2], ... at first and behind: of another array those *)
(* that exist, of a list of texts all.                                     *)
SetAll(a, first, s) ==
  LET b[n \in 0..Len(s)] ==
        IF n = 0 THEN a
        ELSE IF s[n] = NULL THEN b[n - 1] ELSE setAt(b[n - 1], first + n - 1, s[n])
  IN  b[Len(s)]

(* A new String for each of these, in the rows behind the first ones.      *)
NewAll(a, first, s) ==
  LET b[n \in 0..Len(s)] ==
        IF n = 0 THEN a
        ELSE IF s[n] = NULL THEN b[n - 1] ELSE New(b[n - 1], first + n, s[n])
  IN  b[Len(s)]

(* A mistake: the last row keeps its pointer.                              *)
EraseAtKeeping(a, index) ==
  LET d == Delete(a, index + 1) IN
  [d EXCEPT !.rows = SubSeq(@, 1, index) \o SubSeq(@, index + 2, a.num) \o SubSeq(@, a.num, Len(@)),
            !.num = @ - 1]

EraseAt(a, index) ==
  LET d == Delete(a, index + 1) IN
  [d EXCEPT !.rows = SubSeq(@, 1, index) \o SubSeq(@, index + 2, a.num) \o <<NULL>>
                       \o SubSeq(@, a.num + 1, Len(@)),
            !.num = @ - 1]

(* n rows are made free at index, if there are elements from there on.     *)
Shifted(a, index, n) ==
  IF index >= a.num THEN a
  ELSE [a EXCEPT !.rows = SubSeq(@, 1, index) \o [i \in 1..n |-> NULL]
          \o SubSeq(@, index + 1, a.num) \o SubSeq(@, a.num + n + 1, Len(@))]

(* The elements of a set of numbers in their order, as the one member, and *)
(* the orders of a list.                                                   *)
Ascending(S) == {s \in SetToSeqs(S) : \A i \in 2..Len(s) : s[i - 1] < s[i]}

Arrangements(s) ==
  {[i \in DOMAIN s |-> s[p[i]]] : p \in Bijection(DOMAIN s, DOMAIN s)}

-----------------------------------------------------------------------------
Becomes(a) ==
  /\ a.num <= MaxLen /\ Len(a.rows) <= MaxRows
  /\ array' = a
  /\ UNCHANGED <<EmptyString, undefined>>

LeavesDefined(call) == undefined' = call /\ UNCHANGED <<array, EmptyString>>

clear == Becomes(Cleared(array))

(* add and addf of a string set the element behind the last one.           *)
set(index, v) == Becomes(setAt(array, index, v))

copy(other) == Becomes(SetAll(reserve(Cleared(array), Len(other)), 0, other))

(* The array cleared is the other one, too.                                *)
copySelf == Becomes(Cleared(array))

add(other) ==
  Becomes(SetAll(reserve(array, array.num + Len(other)), array.num, other))

(* The loop runs to the number of elements it increases, over rows that it *)
(* has reallocated.                                                        *)
addSelf ==
  \/ (\E i \in 1..array.num : array.rows[i] # NULL) /\ LeavesDefined("add")
  \/ (\A i \in 1..array.num : array.rows[i] = NULL) /\ Becomes(reserve(array, 2 * array.num))

(* r is read before reserve, which may move the rows.                      *)
insert(index, v) ==
  LET shifts == array.num > index
      b == Shifted(reserve(array, array.num + 2), index, 1)
  IN  \/ Becomes(setAt(IF shifts THEN [b EXCEPT !.num = @ + 1] ELSE b, index, v))
      \/ shifts /\ array.num + 2 > Len(array.rows) /\ LeavesDefined("insert")

(* There is room behind the last element, not behind the index: strings    *)
(* are written behind the rows, or the array has elements without rows.    *)
insertArray(index, other) ==
  LET n == Len(other)
      b == Shifted(reserve(array, array.num + n + 2), index, n)
  IN  /\ n > 0
      /\ \/ index + n > Len(b.rows) /\ LeavesDefined("insertArray")
         \/ /\ index + n <= Len(b.rows)
            /\ Becomes(NewAll([b EXCEPT !.num = Max({@, index}) + n], index, other))

erase(index) == index < array.num /\ Becomes(EraseAt(array, index))

shift == array.num > 0 /\ Becomes(EraseAt(array, 0))

(* *r[numElements] is the row behind the last one.                         *)
pop ==
  /\ array.num > 0
  /\ \/ array.rows[array.num] # NULL /\ LeavesDefined("pop")
     \/ array.rows[array.num] = NULL /\ Becomes([array EXCEPT !.num = @ - 1])

(* The text is cut into pieces; the last one follows the last delimiter.   *)
explode(pieces, limit, skipemptylines) ==
  /\ pieces # <<0>>
  /\ \E taken \in Ascending({i \in DOMAIN pieces : skipemptylines => pieces[i] # 0}) :
       LET n == IF limit = 0 \/ Len(taken) <= limit THEN Len(taken) ELSE limit IN
       Becomes(SetAll(array, array.num, [i \in 1..n |-> pieces[taken[i]]]))

fromArgs(args) == Becomes(SetAll(Cleared(array), 0, args))

get(index) ==
  IF array.rows[index + 1] = NULL THEN EmptyString ELSE array.text[array.rows[index + 1]]

(* get gives a reference, and the application assigns to it.               *)
assign(index, v) ==
  /\ index < array.num
  /\ IF array.rows[index + 1] = NULL
     THEN EmptyString' = v /\ UNCHANGED <<array, undefined>>
     ELSE Becomes([array EXCEPT !.text[array.rows[index + 1]] = v])

Values == [i \in 1..array.num |-> get(i - 1)]

sort ==
  \E s \in Arrangements(Values) :
    (\A i \in 2..Len(s) : s[i - 1] <= s[i]) /\ Becomes(SetAll(Cleared(array), 0, s))

sortReverse ==
  \E s \in Arrangements(Values) :
    (\A i \in 2..Len(s) : s[i - 1] >= s[i]) /\ Becomes(SetAll(Cleared(array), 0, s))

sortUnique ==
  \E s \in Ascending(ToSet(Values)) : Becomes(SetAll(Cleared(array), 0, s))

(* What is not in the set of values seen is erased, and nothing is put in. *)
makeUnique ==
  LET b[n \in 0..array.num] == IF n = 0 THEN array ELSE EraseAt(b[n - 1], 0) IN
  Becomes(b[array.num])

(* has and indexOf compare with the String of each row until one equals.   *)
has(v) ==
  /\ \E i \in 1..array.num :
       array.rows[i] = NULL /\ \A j \in 1..i - 1 : Values[j] # v
  /\ LeavesDefined("has")

Next ==
  /\ undefined = NULL
  /\ \/ \E index \in 0..MaxLen :
          \/ \E v \in Texts : set(index, v) \/ insert(index, v) \/ assign(index, v)
          \/ \E other \in Others : insertArray(index, other)
          \/ erase(index)
     \/ \E other \in Others : copy(other) \/ add(other)
     \/ \E a, b \in Texts :
          \/ fromArgs(<<a, b>>)
          \/ \E limit \in 0..1, skip \in BOOLEAN : explode(<<a, b>>, limit, skip)
     \/ copySelf \/ addSelf \/ clear \/ shift \/ pop
     \/ sort \/ sortReverse \/ sortUnique \/ makeUnique
     \/ \E v \in Texts : has(v)

-----------------------------------------------------------------------------
Content(i) ==
  IF array.rows[i] = NULL THEN NULL ELSE array.text[array.rows[i]]

(* Every String is in one row, which is one of an element, or does not     *)
(* exist any more: none has two owners, none is lost and none is deleted   *)
(* while a row has it.                                                     *)
OwnsStrings ==
  /\ \A i \in DOMAIN array.rows : array.rows[i] # NULL =>
       /\ i <= array.num /\ array.text[array.rows[i]] # Freed
       /\ \A j \in DOMAIN array.rows : array.rows[j] = array.rows[i] => j = i
  /\ \A s \in Strings : array.text[s] # Freed => s \in ToSet(array.rows)

(* The rows are the list the application sees: no call moves, shares or    *)
(* frees a String another row has, whatever calls and capacities precede   *)
(* it, and each call does what is documented of it, or what StringList     *)
(* names as a divergence.                                                  *)
List == INSTANCE StringList WITH
  list <- [i \in 1..array.num |-> Content(i)], shared <- EmptyString

(* The calls of which StringList names a divergence, each by itself: what  *)
(* one of them does is not excused by what another one is allowed.         *)
Calls ==
  /\ \A index \in 0..MaxLen, v \in Texts :
       assign(index, v) => List!assign(index, v) \/ List!assignShared(index, v)
  /\ \A other \in Others :
       /\ copy(other) => List!copy(other) \/ List!copyTrimmed(other)
       /\ add(other) => List!add(other) \/ List!addTrimmed(other)
  /\ copySelf => List!copySelfEmpties
  /\ addSelf => List!Undefined
  /\ pop => List!pop \/ List!Undefined
  /\ makeUnique => List!makeUnique \/ List!makeUniqueEmpties

(* Steps of other objects are none of the array.                           *)
ImplementsList ==
  List!Init /\ [][vars' # vars => (List!Next \/ List!Divergence) /\ Calls]_(List!vars)

=============================================================================
