------------------------------- MODULE String -------------------------------
(***************************************************************************)
(* ppl7::String (src/src/types/String.cpp): a buffer that grows and seldom *)
(* shrinks, the number of characters, and the zero behind the last one.    *)
(* The object belongs to one thread and a call is one step; the one after  *)
(* it begins when the application has seen what it did.                    *)
(*                                                                         *)
(* Of the buffer, cells has what is known: up to the zero behind the text. *)
(* What is behind that is left from earlier calls, and nobody reads it.    *)
(* One byte is a character; positions and lengths count from 0.            *)
(***************************************************************************)
EXTENDS Integers, Sequences, SequencesExt, FiniteSetsExt

CONSTANTS
  Blanks, Backslash, Upper, Lower, (* of characters, which are numbers     *)
  Foreign,  (* a wide character that cannot be converted                   *)
  All,      (* the length that is not given: -1                            *)
  NULL,
  Unset,    (* a byte nobody has written                                   *)
  Chunk,    (* InitialBuffersize: 128                                      *)
  Slack,    (* what append and repeat allocate beyond: 16                  *)
  Wide,     (* bytes for a wide character: 4                               *)
  Words, Wides, Numbers, (* bounds: the arguments of calls                 *)
  MaxLen    (* bound: of a text                                            *)

VARIABLES
  str,      (* ptr ("static", "null" or "heap"), s, cells and stringlen    *)
  last,     (* the call that was made last, or NULL                        *)
  returned, (* what it returned, or NULL                                   *)
  undefined (* has it left what C++ defines?                               *)

vars == <<str, last, returned, undefined>>

Empty == [ptr |-> "static", s |-> 0, cells |-> <<0>>, stringlen |-> 0]

Init == str = Empty /\ last = NULL /\ returned = NULL /\ undefined = FALSE

-----------------------------------------------------------------------------
(* The C library.                                                          *)
IsTerminated(c) == 0 \in ToSet(c)
CString(c) == SubSeq(c, 1, Min({i \in DOMAIN c : c[i] = 0} \cup {Len(c) + 1}) - 1)

strstr(c, from, n) ==
  LET end == from + Len(CString(SubSeq(c, from + 1, Len(c))))
      there == {p \in from..end - Len(n) : SubSeq(c, p + 1, p + Len(n)) = n}
  IN  IF there = {} THEN NULL ELSE Min(there)

Poke(c, i, v) ==
  [j \in 1..Max({Len(c), i + 1}) |->
     IF j = i + 1 THEN v ELSE IF j <= Len(c) THEN c[j] ELSE Unset]

(* memmove(ptr, ptr + from, n)                                             *)
memmove(c, from, n) ==
  [j \in 1..Max({Len(c), n}) |->
     IF j > n THEN c[j] ELSE IF from + j <= Len(c) THEN c[from + j] ELSE Unset]

-----------------------------------------------------------------------------
Chars == SubSeq(str.cells, 1, str.stringlen)
Ended(t) == t \o <<0>>
Copies(t, n) == FlattenSeq([i \in 1..n |-> t])
Heap(s, c, n) == [ptr |-> "heap", s |-> s, cells |-> c, stringlen |-> n]

(* Without what is behind the zero.                                        *)
Known(o) ==
  LET zeros == {i \in o.stringlen + 1..Len(o.cells) : o.cells[i] = 0} IN
  [o EXCEPT !.cells = IF zeros = {} THEN @ ELSE SubSeq(@, 1, Min(zeros))]

Made(call) == last' = call
Gives(call, r) == Made(call) /\ returned' = r /\ UNCHANGED <<str, undefined>>
Returns(call) == Gives(call, NULL)
Leaves(call) ==
  Made(<<"undefined", call>>) /\ undefined' = TRUE /\ UNCHANGED <<str, returned>>
Throws(call, o) ==
  Made(<<"no memory", call[1]>>) /\ str' = o /\ UNCHANGED <<returned, undefined>>

(* A call may write to the bytes it has.                                   *)
Becomes(call, o) ==
  IF o.ptr = "heap" /\ Len(o.cells) > o.s THEN Leaves("beyond the buffer")
  ELSE /\ o.stringlen <= MaxLen
       /\ Made(call) /\ str' = Known(o) /\ UNCHANGED <<returned, undefined>>

Rounded(bytes, more) == (bytes \div Chunk + 1) * Chunk + more

(* A new buffer if the old one is too small, which is freed before.        *)
Allocate(call, bytes, more, c, n) ==
  LET new == IF Chunk > bytes THEN Chunk ELSE Rounded(bytes, more) IN
  \/ Becomes(call, Heap(IF bytes >= str.s THEN new ELSE str.s, c, n))
  \/ bytes >= str.s
       /\ Throws(call, [ptr |-> "null", s |-> 0, cells |-> <<>>, stringlen |-> 0])

(* A larger one with what the old one had, which is kept without memory.   *)
Reallocate(call, bytes, c, n) ==
  \/ Becomes(call, Heap(IF bytes >= str.s THEN Rounded(bytes, Slack) ELSE str.s, c, n))
  \/ bytes >= str.s /\ Throws(call, str)

SetTo(call, t) ==
  IF t = <<>> THEN Becomes(call, Empty)
  ELSE Allocate(call, Len(t) + 1, 1, Ended(t), Len(t))

(* stringlen = strlen(ptr)                                                 *)
Measured(o, c) == [o EXCEPT !.cells = c, !.stringlen = Len(CString(c))]

-----------------------------------------------------------------------------
clear == Becomes(<<"clear">>, Empty)

(* From another String, which set has made.                                *)
move(t) ==
  Becomes(<<"move", t>>,
    IF t = <<>> THEN Empty
    ELSE Heap(IF Chunk > Len(t) + 1 THEN Chunk ELSE Rounded(Len(t) + 1, 1), Ended(t), Len(t)))

(* Memory for an empty String has no zero at its beginning.                *)
reserve(n) ==
  LET call == <<"reserve", n>> IN
  IF str.s >= n + 1 THEN Returns(call)
  ELSE \/ Becomes(call, Heap(n + 1, IF str.ptr = "heap" THEN str.cells ELSE <<>>, str.stringlen))
       \/ Throws(call, str)

(* The size is not compared with the length of the C string: the zero that *)
(* ends it becomes a character, and what is behind it nobody has defined.  *)
set(t, n) ==
  IF n > Len(t) + 1 THEN Leaves("set")
  ELSE SetTo(<<"set", t, n>>, IF n = All THEN t ELSE SubSeq(Ended(t), 1, n))

setSelf == SetTo(<<"setSelf">>, Chars)

(* What is converted stands in the buffer when the rest cannot be.  There  *)
(* may be no memory for the copy either that the conversion reads.         *)
SetWide(call, t) ==
  \/ Throws(call, str)
  \/ LET bytes == (Len(t) + 1) * Wide
         n == Min({i \in DOMAIN t : t[i] = Foreign} \cup {Len(t) + 1}) - 1
         old == IF bytes >= str.s THEN <<>> ELSE str.cells
     IN  IF n = Len(t) THEN Allocate(call, bytes, Wide, Ended(t), n)
         ELSE Allocate(call, bytes, Wide, SubSeq(t, 1, n) \o SubSeq(old, n + 1, Len(old)), 0)

setWide(t) == SetWide(<<"setWide", t>>, t)

setAt(pos, c) ==
  IF pos >= str.stringlen THEN Returns(<<"out of bounds", pos>>)
  ELSE Becomes(<<"setAt", pos, c>>, [str EXCEPT !.cells[pos + 1] = c])

(* Here the size is compared, unless the String is empty.                  *)
append(t, n) ==
  LET call == <<"append", t, n>>
      u == IF n = All THEN t ELSE SubSeq(t, 1, Min({n, Len(t)}))
      len == Len(u) + str.stringlen
  IN  IF n = 0 THEN Returns(call)
      ELSE IF str.ptr = "static" THEN
             (IF n > Len(t) + 1 THEN Leaves("append")
              ELSE SetTo(call, IF n = All THEN t ELSE SubSeq(Ended(t), 1, n)))
      ELSE Reallocate(call, len + 1, Ended(Chars \o u), len)

(* append(str.ptr): realloc may move what it points to.                    *)
appendSelf ==
  LET call == <<"appendSelf">>
      u == CString(str.cells)
      len == Len(u) + str.stringlen
  IN  CASE str.ptr = "static" -> SetTo(call, <<>>)
        [] str.ptr = "null" -> Returns(call)
        [] str.ptr = "heap" /\ ~IsTerminated(str.cells) -> Leaves("appendSelf")
        [] str.ptr = "heap" /\ IsTerminated(str.cells) ->
             \/ Reallocate(call, len + 1, Ended(Chars \o u), len)
             \/ u # <<>> /\ len + 1 >= str.s /\ Leaves("appendSelf")

prepend(t) ==
  LET call == <<"prepend", t>>
      len == Len(t) + str.stringlen
  IN  IF str.ptr = "static" THEN SetTo(call, t)
      ELSE Reallocate(call, len + 1, Ended(t \o Chars), len)

(* From a copy, for which there may be no memory.                          *)
prependSelf ==
  LET call == <<"prependSelf">>
      u == CString(Ended(Chars))
      len == Len(u) + str.stringlen
  IN  IF str.stringlen = 0 THEN Returns(call)
      ELSE Throws(call, str) \/ Reallocate(call, len + 1, Ended(u \o Chars), len)

-----------------------------------------------------------------------------
NotAmong(cs) == {i \in 1..str.stringlen : str.cells[i] \notin cs}
First(cs) == Min(NotAmong(cs) \cup {str.stringlen + 1}) - 1

Edits(call, o) == IF str.stringlen = 0 THEN Returns(call) ELSE Becomes(call, o)

(* A mistake: it is the last character that is overwritten.                *)
trimTooMuch ==
  LET start == First(Blanks)
      end == IF NotAmong(Blanks) = {} THEN str.stringlen ELSE Max(NotAmong(Blanks)) - 1
      c == Poke(str.cells, end, 0)
  IN  Edits(<<"trim">>,
        Measured(str, IF start > 0 THEN memmove(c, start, end - start + 2) ELSE c))

(* A zero behind the last character, or behind the zero.                   *)
trim ==
  LET start == First(Blanks)
      end == IF NotAmong(Blanks) = {} THEN str.stringlen ELSE Max(NotAmong(Blanks)) - 1
      c == Poke(str.cells, end + 1, 0)
  IN  Edits(<<"trim">>,
        Measured(str, IF start > 0 THEN memmove(c, start, end - start + 2) ELSE c))

trimLeft ==
  LET start == First(Blanks) IN
  Edits(<<"trimLeft">>,
    Measured(str, IF start = 0 THEN str.cells
                  ELSE memmove(str.cells, start, str.stringlen - start + 1)))

trimRight ==
  Edits(<<"trimRight">>, Measured(str, Poke(str.cells, Max(NotAmong(Blanks) \cup {0}), 0)))

(* trimLeft(chars) and then trimRight(chars).                              *)
trimChars(cs) ==
  LET start == First(cs)
      c == memmove(str.cells, start, str.stringlen - start + 1)
      len == IF start > 0 THEN Len(CString(c)) ELSE str.stringlen
      end == Max({i \in 1..len : c[i] \notin cs} \cup {0})
      cut == IF len > 0 THEN Poke(c, end, 0) ELSE c
  IN  IF cs = {} THEN Returns(<<"trimChars", cs>>)
      ELSE Edits(<<"trimChars", cs>>, Measured(str, cut))

(* chop and chopRight                                                      *)
chop(n) ==
  LET len == Max({0, str.stringlen - n}) IN
  Edits(<<"chop", n>>, [str EXCEPT !.stringlen = len, !.cells = Poke(@, len, 0)])

chopLeft(n) ==
  LET k == Min({n, str.stringlen})
      len == str.stringlen - k
  IN  Edits(<<"chopLeft", n>>,
        [str EXCEPT !.stringlen = len, !.cells = Poke(memmove(@, k, len), len, 0)])

cut(pos) ==
  IF pos > str.stringlen THEN Returns(<<"cut", pos>>)
  ELSE Edits(<<"cut", pos>>, [str EXCEPT !.stringlen = pos, !.cells = Poke(@, pos, 0)])

(* instr is a search that goes forward.                                    *)
Forward(n, start) ==
  LET p == strstr(str.cells, start, n) IN
  IF str.stringlen = 0 THEN -1 ELSE IF n = <<>> THEN 0
  ELSE IF start >= str.stringlen \/ p = NULL THEN -1 ELSE p

(* From one occurrence to the next, until one ends too late.               *)
Backward(n, start) ==
  LET from[p \in -1..str.stringlen] ==
        LET found == strstr(str.cells, p + 1, n) IN
        IF found = NULL \/ found + Len(n) > str.stringlen + start + 1 THEN p ELSE from[found]
  IN  IF str.stringlen = 0 THEN -1 ELSE IF n = <<>> THEN 0
      ELSE IF str.stringlen + start < 0 THEN -1 ELSE from[-1]

cutAt(letter) ==
  LET p == Forward(letter, 0) IN
  IF letter = <<>> \/ p < 0 THEN Returns(<<"cutAt", letter>>)
  ELSE Edits(<<"cutAt", letter>>, [str EXCEPT !.stringlen = p, !.cells = Poke(@, p, 0)])

(* A character is written when the next one is read, but not a backslash.  *)
stripSlashes ==
  LET t == CString(str.cells)
      write(out, i) == IF t[i] = Backslash THEN out ELSE Append(out, t[i])
      before == FoldLeft(write, <<>>, [i \in 1..Len(t) - 1 |-> i])
      out == before \o SubSeq(t, Max({1, Len(t)}), Len(t))
  IN  Edits(<<"stripSlashes">>, [str EXCEPT !.stringlen = Len(out), !.cells = Ended(out)])

(* mbstowcs ends at a zero.  set(buffer, 0) is clear.                      *)
Case(call, f) ==
  LET t == CString(str.cells) IN
  IF str.stringlen = 0 THEN Returns(call)
  ELSE IF t = <<>> THEN Throws(call, str) \/ Becomes(call, Empty)
  ELSE SetWide(call, [i \in DOMAIN t |-> f[t[i]]])

lowerCase == Case(<<"lowerCase">>, Lower)
upperCase == Case(<<"upperCase">>, Upper)

(* strncpy fills with zeros behind a zero.                                 *)
strncpy(t) == [i \in DOMAIN t |-> IF i <= Len(CString(t)) THEN t[i] ELSE 0]

RepeatTo(call, t, n) ==
  IF n = 0 \/ t = <<>> THEN Becomes(call, Empty)
  ELSE LET len == Len(t) * n IN
       \/ Becomes(call, Heap(len + Slack, Ended(Copies(strncpy(t), n)), len))
       \/ Throws(call, str)

repeat(n) ==
  IF str.stringlen = 0 THEN Returns(<<"repeat", n>>) ELSE RepeatTo(<<"repeat", n>>, Chars, n)

repeatString(t, n) == RepeatTo(<<"repeatString", t, n>>, t, n)

(* What is put together in a String of its own and then set.               *)
Rebuilt(call, t) == (t # <<>> /\ Throws(call, str)) \/ SetTo(call, t)

(* The parts between are appended as C strings.                            *)
replace(search, replacement) ==
  LET call == <<"replace", search, replacement>>
      Between(from, to) == CString(SubSeq(str.cells, from + 1, to))
      ms[start \in 0..str.stringlen] ==
        LET end == Forward(search, start) IN
        IF end < 0 THEN Between(start, str.stringlen)
        ELSE Between(start, end) \o replacement \o ms[end + Len(search)]
  IN  IF str.stringlen = 0 \/ search = <<>> THEN Returns(call) ELSE Rebuilt(call, ms[0])

shl(c, size) ==
  LET n == Min({size, str.stringlen})
      t == SubSeq(Chars, n + 1, str.stringlen)
  IN  IF n = 0 THEN Returns(<<"shl", c, size>>)
      ELSE Rebuilt(<<"shl", c, size>>, IF c = 0 THEN t ELSE t \o Copies(<<c>>, n))

shr(c, size) ==
  LET n == Min({size, str.stringlen})
      t == Copies(<<c>>, n) \o SubSeq(Chars, 1, str.stringlen - n)
  IN  IF n = 0 \/ c = 0 THEN Returns(<<"shr", c, size>>)
      ELSE Rebuilt(<<"shr", c, size>>, SubSeq(t, 1, n))

-----------------------------------------------------------------------------
find(needle, start) ==
  Gives(<<"find", needle, start>>,
    IF start >= 0 THEN Forward(needle, start) ELSE Backward(needle, start))

(* start + len is compared with stringlen, as an unsigned number.          *)
mid(start, n) ==
  LET len == IF n = All THEN str.stringlen ELSE n
      wraps == len < 0 /\ start + len >= 0
      rest == len < 0 \/ start + len > str.stringlen
  IN  IF start >= str.stringlen \/ len = 0 THEN Gives(<<"mid", start, n>>, <<>>)
      ELSE IF wraps THEN Leaves("mid")
      ELSE Gives(<<"mid", start, n>>,
             SubSeq(Chars, start + 1, IF rest THEN str.stringlen ELSE start + len))

left(n) == Gives(<<"left", n>>, SubSeq(Chars, 1, Min({n, str.stringlen})))
right(n) ==
  Gives(<<"right", n>>, SubSeq(Chars, str.stringlen - Min({n, str.stringlen}) + 1, str.stringlen))

Char(pos) == str.cells[pos + 1]
get(pos) ==
  Gives(<<"get", pos>>,
    IF pos >= 0 /\ str.stringlen > pos THEN Char(pos)
    ELSE IF pos < 0 /\ -pos < str.stringlen THEN Char(str.stringlen + pos) ELSE NULL)
at(pos) ==
  Gives(<<"at", pos>>,
    IF pos >= 0 /\ str.stringlen > pos THEN Char(pos)
    ELSE IF pos < 0 /\ -pos <= str.stringlen THEN Char(str.stringlen + pos) ELSE NULL)

(* strcmp(ptr, t)                                                          *)
equals(t) ==
  IF IsTerminated(str.cells) THEN Gives(<<"equals", t>>, CString(str.cells) = t)
  ELSE Leaves("equals")

go ==
  last # NULL /\ ~undefined /\ last' = NULL /\ returned' = NULL /\ UNCHANGED <<str, undefined>>

Call ==
  \/ clear \/ setSelf \/ appendSelf \/ prependSelf \/ stripSlashes
  \/ trim \/ trimLeft \/ trimRight \/ lowerCase \/ upperCase
  \/ \E t \in Wides : setWide(t)
  \/ \E n \in Numbers :
       \/ reserve(n) \/ chop(n) \/ chopLeft(n) \/ cut(n) \/ repeat(n)
       \/ get(n) \/ get(-n) \/ at(n) \/ at(-n) \/ left(n) \/ right(n)
       \/ \E k \in Numbers : mid(n, k) \/ mid(n, -k)
       \/ setAt(n, 0) \/ \E c \in {0, Backslash} : shl(c, n) \/ shr(c, n)
  \/ \E t \in Words :
       \/ move(t) \/ prepend(t) \/ trimChars(ToSet(t)) \/ cutAt(t) \/ equals(t)
       \/ \E n \in Numbers \cup {All} : set(t, n) \/ append(t, n)
       \/ \E n \in Numbers : repeatString(t, n) \/ find(t, n) \/ find(t, -n)
       \/ \E r \in Words : replace(t, r)

Next == (last = NULL /\ Call) \/ go

-----------------------------------------------------------------------------
(* Every call does to the buffer what its comment says it does to the      *)
(* text, and the zero is behind it, whatever calls and capacities precede  *)
(* it, but for what is in Divergence: there the code does something else,  *)
(* or leaves what C++ defines.                                             *)
AsText == INSTANCE Text WITH
  text <- Chars,
  view <- IF str.ptr = "null" THEN "none"
          ELSE IF IsTerminated(str.cells) /\ CString(str.cells) = CString(Ended(Chars))
          THEN "text" ELSE "other"

ImplementsText ==
  AsText!Init /\ [][AsText!Next \/ AsText!Divergence]_(AsText!vars)

=============================================================================
