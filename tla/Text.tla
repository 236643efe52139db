-------------------------------- MODULE Text --------------------------------
(***************************************************************************)
(* What ppl7::String is to its application: a text, which is also to be    *)
(* had as a C string that ends at the first zero.  Nothing is said of the  *)
(* buffer but that there may be no memory for it.  last is the call that   *)
(* was made last, with its arguments and what it returned, until the       *)
(* application makes the next one.  Next is what the comments of           *)
(* String.cpp and string.h say; what the code does instead, or beyond what *)
(* C++ defines, has names of its own in Divergence.                        *)
(***************************************************************************)
EXTENDS Integers, Sequences, SequencesExt, FiniteSetsExt

CONSTANTS
  Blanks, Backslash, Upper, Lower, (* of characters, which are numbers     *)
  Foreign,  (* a wide character that cannot be converted                   *)
  All,      (* the length that is not given: -1                            *)
  NULL,
  Words, Wides, Numbers  (* bounds: the arguments of calls                 *)

VARIABLES
  text,
  view,     (* the C string: of the "text", of something "other", "none"   *)
  last,     (* the call made last                                          *)
  returned, (* what it returned                                            *)
  undefined

vars == <<text, view, last, returned, undefined>>

Init == text = <<>> /\ view = "text" /\ last = NULL /\ returned = NULL /\ undefined = FALSE

UpToZero(t) == SubSeq(t, 1, Min({i \in DOMAIN t : t[i] = 0} \cup {Len(t) + 1}) - 1)
Part(t, start, n) == SubSeq(t, start + 1, Min({Len(t), start + n}))
Repeated(t, n) == FlattenSeq([i \in 1..n |-> t])
ZeroesBehind(t) == [i \in DOMAIN t |-> IF i <= Len(UpToZero(t)) THEN t[i] ELSE 0]

StripLeft(t, cs) ==
  SubSeq(t, Min({i \in DOMAIN t : t[i] \notin cs} \cup {Len(t) + 1}), Len(t))
StripRight(t, cs) == SubSeq(t, 1, Max({i \in DOMAIN t : t[i] \notin cs} \cup {0}))

(* A call reads all of the text, or the C string, or that and zeroes.      *)
Seen(how, t) ==
  IF how = "whole" THEN t ELSE IF how = "C string" THEN UpToZero(t) ELSE ZeroesBehind(t)

(* Where n is found in t, if the search begins at start.                   *)
Occurrences(t, n, start, how) ==
  LET end == start + Len(Seen(how, Part(t, start, Len(t))))
  IN  {p \in start..end - Len(n) : Part(t, p, Len(n)) = n}

(* From a negative start, which counts from the end, the search goes back. *)
Find(t, n, start, how) ==
  LET there == IF start >= 0 THEN Occurrences(t, n, start, how)
               ELSE {p \in Occurrences(t, n, 0, how) : p + Len(n) <= Len(t) + start + 1}
  IN  IF n = <<>> THEN 0
      ELSE IF there = {} THEN -1 ELSE IF start >= 0 THEN Min(there) ELSE Max(there)

(* From left to right, what is found of s and does not overlap.            *)
Replaced(t, s, r) ==
  LET found[p \in -Len(s)..Len(t)] ==
        p \in Occurrences(t, s, 0, "whole") /\ \A q \in p - Len(s) + 1..p - 1 : ~found[q]
      Inside(p) == \E q \in p - Len(s) + 1..p - 1 : found[q]
  IN  FlattenSeq([i \in DOMAIN t |->
        IF found[i - 1] THEN r ELSE IF Inside(i - 1) THEN <<>> ELSE <<t[i]>>])

-----------------------------------------------------------------------------
Made(call) == last' = call /\ UNCHANGED <<returned, undefined>>
Given(call, r) ==
  last' = call /\ returned' = r /\ UNCHANGED <<text, view, undefined>>
Becomes(call, t) == Made(call) /\ text' = t /\ view' = "text"
Unchanged(call) == Made(call) /\ UNCHANGED <<text, view>>

(* An edit of no text does nothing.                                        *)
Edited(call, t) == IF text = <<>> THEN Unchanged(call) ELSE Becomes(call, t)

(* There may be no memory: an addition then changes nothing, but what is   *)
(* set as a whole takes the old text away first.                           *)
Without(call) == <<"no memory", call[1]>>
Grown(call, t) == Becomes(call, t) \/ Unchanged(Without(call))
Lost(call) == Made(Without(call)) /\ text' = <<>> /\ view' = "none"
Stored(call, t) == Becomes(call, t) \/ Lost(call)
Restored(call, t) ==
  IF text = <<>> THEN Unchanged(call) ELSE Stored(call, t) \/ Unchanged(Without(call))

clear == Becomes(<<"clear">>, <<>>)
move(t) == Becomes(<<"move", t>>, t)

reserve(n) == Unchanged(<<"reserve", n>>) \/ Unchanged(Without(<<"reserve">>))

(* A length is ignored if there are not as many characters.                *)
Taken(t, n) == IF n = All THEN t ELSE Part(t, 0, n)
set(t, n) == Stored(<<"set", t, n>>, Taken(t, n))
setSelf == Becomes(<<"setSelf">>, text)

(* Without the conversion there is no text.                                *)
setWide(t) ==
  LET call == <<"setWide", t>> IN
  Unchanged(Without(call)) \/ Stored(call, IF Foreign \in ToSet(t) THEN <<>> ELSE t)

setAt(pos, c) ==
  IF pos >= Len(text) THEN Unchanged(<<"out of bounds", pos>>)
  ELSE Becomes(<<"setAt", pos, c>>, [text EXCEPT ![pos + 1] = c])

(* To the String that has no buffer a text is not appended, but set.       *)
append(t, n) ==
  LET call == <<"append", t, n>> IN
  IF n = 0 THEN Unchanged(call)
  ELSE \/ Grown(call, text \o Taken(t, n))
       \/ text = <<>> /\ view = "text" /\ Lost(call)

prepend(t) ==
  LET call == <<"prepend", t>> IN
  Grown(call, t \o text) \/ (text = <<>> /\ view = "text" /\ Lost(call))

appendSelf(how) ==
  LET call == <<"appendSelf">> IN
  (text = <<>> /\ Unchanged(call)) \/ Grown(call, text \o Seen(how, text))
prependSelf(how) ==
  LET call == <<"prependSelf">> IN
  IF text = <<>> THEN Unchanged(call) ELSE Grown(call, Seen(how, text) \o text)

Stripped(cs, how) == IF cs = {} THEN text ELSE Seen(how, StripRight(StripLeft(text, cs), cs))
trim(how) == Edited(<<"trim">>, Stripped(Blanks, how))
trimChars(cs, how) == Edited(<<"trimChars", cs>>, Stripped(cs, how))
trimLeft(how) == Edited(<<"trimLeft">>, Seen(how, StripLeft(text, Blanks)))
trimRight(how) == Edited(<<"trimRight">>, Seen(how, StripRight(text, Blanks)))

chop(n) == Edited(<<"chop", n>>, Part(text, 0, Max({0, Len(text) - n})))
chopLeft(n) == Edited(<<"chopLeft", n>>, Part(text, n, Len(text)))
cut(pos) == Edited(<<"cut", pos>>, Part(text, 0, pos))
cutAt(s, how) ==
  LET p == Find(text, s, 0, how) IN
  Edited(<<"cutAt", s>>, IF s = <<>> \/ p < 0 THEN text ELSE Part(text, 0, p))

(* Nothing is written about it: every backslash is taken out, unless it is *)
(* the last character.                                                     *)
stripSlashes(how) ==
  LET t == Seen(how, text)
      plain == SelectSeq(Part(t, 0, Len(t) - 1), LAMBDA c : c # Backslash)
  IN  Edited(<<"stripSlashes">>, plain \o Part(t, Max({0, Len(t) - 1}), 1))

Mapped(t, f) == [i \in DOMAIN t |-> IF t[i] = 0 THEN 0 ELSE f[t[i]]]
lowerCase(how) == Restored(<<"lowerCase">>, Mapped(Seen(how, text), Lower))
upperCase(how) == Restored(<<"upperCase">>, Mapped(Seen(how, text), Upper))

repeat(n, how) ==
  LET call == <<"repeat", n>> IN
  IF text = <<>> THEN Unchanged(call) ELSE Grown(call, Repeated(Seen(how, text), n))
repeatString(t, n) == Grown(<<"repeatString", t, n>>, Repeated(t, n))

replace(s, r, how) ==
  LET call == <<"replace", s, r>> IN
  IF s = <<>> THEN Unchanged(call) ELSE Restored(call, Replaced(Seen(how, text), s, r))

(* A text that is shifted by more than its length is as long as the shift. *)
Filled(c, n) == IF c = 0 THEN <<>> ELSE Repeated(<<c>>, n)
Shifted(call, t) ==
  (t = text /\ Unchanged(call)) \/ Stored(call, t) \/ Unchanged(Without(call))
shl(c, n) ==
  IF n = 0 THEN Unchanged(<<"shl", c, n>>)
  ELSE Shifted(<<"shl", c, n>>, Part(text, n, Len(text)) \o Filled(c, n))
shr(c, n) ==
  IF n = 0 \/ c = 0 THEN Unchanged(<<"shr", c, n>>)
  ELSE Shifted(<<"shr", c, n>>, Part(Filled(c, n) \o text, 0, Max({n, Len(text)})))

-----------------------------------------------------------------------------
find(n, start, how) == Given(<<"find", n, start>>, Find(text, n, start, how))

(* A length below zero is one that is too large.                           *)
mid(start, n) ==
  Given(<<"mid", start, n>>, Part(text, start, IF n >= 0 THEN n ELSE Len(text)))

left(n) == Given(<<"left", n>>, Part(text, 0, n))
right(n) == Given(<<"right", n>>, Part(text, Max({0, Len(text) - n}), n))

(* There is no character before the first nor behind the last.             *)
Character(pos) ==
  IF pos \in 0..Len(text) - 1 THEN text[pos + 1]
  ELSE IF pos \in -Len(text)..-1 THEN text[Len(text) + pos + 1] ELSE NULL
get(pos) == Given(<<"get", pos>>, Character(pos))
at(pos) == Given(<<"at", pos>>, Character(pos))

equals(t, how) == view # "none" /\ Given(<<"equals", t>>, Seen(how, text) = t)

-----------------------------------------------------------------------------
(* For these calls, which read a C string, the text ends before a zero in  *)
(* it, although their comments speak of the String, of all its characters  *)
(* or of the complete String (string.h 579, String.cpp 1228, 1839).        *)
ReadsText(how) ==
  \/ appendSelf(how) \/ prependSelf(how) \/ stripSlashes(how)
  \/ trim(how) \/ trimLeft(how) \/ trimRight(how) \/ lowerCase(how) \/ upperCase(how)
  \/ \E t \in Words :
       \/ trimChars(ToSet(t), how) \/ cutAt(t, how) \/ equals(t, how)
       \/ \E n \in Numbers : find(t, n, how) \/ find(t, -n, how)
       \/ \E r \in Words : replace(t, r, how)

endsAtZero ==
  0 \in ToSet(text) /\ (ReadsText("C string") \/ \E n \in Numbers : repeat(n, "zeroes"))

(* An empty text may be that of memory nobody has written to, or of what   *)
(* was converted before the conversion failed, and is then some C string:  *)
(* it is compared as such, and appended to itself it is no longer empty.   *)
nothingWritten(n) == text = <<>> /\ Made(<<"reserve", n>>) /\ view' = "other" /\ UNCHANGED text
halfConverted(t) ==
  Foreign \in ToSet(t) /\ Made(<<"setWide", t>>) /\ text' = <<>> /\ view' = "other"
comparesOther(t) == view = "other" /\ \E b \in BOOLEAN : Given(<<"equals", t>>, b)
appendsOther ==
  view = "other" /\ Made(<<"appendSelf">>) /\ text' \in Seq(Nat) /\ view' = "text"

(* The length is not compared with that of a C string (String.cpp 255-256  *)
(* against string.h 397-399): one more than there are takes the zero that  *)
(* ends it.  append does compare it, unless the text is empty (494-495).   *)
zeroTaken(t) ==
  LET n == Len(t) + 1 IN
  \/ Becomes(<<"set", t, n>>, t \o <<0>>)
  \/ text = <<>> /\ Becomes(<<"append", t, n>>, t \o <<0>>)

(* Nothing is found in an empty text (String.cpp 1683 against 1678-1679).  *)
nothingInNothing ==
  text = <<>> /\ \E n \in Numbers : \E k \in {n, -n} : Given(<<"find", <<>>, k>>, -1)

(* The first character from the end (String.cpp 798 against 787-793).      *)
firstIsOutside == text # <<>> /\ Given(<<"get", -Len(text)>>, NULL)

(* The shift is limited to the length (String.cpp 1994 against 1987-1988), *)
(* and to the right it leaves only what fills the place (2021 against      *)
(* 2006-2007).                                                             *)
shiftLimited(c, n) ==
  /\ c # 0 /\ n > Len(text)
  /\ Restored(<<"shl", c, n>>, Filled(c, Len(text))) \/ Restored(<<"shr", c, n>>, Filled(c, Len(text)))
shiftedIsLost(c, n) == c # 0 /\ n \in 1..Len(text) /\ Restored(<<"shr", c, n>>, Filled(c, n))

(* A length that makes a sum wrap (String.cpp 1198).                       *)
Wraps(start, n) == start < Len(text) /\ n < All /\ start + n >= 0

(* Outside of what C++ defines: more characters than there are, set or     *)
(* appended to an empty String; itself appended when the buffer grows; a   *)
(* wrapped sum; the C string of a String that has none.                    *)
Undefined ==
  /\ undefined' = TRUE /\ UNCHANGED <<text, view, returned>>
  /\ \/ last' = <<"undefined", "set">>
     \/ last' = <<"undefined", "append">> /\ text = <<>>
     \/ last' = <<"undefined", "appendSelf">> /\ (text # <<>> \/ view = "other")
     \/ last' = <<"undefined", "mid">> /\ \E n \in Numbers, k \in Numbers : Wraps(n, -k)
     \/ last' = <<"undefined", "equals">> /\ view # "text"

-----------------------------------------------------------------------------
(* The application looks at the result.                                    *)
go ==
  /\ last # NULL /\ ~undefined /\ last' = NULL /\ returned' = NULL
  /\ UNCHANGED <<text, view, undefined>>

Call ==
  \/ clear \/ setSelf \/ ReadsText("whole")
  \/ \E t \in Wides : setWide(t)
  \/ \E n \in Numbers :
       \/ reserve(n) \/ chop(n) \/ chopLeft(n) \/ cut(n) \/ repeat(n, "whole")
       \/ get(n) \/ get(-n) \/ at(n) \/ at(-n) \/ left(n) \/ right(n)
       \/ \E k \in Numbers : mid(n, k) \/ mid(n, -k)
       \/ setAt(n, 0) \/ \E c \in {0, Backslash} : shl(c, n) \/ shr(c, n)
  \/ \E t \in Words :
       \/ move(t) \/ prepend(t)
       \/ \E n \in Numbers \cup {All} : set(t, n) \/ append(t, n)
       \/ \E n \in Numbers : repeatString(t, n)

Next == (last = NULL /\ last' # NULL /\ Call) \/ go

Divergence ==
  /\ last = NULL /\ last' # NULL
  /\ \/ endsAtZero \/ appendsOther \/ nothingInNothing \/ firstIsOutside \/ Undefined
     \/ \E t \in Wides : halfConverted(t)
     \/ \E t \in Words : comparesOther(t) \/ zeroTaken(t)
     \/ \E n \in Numbers : nothingWritten(n) \/ shiftLimited(Backslash, n) \/ shiftedIsLost(Backslash, n)

Spec == Init /\ [][Next]_vars

=============================================================================
