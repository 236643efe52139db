------------------------------ MODULE ByteFile ------------------------------
(***************************************************************************)
(* What ppl7::MemFile is to its application: bytes, a position and a limit *)
(* of the size.  Nothing is said of buffers.  A new file can be written to *)
(* at once ("fresh"); one that was closed after it was open for writing is *)
(* "spent".  Next is what the documentation says, Divergence what the code *)
(* does beside.                                                            *)
(***************************************************************************)
EXTENDS Integers, Sequences, SequencesExt, FiniteSetsExt

CONSTANTS NULL, Word, Newline, Data, Lengths, Offsets

VARIABLES content, pos, limit, mode, got, wild

vars == <<content, pos, limit, mode, got, wild>>

Init ==
  /\ content = <<>> /\ pos = 0 /\ limit = 0 /\ mode = "fresh"
  /\ got = <<>> /\ wild = NULL

size == Len(content)
Quietly == got' = <<>> /\ UNCHANGED wild

(* c with the bytes s at p, as many as it has room for.                    *)
Over(c, p, s) ==
  [i \in DOMAIN c |-> IF i - p \in DOMAIN s THEN s[i - p] ELSE c[i]]

open(s, m) ==
  /\ content' = s /\ pos' = 0 /\ mode' = m
  /\ Quietly /\ UNCHANGED limit

openNothing ==
  /\ content' = <<>> /\ pos' = 0 /\ mode' \in {"fresh", "shut"}
  /\ Quietly /\ UNCHANGED limit

close ==
  /\ content' = <<>> /\ pos' = 0
  /\ mode' = CASE mode = "write" -> "spent" [] mode = "read" -> "shut" [] OTHER -> mode
  /\ Quietly /\ UNCHANGED limit

setMaxSize(n) == limit' = n /\ Quietly /\ UNCHANGED <<content, pos, mode>>

(* A call that fails may have forgotten what the last one returned.        *)
fails == Quietly /\ UNCHANGED <<content, pos, limit, mode>>

MovesTo(p) == pos' = p /\ Quietly /\ UNCHANGED <<content, limit, mode>>

rewind == MovesTo(0)
seek(position) == MovesTo(position)

(* An offset counts from the start, the position or back from the end.     *)
Target(offset, origin) ==
  CASE origin = "SEEKSET" -> offset
    [] origin = "SEEKCUR" -> pos + offset
    [] origin = "SEEKEND" -> size - offset
seekFrom(offset, origin) == MovesTo(Target(offset, origin))

Open == mode \in {"read", "write"}
Returns(end) == pos' = end /\ UNCHANGED <<content, limit, mode, wild>>
ReadTo(end) == got' = SubSeq(content, pos + 1, end) /\ Returns(end)

(* Elements of n bytes, as many as are asked for or are there.             *)
fread(n, nmemb) ==
  /\ Open /\ pos <= size
  /\ ReadTo(pos + (IF pos + nmemb * n > size THEN (size - pos) \div n ELSE nmemb) * n)

(* Where a line of num - 1 bytes at most ends.                             *)
EndOfLine(num) ==
  LET most == Min({num - 1, size - pos}) IN
  pos + Min({most} \cup {i \in 1..most : content[pos + i] = Newline})

fgets(num) == Open /\ pos < size /\ ReadTo(EndOfLine(num))

fgetc == Open /\ pos < size /\ ReadTo(pos + 1)

Writable == mode \in {"fresh", "write", "spent"}

(* The bytes s at the position, the others are those of c. What lies       *)
(* between the end and the position is not determined.                     *)
Written(c, s) ==
  LET end == pos + Len(s) IN
  /\ end > size => limit = 0 \/ end <= limit
  /\ Len(content') = Max({size, end})
  /\ \A i \in 1..Len(content') :
       /\ i - pos \in DOMAIN s => content'[i] = s[i - pos]
       /\ i - pos \notin DOMAIN s /\ i <= size => content'[i] = c[i]
  /\ pos' = end /\ mode' = "write"

write(s) ==
  /\ Writable
  /\ Written(content, s)
  /\ Quietly /\ UNCHANGED limit

(* A file that becomes longer is filled with zeros.                        *)
Truncated(n) ==
  /\ Writable
  /\ limit = 0 \/ n <= limit
  /\ content' = SubSeq(content \o [i \in 1..n |-> 0], 1, n)
  /\ mode' = "write"
  /\ Quietly /\ UNCHANGED limit

truncate(n) == Truncated(n) /\ pos' = pos

(* Bytes of another file, at the position.                                 *)
copyFrom(s) == IF s = <<>> THEN fails ELSE write(s)

-----------------------------------------------------------------------------
(* What a MemFile does beside. A seek to before the start arrives at the   *)
(* start, or, from the end, at a position that has lost its sign           *)
(* (MemFile.cpp 337-354), from where seeks may lead anywhere near.         *)
Half == Word \div 2
BeforeTheStart == pos >= Half

seekMisses(offset, origin) ==
  /\ Target(offset, origin) \notin 0..Half - 1
  /\ \/ MovesTo(0)
     \/ (origin = "SEEKEND" \/ BeforeTheStart) /\ MovesTo(Target(offset, origin) % Word)

(* A line that ends with the file is read and not returned (405-407).      *)
lastLineLost(num) ==
  Open /\ pos < size /\ EndOfLine(num) = size /\ got' = <<>> /\ Returns(size)

(* At the end one byte more is returned, any (471-472).                    *)
fgetcBehind == Open /\ pos = size /\ Len(got') = 1 /\ Returns(size + 1)

(* truncate does change the position if it is behind the new end (286).    *)
truncateMoves(n) == Truncated(n) /\ pos > n /\ pos' = n

(* copyFrom reads into the buffer of the file that is open for writing, so *)
(* the bytes are at its start, too, or even if they cannot be written      *)
(* (FileObject.cpp 382-383).                                               *)
copyOverStart(s) ==
  /\ mode = "write"
  /\ \/ Written(Over(content, 0, s), s)
     \/ content' = Over(content, 0, s) /\ UNCHANGED <<pos, mode>>
  /\ Quietly /\ UNCHANGED limit

(* At a position that lost its sign, nothing is determined.                *)
writeSomewhere ==
  /\ Writable /\ BeforeTheStart
  /\ Len(content') >= size
  /\ mode' = "write"
  /\ Quietly /\ UNCHANGED limit

(* A call uses memory that is not the file's.                              *)
Anywhere(call) ==
  /\ \/ call = "fread" /\ pos > size
     \/ call = "fgetc" /\ pos = size
     \/ call = "fwrite" /\ (mode = "spent" \/ BeforeTheStart)
     \/ call = "truncate" /\ mode = "spent"
     \/ call = "copyFrom" /\ Writable
  /\ wild' = call
  /\ UNCHANGED <<content, pos, limit, mode, got>>

-----------------------------------------------------------------------------
Origins == {"SEEKCUR", "SEEKEND", "SEEKSET"}

Next ==
  /\ wild = NULL
  /\ \/ \E s \in Data :
          \/ open(s, "read") \/ open(s, "write")
          \/ write(s) \/ copyFrom(s)
     \/ openNothing \/ close \/ rewind \/ fgetc \/ fails
     \/ \E n \in Lengths :
          \/ setMaxSize(n) \/ truncate(n) \/ seek(n) \/ fgets(n)
          \/ \E b \in 1..2 : fread(b, n)
     \/ \E o \in Offsets, origin \in Origins : seekFrom(o, origin)

Divergence ==
  /\ wild = NULL
  /\ \/ \E o \in Offsets, origin \in Origins : seekMisses(o, origin)
     \/ \E n \in Lengths : lastLineLost(n) \/ truncateMoves(n)
     \/ \E s \in Data : copyOverStart(s)
     \/ fgetcBehind \/ writeSomewhere
     \/ \E call \in {"fread", "fgetc", "fwrite", "truncate", "copyFrom"} : Anywhere(call)

Spec == Init /\ [][Next]_vars

=============================================================================
