------------------------------ MODULE MemFile ------------------------------
(***************************************************************************)
(* ppl7::MemFile (src/src/core/MemFile.cpp): a file in memory, that of the *)
(* application or a buffer that grows by pages, and FileObject::copyFrom   *)
(* (src/src/core/FileObject.cpp), which takes the same buffer for itself.  *)
(* The object belongs to one thread and a call is one step; a call that    *)
(* throws before it has changed anything is not seen.  A byte that nobody  *)
(* has written is Unset.                                                   *)
(***************************************************************************)
EXTENDS Integers, Sequences, SequencesExt, FiniteSetsExt

CONSTANTS
  NULL,
  Unset,
  Newline,   (* the byte at which fgets ends                               *)
  Word,      (* 2^64: positions are counted modulo it                      *)
  Page,      (* 8192                                                       *)
  Scratch,   (* COPYBYTES_BUFFERSIZE                                       *)
  MaxAlloc,  (* bound: the system has no memory for a larger buffer        *)
  Data,      (* bound: what is written, copied and opened                  *)
  Lengths,   (* bound: arguments of fread, fgets, truncate and setMaxSize  *)
  Offsets    (* bound: arguments of seek                                   *)

VARIABLES
  file,      (* the members; memory is what it was opened for reading in,  *)
             (* buffer what it owns, MemBase says which of them is the file*)
  got,       (* what the last call returned of the file                    *)
  wild       (* the call that used memory which is not the file's, or NULL *)

vars == <<file, got, wild>>

Init ==
  /\ file = [buffer |-> NULL, memory |-> NULL, MemBase |-> NULL,
             buffersize |-> 0, mysize |-> 0, pos |-> 0, readonly |-> FALSE, maxsize |-> 0]
  /\ got = <<>> /\ wild = NULL

Bytes == IF file.MemBase = "buffer" THEN file.buffer ELSE file.memory
Size(s) == IF s = NULL THEN 0 ELSE Len(s)
Negative(p) == p >= Word \div 2
isOpen == file.MemBase # NULL \/ ~file.readonly

Returns(f, bytes) == file' = f /\ got' = bytes /\ UNCHANGED wild
Becomes(f) == Returns(f, <<>>)
GoesWild(call) == wild' = call /\ UNCHANGED <<file, got>>
MovesTo(p) == Becomes([file EXCEPT !.pos = p])

-----------------------------------------------------------------------------
(* For writing, the buffer is the memory given, which may be none.         *)
open(s, writeable) ==
  LET f == [file EXCEPT !.mysize = Size(s), !.pos = 0, !.readonly = ~writeable] IN
  IF writeable
  THEN Becomes([f EXCEPT !.buffer = s, !.memory = NULL, !.buffersize = Size(s),
                         !.MemBase = IF s = NULL THEN NULL ELSE "buffer"])
  ELSE Becomes([f EXCEPT !.buffer = NULL, !.memory = s, !.buffersize = 0,
                         !.MemBase = IF s = NULL THEN NULL ELSE "memory"])

(* The open for a ByteArrayPtr says nothing of buffersize.                 *)
openByteArray(s) ==
  Becomes([file EXCEPT !.buffer = NULL, !.memory = s, !.MemBase = "memory",
                       !.mysize = Len(s), !.pos = 0, !.readonly = TRUE])

setMaxSize(n) == Becomes([file EXCEPT !.maxsize = n])

(* It says nothing of it either.                                           *)
close ==
  Becomes([file EXCEPT !.buffer = NULL, !.memory = NULL, !.MemBase = NULL,
                       !.mysize = 0, !.pos = 0])

rewind == MovesTo(0)

seek(position) == isOpen /\ position < file.mysize /\ MovesTo(position)

(* From the start and from the end, only what lies behind the end is taken.*)
seekFrom(offset, origin) ==
  LET p == CASE origin = "SEEKCUR" -> (file.pos + offset) % Word
             [] origin = "SEEKEND" -> (file.mysize - offset) % Word
             [] origin = "SEEKSET" -> offset % Word
  IN  /\ isOpen
      /\ \/ origin = "SEEKCUR" /\ p < file.mysize /\ MovesTo(p)
         \/ origin = "SEEKCUR" /\ p >= file.mysize /\ Negative(p) /\ MovesTo(0)
         \/ origin = "SEEKEND" /\ p > file.mysize /\ MovesTo(p)
         \/ origin = "SEEKSET" /\ Negative(p) /\ MovesTo(0)
         \/ origin = "SEEKSET" /\ ~Negative(p) /\ p > file.mysize /\ MovesTo(p)

-----------------------------------------------------------------------------
(* Some elements of a size; a short read throws when pos has moved on.     *)
fread(size, nmemb) ==
  LET pos == file.pos
      by == IF (pos + nmemb * size) % Word > file.mysize
            THEN ((file.mysize - pos) % Word) \div size ELSE nmemb
      end == pos + by * size
  IN  /\ file.MemBase # NULL
      /\ IF end > Len(Bytes) THEN GoesWild("fread")
         ELSE Returns([file EXCEPT !.pos = end], SubSeq(Bytes, pos + 1, end))

(* num - 1 bytes at most, to the end of the line.  At the end of the file  *)
(* the exception comes in place of the line.                               *)
fgets(num) ==
  LET pos == file.pos
      most == Min({num - 1, file.mysize - pos})
      ends == {i \in 1..most : Bytes[pos + i] = Newline}
      end == pos + Min({most} \cup ends)
  IN  /\ file.MemBase # NULL /\ pos < file.mysize
      /\ Returns([file EXCEPT !.pos = end],
                 IF end = file.mysize THEN <<>> ELSE SubSeq(Bytes, pos + 1, end))

(* The byte behind the end, too.                                           *)
fgetc ==
  LET pos == file.pos IN
  /\ file.MemBase # NULL /\ pos <= file.mysize
  /\ IF pos = Len(Bytes) THEN GoesWild("fgetc")
     ELSE Returns([file EXCEPT !.pos = pos + 1], <<Bytes[pos + 1]>>)

-----------------------------------------------------------------------------
NewSize(size) == (((size + Page - 1) % Word) \div Page) * Page

(* resizeBuffer may throw for the limit, or for lack of memory.            *)
MayResize(f, size) ==
  /\ f.maxsize = 0 \/ size <= f.maxsize
  /\ NewSize(size) > f.buffersize => NewSize(size) <= MaxAlloc

Resized(mem, n) == SubSeq((IF mem = NULL THEN <<>> ELSE mem) \o [i \in 1..n |-> Unset], 1, n)

(* A mistake: nothing is done when the buffer is large enough.             *)
resizeBufferOnly(f, size) ==
  IF NewSize(size) > f.buffersize
  THEN [f EXCEPT !.buffer = Resized(@, NewSize(size)), !.MemBase = "buffer",
                 !.buffersize = NewSize(size), !.mysize = size, !.pos = Min({@, size})]
  ELSE f

resizeBuffer(f, size) ==
  LET g == [f EXCEPT !.mysize = size, !.pos = Min({@, size})] IN
  IF NewSize(size) > f.buffersize
  THEN [g EXCEPT !.buffer = Resized(@, NewSize(size)), !.MemBase = "buffer",
                 !.buffersize = NewSize(size)]
  ELSE g

(* Is there memory for n bytes at p?                                       *)
HasRoom(f, p, n) == f.MemBase = "buffer" /\ p + n <= Len(f.buffer)

(* f with the bytes s at p.                                                *)
Put(f, p, s) ==
  [f EXCEPT !.buffer = SubSeq(@, 1, p) \o s \o SubSeq(@, p + Len(s) + 1, Len(@))]

(* The end of a write to f, and f with room for it.                        *)
EndOf(f, s) == (f.pos + Len(s)) % Word
Grows(f, s) == EndOf(f, s) > f.mysize
ForWrite(f, s) == IF Grows(f, s) THEN resizeBuffer(f, EndOf(f, s)) ELSE f
MayWrite(f, s) == ~f.readonly /\ (Grows(f, s) => MayResize(f, EndOf(f, s)))

WriteTo(call, f, s) ==
  LET g == ForWrite(f, s) IN
  IF ~HasRoom(g, g.pos, Len(s)) THEN GoesWild(call)
  ELSE Becomes([Put(g, g.pos, s) EXCEPT !.pos = g.pos + Len(s)])

(* fputs and fputc are fwrite.                                             *)
fwrite(s) == MayWrite(file, s) /\ WriteTo("fwrite", file, s)

truncate(length) ==
  LET size == file.mysize
      f == resizeBuffer(file, length)
      zeros == [i \in 1..length - size |-> 0]
  IN  /\ ~file.readonly /\ length # size /\ MayResize(file, length)
      /\ \/ length < size /\ Becomes(f)
         \/ /\ length > size
            /\ IF ~HasRoom(f, size, length - size) THEN GoesWild("truncate")
               ELSE Becomes(Put(f, size, zeros))

(* The bytes s of another file are read into the buffer, which is the file *)
(* itself when it is open for writing, and written from there: realloc may *)
(* have moved it by then.                                                  *)
copyFrom(s) ==
  LET f == IF file.buffer = NULL
           THEN [file EXCEPT !.buffer = [i \in 1..Scratch |-> Unset]] ELSE file
      g == Put(f, 0, s)
      moves == Grows(g, s) /\ NewSize(EndOf(g, s)) > g.buffersize
  IN  /\ Len(s) <= Scratch
      /\ IF s = <<>> THEN Becomes(f)
         ELSE IF Len(s) > Len(f.buffer) THEN GoesWild("copyFrom")
         ELSE \/ ~MayWrite(g, s) /\ Becomes(g)
              \/ MayWrite(g, s) /\ WriteTo("copyFrom", g, s)
              \/ MayWrite(g, s) /\ moves /\ GoesWild("copyFrom")

Next ==
  /\ wild = NULL
  /\ \/ \E s \in Data \ {<<>>} :
          (\E w \in BOOLEAN : open(s, w)) \/ openByteArray(s) \/ fwrite(s)
     \/ \E w \in BOOLEAN : open(NULL, w)
     \/ \E s \in Data : copyFrom(s)
     \/ \E n \in Lengths : setMaxSize(n) \/ truncate(n) \/ seek(n)
     \/ \E n \in Lengths \ {0} : fgets(n) \/ \E size \in 1..2 : fread(size, n)
     \/ \E o \in Offsets, origin \in {"SEEKCUR", "SEEKEND", "SEEKSET"} : seekFrom(o, origin)
     \/ rewind \/ close \/ fgetc

-----------------------------------------------------------------------------
(* The bytes of the file, and what may be done with it.                    *)
Content == IF file.MemBase = NULL THEN <<>> ELSE SubSeq(Bytes, 1, file.mysize)
Mode ==
  IF file.MemBase # NULL THEN IF file.readonly THEN "read" ELSE "write"
  ELSE IF file.readonly THEN "shut"
  ELSE IF file.buffersize = 0 THEN "fresh" ELSE "spent"

(* Read by read and write by write it is the file ByteFile describes: what *)
(* is read is what was written there last, through every growth of the     *)
(* buffer and every change of the size, a seek leads where it was asked to,*)
(* and each call does what is documented of it or, of what ByteFile names  *)
(* beside, what is named there of this call.                               *)
Plain == INSTANCE ByteFile WITH
  content <- Content, mode <- Mode, pos <- file.pos, limit <- file.maxsize

Calls ==
  /\ \A n \in Lengths :
       /\ seek(n) => Plain!seek(n)
       /\ truncate(n) =>
            Plain!truncate(n) \/ Plain!truncateMoves(n) \/ Plain!Anywhere("truncate")
  /\ \A n \in Lengths \ {0} :
       /\ fgets(n) => Plain!fgets(n) \/ Plain!lastLineLost(n)
       /\ \A b \in 1..2 : fread(b, n) => Plain!fread(b, n) \/ Plain!Anywhere("fread")
  /\ \A o \in Offsets, origin \in Plain!Origins :
       seekFrom(o, origin) => Plain!seekFrom(o, origin) \/ Plain!seekMisses(o, origin)
  /\ fgetc => Plain!fgetc \/ Plain!fgetcBehind \/ Plain!Anywhere("fgetc")
  /\ \A s \in Data \ {<<>>} :
       fwrite(s) => Plain!write(s) \/ Plain!writeSomewhere \/ Plain!Anywhere("fwrite")
  /\ \A s \in Data :
       copyFrom(s) => \/ Plain!copyFrom(s) \/ Plain!copyOverStart(s) \/ Plain!fails
                      \/ Plain!writeSomewhere \/ Plain!Anywhere("copyFrom")

ImplementsByteFile ==
  /\ Plain!Init
  /\ [][vars' # vars => (Plain!Next \/ Plain!Divergence) /\ Calls]_(Plain!vars)

=============================================================================
