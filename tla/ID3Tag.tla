------------------------------- MODULE ID3Tag -------------------------------
(***************************************************************************)
(* ppl7::ID3Tag (src/src/audio/ID3Tag.cpp), what it does to files: load,   *)
(* and save for MP3, AIFF and WAVE, with IdentMPEG (src/src/audio/Mp3.cpp).*)
(* The object belongs to one thread, but each of its file operations may   *)
(* fail, and the process may end between any two of them.                  *)
(*                                                                         *)
(* A file is a sequence of cells <<kind, number>>: a byte of sound, a zero,*)
(* a frame, the header of a tag, of a chunk or of the whole file.  The     *)
(* first byte of an ID3v1 tag is a cell and the other 127 are another one. *)
(* A write happens or not.  The first byte of the sound is what IdentMPEG  *)
(* looks for; nothing else is taken for it.                                *)
(***************************************************************************)
EXTENDS Integers, Sequences, SequencesExt, FiniteSetsExt

CONSTANTS
  NULL,
  PaddingSize, PaddingSpace, MaxPaddingSpace,
  Files,      (* bound: the files that are given                           *)
  Frames,     (* bound: the frames that are added: 0 is one without data   *)
  MaxFrames,  (* bound: as many as are added to                            *)
  MaxSaves,   (* bound: calls of save                                      *)
  MaxFaults   (* bound: exceptions of the file system and crashes          *)

VARIABLES
  main,       (* the file Filename, or NULL                                *)
  tmp,        (* the file Filename.rename.tmp, or NULL                     *)
  frames,     (* the object's frames                                       *)
  myAudioFormat,
  pc,         (* where save is                                             *)
  m,          (* its local variables, and whether it met a temporary file  *)
  result, saves, faults

vars == <<main, tmp, frames, myAudioFormat, pc, m, result, saves, faults>>
files == <<main, tmp>>
object == <<frames, myAudioFormat>>
bounds == <<saves, faults>>

Locals == [start |-> 0, end |-> 0, rest |-> 0, qp |-> 0, tp |-> 0, formsize |-> 0,
           stale |-> FALSE]

Init ==
  /\ main = NULL /\ tmp = NULL
  /\ frames = <<>> /\ myAudioFormat = "AF_UNKNOWN"
  /\ pc = "idle" /\ m = Locals /\ result = "none" /\ saves = 0 /\ faults = 0

Zero == <<"zero", 0>>
Zeros(n) == [i \in 1..n |-> Zero]
T == <<"TAG", 1>>
V1 == <<T, <<"TAG", 2>>>>

(* The file c with the cells s behind its first n ones.                    *)
Put(c, n, s) ==
  [i \in 1..Max({Len(c), n + Len(s)}) |->
     IF i - n \in DOMAIN s THEN s[i - n] ELSE IF i <= Len(c) THEN c[i] ELSE Zero]

(* n cells of c behind the first p, or as many as there are.               *)
Cells(c, p, n) == SubSeq(c, p + 1, Min({p + n, Len(c)}))

-----------------------------------------------------------------------------
(* Both tags are empty if there are no frames.                             *)
TagV2(fs) ==
  IF fs = <<>> THEN <<>>
  ELSE <<<<"ID3", Len(fs)>>>> \o [i \in DOMAIN fs |-> <<"frame", fs[i]>>]

TagV1(fs) == IF fs = <<>> THEN <<>> ELSE V1

(* The frames of the tag behind the first p cells: to the first that has   *)
(* no data.                                                                *)
FramesAt(c) ==
  [p \in 0..Len(c) - 1 |->
     LET fs == Cells(c, p + 1, c[p + 1][2])
         stop == {i \in DOMAIN fs : fs[i][1] # "frame" \/ fs[i][2] = 0}
         n == IF stop = {} THEN Len(fs) ELSE Min(stop) - 1
     IN  IF c[p + 1][1] # "ID3" THEN <<>> ELSE [i \in 1..n |-> fs[i][2]]]

(* Where the sound of an MP3 file begins, and mpg.end: the last byte of    *)
(* the file, or the first one of its last ID3v1 tag, or of the one before. *)
Start(c) ==
  LET from == IF c[1][1] = "ID3" THEN c[1][2] + 1 ELSE 0
      sync == {i \in from..Len(c) - 1 : c[i + 1] = <<"sound", 1>>}
  IN  IF sync = {} THEN -1 ELSE Min(sync)

TagIsAt(c, i) == i >= 0 /\ Cells(c, i, 2) = V1

End(c) ==
  LET last == Len(c) - 1
      e == IF TagIsAt(c, last - 1) THEN last - 1 ELSE last
  IN  IF TagIsAt(c, e - 2) THEN e - 2 ELSE e

(* The chunks of an AIFF or WAVE file: the first cell is the file's header,*)
(* a chunk has its size in the one at p, and a cell more if that is odd.   *)
(* What is not a header is read as one; zeros as that of an empty chunk.   *)
Chunked(c) == c[1][1] \in {"AIFF", "WAVE"}
IsHeader(cell) == cell[1] \in {"chunk", "id3"}
ChunkSize(c, p) ==
  IF IsHeader(c[p + 1]) THEN c[p + 1][2] ELSE IF c[p + 1] = Zero THEN 0 ELSE Len(c)
Physical(n) == 1 + n + (n % 2)

(* All who look at chunks do that from one to the next, and end in front   *)
(* of the last cell.                                                       *)
More(c, p) == p + 1 < Len(c)
NextChunk(c, p) == p + Physical(ChunkSize(c, p))
Places(c) == 1..2 * Len(c) + 2

IsTag(c, p) == c[p + 1][1] = "id3"

(* findId3Tag; NULL if there is none.                                      *)
TagAt(c) ==
  LET find[p \in Places(c)] ==
        IF ~More(c, p) THEN NULL
        ELSE IF IsTag(c, p) THEN p + 1 ELSE find[NextChunk(c, p)]
  IN  IF Chunked(c) THEN find[1] ELSE 0

Tags(c) == IF TagAt(c) = NULL THEN <<>> ELSE FramesAt(c)[TagAt(c)]

(* The size in an AIFF file's header may be too large by some bytes.       *)
identAudioFormat(c) ==
  IF c[1][1] = "AIFF" /\ c[1][2] <= Len(c) THEN "AF_AIFF"
  ELSE IF c[1][1] = "WAVE" /\ c[1][2] <= Len(c) - 1 THEN "AF_WAVE"
  ELSE IF ~Chunked(c) /\ Start(c) >= 0 THEN "AF_MP3" ELSE "AF_UNKNOWN"

-----------------------------------------------------------------------------
(* Somebody puts an audio file there.                                      *)
given ==
  /\ pc = "idle" /\ main = NULL /\ tmp = NULL
  /\ main' \in Files
  /\ UNCHANGED <<tmp, object, pc, m, result, bounds>>

(* Without a file, the object stays as it is.                              *)
load ==
  /\ pc = "idle"
  /\ \/ main = NULL /\ result' = "failed" /\ UNCHANGED object
     \/ /\ main # NULL
        /\ myAudioFormat' = identAudioFormat(main)
        /\ frames' = IF myAudioFormat' = "AF_UNKNOWN" THEN <<>> ELSE Tags(main)
        /\ result' = IF myAudioFormat' = "AF_UNKNOWN" THEN "failed" ELSE "loaded"
  /\ UNCHANGED <<files, pc, m, bounds>>

Edits == pc = "idle" /\ result' = "edited" /\ UNCHANGED <<files, pc, m, bounds>>

addFrame(f) ==
  /\ Edits /\ Len(frames) < MaxFrames
  /\ frames' = Append(frames, f) /\ UNCHANGED myAudioFormat

removeFrame(i) ==
  /\ Edits /\ frames' = RemoveAt(frames, i) /\ UNCHANGED myAudioFormat

clearTags == Edits /\ frames' = <<>> /\ UNCHANGED myAudioFormat

clear == Edits /\ frames' = <<>> /\ myAudioFormat' = "AF_UNKNOWN"

(* A file that has the rest of another one behind its end is not saved to  *)
(* again.                                                                  *)
HasTail(c) == c # NULL /\ Chunked(c) /\ c[1][2] + 1 < Len(c)

Goes(there) == pc' = there /\ UNCHANGED <<result, bounds>>
Returns(r) == pc' = "idle" /\ m' = Locals /\ result' = r /\ UNCHANGED bounds
Throws == Returns("failed") /\ UNCHANGED files

save ==
  /\ pc = "idle" /\ saves < MaxSaves /\ ~HasTail(main)
  /\ saves' = saves + 1 /\ UNCHANGED <<files, object, faults>>
  /\ \/ /\ myAudioFormat = "AF_UNKNOWN"
        /\ result' = "failed" /\ UNCHANGED <<pc, m>>
     \/ /\ myAudioFormat # "AF_UNKNOWN"
        /\ pc' = IF myAudioFormat = "AF_MP3" THEN "openTmp" ELSE "open"
        /\ m' = [Locals EXCEPT !.stale = tmp # NULL] /\ UNCHANGED result

-----------------------------------------------------------------------------
(* saveMP3.  The temporary file is emptied before the other one is opened. *)
openTmp ==
  /\ pc = "openTmp" /\ tmp' = <<>> /\ Goes("openMP3")
  /\ UNCHANGED <<main, object, m>>

(* Does a tag of n cells fit in front of the sound?                        *)
FitsMP3(n, start) == n > 0 /\ n <= start /\ start - n < MaxPaddingSpace

openMP3 ==
  LET n == Len(TagV2(frames))
      start == Start(main)
      here == FitsMP3(n, start)
      rest == CASE n = 0 -> 0
                [] here -> start - n
                [] ~here /\ n < PaddingSize -> PaddingSize - n
                [] OTHER -> PaddingSpace
  IN  /\ pc = "openMP3" /\ UNCHANGED object
      /\ \/ main = NULL /\ Throws
         \/ /\ main # NULL
            /\ m' = [m EXCEPT !.start = start, !.end = End(main), !.rest = rest]
            /\ Goes(IF here THEN "tagMP3" ELSE "copyMP3")
            /\ UNCHANGED files

tagMP3 ==
  /\ pc = "tagMP3" /\ main' = Put(main, 0, TagV2(frames))
  /\ Goes("zerosMP3") /\ UNCHANGED <<tmp, object, m>>

zerosMP3 ==
  /\ pc = "zerosMP3" /\ main' = Put(main, Len(TagV2(frames)), Zeros(m.rest))
  /\ Goes("v1MP3") /\ UNCHANGED <<tmp, object, m>>

(* There are frames, or the file would be copied.                          *)
v1MP3 ==
  /\ pc = "v1MP3" /\ main' = Put(main, m.end, TagV1(frames))
  /\ Goes("dropTmp") /\ UNCHANGED <<tmp, object, m>>

dropTmp ==
  /\ pc = "dropTmp" /\ tmp' = NULL
  /\ Returns("saved") /\ UNCHANGED <<main, object>>

(* Four writes: nobody will read what some of them leave.                  *)
copyMP3 ==
  /\ pc = "copyMP3"
  /\ tmp' = TagV2(frames) \o Zeros(m.rest)
            \o Cells(main, m.start, m.end - m.start + 1) \o TagV1(frames)
  /\ Goes("remove") /\ UNCHANGED <<main, object, m>>

-----------------------------------------------------------------------------
(* A mistake: only the upper limit.                                        *)
FitsChunkAnyhow(n, room) == n > 0 /\ room <= n + n \div 10 + PaddingSize

(* saveAiff and saveWave.  Does a tag of n cells fit into a chunk of this  *)
(* size, which is not much too large?                                      *)
FitsChunk(n, room) ==
  /\ n > 0
  /\ IF myAudioFormat = "AF_AIFF" THEN room > n ELSE room >= n
  /\ room <= n + n \div 10 + PaddingSize

open ==
  LET p == TagAt(main) - 1
      n == Len(TagV2(frames))
      fits == TagAt(main) # NULL /\ FitsChunk(n, ChunkSize(main, p))
  IN  /\ pc = "open" /\ UNCHANGED <<files, object>>
      /\ IF main = NULL THEN Returns("failed")
         ELSE IF fits
         THEN m' = [m EXCEPT !.qp = p, !.rest = ChunkSize(main, p) - n] /\ Goes("tag")
         ELSE Goes("touch") /\ UNCHANGED m

tag ==
  /\ pc = "tag" /\ main' = Put(main, m.qp + 1, TagV2(frames))
  /\ Goes("zeros") /\ UNCHANGED <<tmp, object, m>>

zeros ==
  /\ pc = "zeros" /\ main' = Put(main, m.qp + 1 + Len(TagV2(frames)), Zeros(m.rest))
  /\ Returns("saved") /\ UNCHANGED <<tmp, object>>

(* A temporary file that is there already keeps its content.               *)
touch ==
  /\ pc = "touch" /\ tmp' = IF tmp = NULL THEN <<>> ELSE tmp
  /\ Goes("header") /\ UNCHANGED <<main, object, m>>

header ==
  /\ pc = "header" /\ tmp' = Put(tmp, 0, Cells(main, 0, 1))
  /\ m' = [m EXCEPT !.qp = 1, !.tp = 1]
  /\ Goes("chunk") /\ UNCHANGED <<main, object>>

(* The next chunk is copied if it is not the tag's.                        *)
chunk ==
  LET n == Physical(ChunkSize(main, m.qp))
      copied == IF IsTag(main, m.qp) THEN 0 ELSE n
  IN  /\ pc = "chunk" /\ UNCHANGED <<main, object>>
      /\ \/ /\ More(main, m.qp)
            /\ tmp' = IF IsTag(main, m.qp) THEN tmp ELSE Put(tmp, m.tp, Cells(main, m.qp, n))
            /\ m' = [m EXCEPT !.qp = @ + n, !.tp = @ + copied, !.formsize = @ + copied]
            /\ Goes("chunk")
         \/ ~More(main, m.qp) /\ Goes("newTag") /\ UNCHANGED <<tmp, m>>

(* The size of the new chunk for a tag of n cells: an even one.            *)
id3Size(n) ==
  LET room == IF n + PaddingSpace < PaddingSize THEN PaddingSize ELSE n + PaddingSpace
  IN  room + (room % 2)

newTag ==
  LET t == TagV2(frames)
      room == id3Size(Len(t))
  IN  /\ pc = "newTag" /\ Goes("size") /\ UNCHANGED <<main, object>>
      /\ \/ t = <<>> /\ UNCHANGED <<tmp, m>>
         \/ /\ t # <<>>
            /\ tmp' = Put(tmp, m.tp, <<<<"id3", room>>>> \o t \o Zeros(room - Len(t)))
            /\ m' = [m EXCEPT !.formsize = @ + room + 1]

size ==
  /\ pc = "size" /\ tmp' = Put(tmp, 0, <<<<main[1][1], m.formsize>>>>)
  /\ Goes("remove") /\ UNCHANGED <<main, object, m>>

(* An exception while chunks are copied.                                   *)
discard ==
  /\ pc = "discard" /\ tmp' = NULL
  /\ Returns("failed") /\ UNCHANGED <<main, object>>

-----------------------------------------------------------------------------
(* All of them: the temporary file takes the place of the other one.       *)
remove ==
  /\ pc = "remove" /\ main' = NULL
  /\ Goes("rename") /\ UNCHANGED <<tmp, object, m>>

rename ==
  /\ pc = "rename" /\ main' = tmp /\ tmp' = NULL
  /\ Returns("saved") /\ UNCHANGED object

(* A file operation throws.  Whatever happens in the existing file, the    *)
(* chunks are copied then.                                                 *)
fail ==
  /\ pc # "idle" /\ faults < MaxFaults /\ faults' = faults + 1
  /\ UNCHANGED <<files, object, saves>>
  /\ CASE pc \in {"tag", "zeros"} -> pc' = "touch" /\ UNCHANGED <<m, result>>
       [] pc \in {"header", "chunk", "newTag", "size"} ->
            pc' = "discard" /\ UNCHANGED <<m, result>>
       [] OTHER -> pc' = "idle" /\ m' = Locals /\ result' = "failed"

(* The process ends, and there will be a new object.                       *)
crash ==
  /\ faults < MaxFaults /\ faults' = faults + 1
  /\ frames' = <<>> /\ myAudioFormat' = "AF_UNKNOWN"
  /\ pc' = "idle" /\ m' = Locals /\ result' = "none"
  /\ UNCHANGED <<files, saves>>

Next ==
  \/ given \/ load \/ clearTags \/ clear \/ save
  \/ \E f \in Frames : addFrame(f)
  \/ \E i \in DOMAIN frames : removeFrame(i)
  \/ openTmp \/ openMP3 \/ tagMP3 \/ zerosMP3 \/ v1MP3 \/ dropTmp \/ copyMP3
  \/ open \/ tag \/ zeros \/ touch \/ header \/ chunk \/ newTag \/ size \/ discard
  \/ remove \/ rename \/ fail \/ crash

-----------------------------------------------------------------------------
(* The parts of the sound: an MP3 file has one, between the tags; of the   *)
(* others it is every chunk but the tag's.                                 *)
Sound(c) ==
  LET from[p \in Places(c)] ==
        IF ~More(c, p) THEN <<>>
        ELSE (IF IsTag(c, p) THEN <<>> ELSE <<Cells(c, p + 1, ChunkSize(c, p))>>)
             \o from[NextChunk(c, p)]
      stacks == {n \in 0..3 : \A j \in 1..n : TagIsAt(c, Len(c) - 2 * j)}
  IN  IF Chunked(c) THEN from[1]
      ELSE <<SubSeq(c, Start(c) + 1, Len(c) - 2 * Max(stacks))>>

Content == IF main # NULL THEN main ELSE IF tmp # NULL THEN tmp ELSE <<>>

(* Whatever fails and wherever the process ends, the files are those       *)
(* TaggedFile describes: no call loses the sound but a second one for an   *)
(* MP3 file that is left under its temporary name; the tags are those from *)
(* before or the new ones; and a call that returns has saved them.         *)
Tagged == INSTANCE TaggedFile WITH
  Kinds <- {"MP3", "AIFF", "WAVE"}, Slip <- T,
  place <- IF main # NULL THEN "there" ELSE IF tmp = NULL THEN "none"
           ELSE IF tmp = <<>> THEN "lost" ELSE "aside",
  kind <- IF Content = <<>> THEN "none" ELSE IF Chunked(Content) THEN Content[1][1] ELSE "MP3",
  sound <- IF Content = <<>> THEN <<>> ELSE Sound(Content),
  tags <- IF Content = <<>> THEN <<>> ELSE Tags(Content),
  readable <- Content # <<>> /\ identAudioFormat(Content) # "AF_UNKNOWN",
  litter <- IF pc = "idle" THEN tmp # NULL ELSE m.stale,
  saving <- pc # "idle"

ImplementsTaggedFile == Tagged!Spec

=============================================================================
