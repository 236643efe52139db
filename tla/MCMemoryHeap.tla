---------------------------- MODULE MCMemoryHeap ----------------------------
(* Objects that belong to one thread, one in each behaviour: the heap with *)
(* three addresses for its blocks, a group of memory blocks, an array, an  *)
(* associative array, a file in memory, the tag of an audio file, a string. *)
EXTENDS Objects, TLC

VARIABLES
  subject,
  root,
  main, tmp, frames, myAudioFormat, save, m, result, saves, faults,
  str, last, returned, left

tagged == <<main, tmp, frames, myAudioFormat, save, m, result, saves, faults>>
string == <<str, last, returned, left>>

MCFreed == -1
MCOthers == {<<>>, <<NULL>>, <<1, NULL>>, <<NULL, 2>>, <<0>>}

name == <<"name", 1>>
new == <<"[]", 0>>
number(n) == <<"number", n>>
AssocOf(f, n) == [is |-> "array", text |-> <<>>, tree |-> f, maxint |-> n]
TextOf(t) == [is |-> "text", text |-> t, tree |-> <<>>, maxint |-> 0]

Assoc == INSTANCE AssocArray WITH
  Word <- 8, Texts <- {<<1>>}, MaxText <- 2, MaxNodes <- 3,
  Paths <- {<<name>>, <<new>>, <<number(1)>>, <<number(-1)>>, <<name, new>>,
            <<name, number(-2)>>, <<new, name>>},
  Others <- {AssocOf(<<>>, 0),
             AssocOf([k \in {name} |->
               AssocOf([l \in {number(1), number(-1)} |-> TextOf(<<2>>)], 2)], 0)}

(* A byte that is 1 ends a line.                                           *)
MCUnset == -1
MCData == {<<>>, <<1>>, <<2, 1>>, <<2, 2, 2>>}
MCOffsets == {-2, -1, 1, 4}

(* Two MP3 files, one with room behind its tag, one with two ID3v1 tags;   *)
(* chunks behind the tag's and an odd one at the end, without its last cell.*)
sound(n) == <<"sound", n>>
AudioFiles ==
  {<<<<"ID3", 1>>, <<"frame", 2>>, <<"zero", 0>>, sound(1), sound(2), sound(3)>>,
   <<<<"ID3", 4>>, <<"frame", 2>>, <<"frame", 2>>, <<"frame", 1>>, <<"frame", 1>>,
     sound(1), sound(2), <<"TAG", 1>>, <<"TAG", 2>>, <<"TAG", 1>>, <<"TAG", 2>>>>,
   <<<<"AIFF", 10>>, <<"chunk", 2>>, sound(1), sound(2),
     <<"id3", 4>>, <<"ID3", 2>>, <<"frame", 2>>, <<"frame", 1>>, <<"zero", 0>>,
     <<"chunk", 1>>, sound(3)>>,
   <<<<"WAVE", 7>>, <<"id3", 2>>, <<"ID3", 1>>, <<"frame", 2>>,
     <<"chunk", 3>>, sound(1), sound(2), sound(3)>>}

Tag == INSTANCE ID3Tag WITH
  pc <- save, PaddingSize <- 3, PaddingSpace <- 1, MaxPaddingSpace <- 3,
  Files <- AudioFiles, Frames <- {0, 1}, MaxFrames <- 2, MaxSaves <- 2, MaxFaults <- 2

(* 1 and 4 are a letter, 2 is a blank, 3 the backslash; nobody can convert 5.*)
Str == INSTANCE String WITH
  undefined <- left, All <- -1, Unset <- -1, Chunk <- 4, Slack <- 2, Wide <- 2,
  Blanks <- {2}, Backslash <- 3, Foreign <- 5, Upper <- <<4, 2, 3, 4>>, Lower <- <<1, 2, 3, 1>>,
  Words <- {<<>>, <<1>>, <<3>>, <<1, 1>>, <<1, 2>>}, Wides <- {<<>>, <<4>>, <<4, 5>>, <<5>>},
  Numbers <- {0, 1, 2}, MaxLen <- 3

ObjectsInit ==
  /\ subject \in
       {"MemoryHeap", "MemoryGroup", "Array", "AssocArray", "MemFile", "ID3Tag", "String"}
  /\ Init /\ Group!Init /\ Arr!Init /\ Assoc!Init /\ Mem!Init /\ Tag!Init /\ Str!Init

ObjectsNext ==
  /\ UNCHANGED subject
  /\ \/ subject = "MemoryHeap" /\ Next
          /\ UNCHANGED <<group, arrays, root, memfile, tagged, string>>
     \/ subject = "MemoryGroup" /\ Group!Next
          /\ UNCHANGED <<vars, arrays, root, memfile, tagged, string>>
     \/ subject = "Array" /\ Arr!Next
          /\ UNCHANGED <<vars, group, root, memfile, tagged, string>>
     \/ subject = "AssocArray" /\ Assoc!Next
          /\ UNCHANGED <<vars, group, arrays, memfile, tagged, string>>
     \/ subject = "MemFile" /\ Mem!Next
          /\ UNCHANGED <<vars, group, arrays, root, tagged, string>>
     \/ subject = "ID3Tag" /\ Tag!Next
          /\ UNCHANGED <<vars, group, arrays, root, memfile, string>>
     \/ subject = "String" /\ Str!Next
          /\ UNCHANGED <<vars, group, arrays, root, memfile, tagged>>

ObjectsSpec ==
  /\ ObjectsInit
  /\ [][ObjectsNext]_<<subject, vars, group, arrays, root, memfile, tagged, string>>
  /\ WF_vars(Step)

(* An AssocArray is the tree that KeyTree describes.                       *)
ImplementsKeyTree == Assoc!ImplementsKeyTree

(* The files of an ID3Tag are those that TaggedFile describes.             *)
ImplementsTaggedFile == Tag!ImplementsTaggedFile

(* A String is the text that Text describes.                               *)
ImplementsText == Str!ImplementsText

=============================================================================
