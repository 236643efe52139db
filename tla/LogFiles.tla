------------------------------ MODULE LogFiles ------------------------------
(***************************************************************************)
(* The log files of ppl7::Logger (src/src/core/Logger.cpp): one File for   *)
(* each priority, and the directory checkRotate renames files in.  A file  *)
(* is a sequence of lines; renamed or removed, it keeps its lines as long  *)
(* as a File has it open.                                                  *)
(*                                                                         *)
(* The directory has, for every name, the file itself (generation 0) and   *)
(* the generations .1, .2, ... checkRotate makes of it.                    *)
(***************************************************************************)
EXTENDS Integers, Sequences, FiniteSets, SequencesExt

CONSTANTS
  Prios,        (* the priorities that may get a log file                  *)
  Names,        (* the file names                                          *)
  Generations,  (* the argument of setLogRotate                            *)
  Inodes,       (* bound: the files there can be                           *)
  NULL

(* There can be a file for each priority and each generation of a name.    *)
ASSUME LogFilesAssumption ==
  /\ IsFiniteSet(Prios) /\ IsFiniteSet(Names) /\ IsFiniteSet(Inodes)
  /\ Generations \in Nat /\ Generations > 1
  /\ NULL \notin Names \cup Inodes
  /\ Cardinality(Inodes) >= Cardinality(Prios) + Cardinality(Names) * (Generations + 1)

VARIABLES
  logff,        (* the file each priority has open, or NULL                *)
  logfilename,  (* the name it was opened with last                        *)
  dir,          (* dir[n][g]: generation g of the name n, or NULL          *)
  content,      (* the lines of a file                                     *)
  put,          (* put[n]: every line written to a file opened as n        *)
  users         (* the priorities that have opened n                       *)

files == <<logff, logfilename, dir, content, put, users>>

isOpen(p) == logff[p] # NULL
(* File::filename: close() sets it to the empty one.                       *)
filename(p) == IF isOpen(p) THEN logfilename[p] ELSE NULL
size(p) == Len(content[logff[p]])

InUse == {logff[p] : p \in Prios} \cup UNION {{dir[n][g] : g \in DOMAIN dir[n]} : n \in Names}

(* fopen with "a": the file of that name, or a new one.                    *)
Open(p, n) ==
  LET new == CHOOSE f \in Inodes \ InUse : TRUE
      f == IF dir[n][0] = NULL THEN new ELSE dir[n][0]
  IN  /\ logff' = [logff EXCEPT ![p] = f]
      /\ dir' = [dir EXCEPT ![n][0] = f]
      /\ content' = IF dir[n][0] = NULL THEN [content EXCEPT ![f] = <<>>] ELSE content
      /\ users' = [users EXCEPT ![n] = @ \cup {p}]
      /\ UNCHANGED put

Close(p) ==
  /\ logff' = [logff EXCEPT ![p] = NULL]
  /\ UNCHANGED <<logfilename, dir, content, put, users>>

(* puts and flush.                                                         *)
Puts(p, line) ==
  /\ content' = [content EXCEPT ![logff[p]] = Append(@, line)]
  /\ put' = [put EXCEPT ![logfilename[p]] = Append(@, line)]
  /\ UNCHANGED <<logff, logfilename, dir, users>>

Unlink(n, g) ==
  /\ dir' = [dir EXCEPT ![n][g] = NULL]
  /\ UNCHANGED <<logff, logfilename, content, put, users>>

(* One turn of the loop of checkRotate: what is generation g is removed,   *)
(* generation g - 1 takes its name.                                        *)
Shift(n, g) ==
  /\ dir' = [dir EXCEPT ![n][g] = dir[n][g - 1], ![n][g - 1] = NULL]
  /\ UNCHANGED <<logff, logfilename, content, put, users>>

-----------------------------------------------------------------------------
Lines(f) == IF f = NULL THEN <<>> ELSE content[f]

(* What is left of the name n, from the oldest generation to the file.     *)
OnDisk(n) == FlattenSeq([k \in 1..Generations + 1 |-> Lines(dir[n][Generations + 1 - k])])

=============================================================================
