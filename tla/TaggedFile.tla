----------------------------- MODULE TaggedFile -----------------------------
(***************************************************************************)
(* What a ppl7::ID3Tag is to its application: an audio file with a sound   *)
(* and tags, and an object with frames that are loaded from the file and   *)
(* saved to it.  At every moment at which the process may end, the sound   *)
(* is in the file or in its temporary copy, and the tags are the old ones  *)
(* or the new ones.                                                        *)
(***************************************************************************)
EXTENDS Integers, Sequences, SequencesExt, FiniteSetsExt

CONSTANTS Kinds, Slip

VARIABLES
  place,     (* "none", "there", "aside" under the temporary name, "lost"  *)
  kind,      (* of the file                                                *)
  sound,     (* one sequence for each part of the sound                    *)
  tags,
  readable,  (* do the methods know its format?                            *)
  frames,
  litter,    (* a temporary file was left behind when saving began         *)
  saving,
  result

vars == <<place, kind, sound, tags, readable, frames, litter, saving, result>>
content == <<place, kind, sound, tags, readable>>

Init ==
  /\ place = "none" /\ kind = "none" /\ sound = <<>> /\ tags = <<>> /\ ~readable
  /\ frames = <<>> /\ ~litter /\ ~saving /\ result = "none"

(* The frames in front of the first one without data: the others cannot be *)
(* loaded again.                                                           *)
Kept(fs) ==
  LET empty == {i \in DOMAIN fs : fs[i] = 0} IN
  IF empty = {} THEN fs ELSE SubSeq(fs, 1, Min(empty) - 1)

(* Somebody puts an audio file there.                                      *)
given ==
  /\ place = "none" /\ ~saving
  /\ place' = "there" /\ kind' \in Kinds /\ readable'
  /\ UNCHANGED <<frames, litter, saving, result>>

load ==
  /\ ~saving /\ place = "there" /\ readable
  /\ frames' = tags /\ result' = "loaded"
  /\ UNCHANGED <<content, litter, saving>>

(* The frames stay if there is no file.                                    *)
loadFails ==
  /\ ~saving /\ ~(place = "there" /\ readable)
  /\ frames' = IF place = "there" THEN <<>> ELSE frames
  /\ result' = "failed"
  /\ UNCHANGED <<content, litter, saving>>

edit ==
  /\ ~saving /\ result' = "edited"
  /\ UNCHANGED <<content, litter, saving>>

save ==
  /\ ~saving /\ saving'
  /\ UNCHANGED <<content, frames, litter, result>>

-----------------------------------------------------------------------------
(* What is left behind a new file by an older temporary one.               *)
Ragged ==
  /\ litter /\ kind # "MP3"
  /\ IsPrefix(sound, sound')

(* The new tags come into the file, or the file with them is the temporary *)
(* one.  A copy of an MP3 file takes the first byte of its ID3v1 tag for   *)
(* the last one of the sound.  A WAVE file without tags may not be known   *)
(* again.                                                                  *)
store ==
  /\ saving /\ place = "there"
  /\ place' \in {"there", "aside"}
  /\ \/ /\ tags' = Kept(frames)
        /\ \/ sound' = sound
           \/ kind = "MP3" /\ place' = "aside" /\ sound' = <<Append(sound[1], Slip)>>
     \/ Ragged
  /\ readable' \/ (kind = "WAVE" /\ frames = <<>>) \/ Ragged
  /\ UNCHANGED <<kind, frames, litter, saving, result>>

(* The ID3v1 tag is written over the last byte of the sound.               *)
cut ==
  /\ saving /\ place = "there" /\ kind = "MP3"
  /\ sound' = <<Front(sound[1])>>
  /\ UNCHANGED <<place, kind, tags, readable, frames, litter, saving, result>>

putInPlace ==
  /\ saving /\ place = "aside" /\ place' = "there"
  /\ ~saving' /\ result' = "saved" /\ (litter' => litter)
  /\ UNCHANGED <<kind, sound, tags, readable, frames>>

saved ==
  /\ saving /\ ~saving' /\ result' = "saved"
  /\ place = "there" /\ tags = Kept(frames) /\ (litter' => litter)
  /\ UNCHANGED <<content, frames>>

(* An exception: the file is the old one or the new one, wherever it is.   *)
failed ==
  /\ ~saving' /\ result' = "failed"
  /\ UNCHANGED <<content, frames>>

(* Saving an MP3 file that is aside begins with its temporary copy.        *)
lose ==
  /\ saving /\ place = "aside" /\ kind = "MP3"
  /\ place' = "lost"
  /\ UNCHANGED <<frames, litter, saving, result>>

(* The process ends, and another one begins with a new object.             *)
crash ==
  /\ frames' = <<>> /\ ~saving' /\ result' = "none"
  /\ UNCHANGED content

Next ==
  \/ given \/ load \/ loadFails \/ edit \/ save
  \/ store \/ cut \/ putInPlace \/ saved \/ failed \/ lose \/ crash

(* A call that changes nothing is no step.                                 *)
Spec == Init /\ [][vars' # vars /\ Next]_vars

=============================================================================
