-------------------------- MODULE NestedTransaction --------------------------
(***************************************************************************)
(* What the transaction methods of ppl7::db::Database promise              *)
(* (src/src/database/Database.cpp, the notes at startTransaction to        *)
(* cancelTransactionComplete): brackets that nest, of which an inner one   *)
(* is closed or rolled back alone, and of which the outermost one either   *)
(* takes effect as a whole or not at all.                                  *)
(***************************************************************************)
EXTENDS Naturals, Sequences

CONSTANT Rows  (* what can be written, each once *)

VARIABLES
  stored,  (* what is in the database for good                             *)
  levels,  (* levels[i]: what was written in the i-th open bracket         *)
  lost     (* the database has dropped the open transaction                *)

nvars == <<stored, levels, lost>>

TypeOK ==
  /\ stored \subseteq Rows
  /\ levels \in Seq(SUBSET Rows)
  /\ lost \in BOOLEAN

Init == stored = {} /\ levels = <<>> /\ lost = FALSE

Depth == Len(levels)
Outer == SubSeq(levels, 1, Depth - 1)

Begin ==
  /\ ~lost
  /\ levels' = Append(levels, {})
  /\ UNCHANGED <<stored, lost>>

Write(r) ==
  /\ ~lost
  /\ IF Depth = 0
     THEN stored' = stored \cup {r} /\ UNCHANGED levels
     ELSE levels' = [levels EXCEPT ![Depth] = @ \cup {r}] /\ UNCHANGED stored
  /\ UNCHANGED lost

(* The end of a bracket hands what it wrote to the next outer one.         *)
End ==
  /\ ~lost /\ Depth > 0
  /\ IF Depth = 1
     THEN stored' = stored \cup levels[1] /\ levels' = <<>>
     ELSE /\ levels' = [Outer EXCEPT ![Depth - 1] = @ \cup levels[Depth]]
          /\ UNCHANGED stored
  /\ UNCHANGED lost

Cancel ==
  /\ Depth > 0
  /\ levels' = Outer
  /\ lost' = (lost /\ Depth > 1)
  /\ UNCHANGED stored

CancelComplete ==
  /\ Depth > 0
  /\ levels' = <<>>
  /\ lost' = FALSE
  /\ UNCHANGED stored

(* The database drops the transaction: nothing of it is stored, and from   *)
(* then on the application can only roll back.                             *)
Drop ==
  /\ Depth > 0
  /\ levels' = [i \in DOMAIN levels |-> {}]
  /\ lost' = TRUE
  /\ UNCHANGED stored

Next ==
  \/ Begin \/ End \/ Cancel \/ CancelComplete \/ Drop
  \/ \E r \in Rows : Write(r)

Spec == Init /\ [][Next]_nvars

=============================================================================
