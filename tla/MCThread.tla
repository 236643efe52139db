------------------------------ MODULE MCThread ------------------------------
(* One Thread object, its owner, two helpers and a few OS threads: the     *)
(* tail of one ThreadProc overlaps the next run of the object.             *)
EXTENDS ThreadControl

CONSTANTS owner, h1, h2

MCCallers == {owner, h1, h2}
MCHelpers == {h1, h2}
MCOwner == [t \in Threads |-> owner]

=============================================================================
