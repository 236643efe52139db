-------------------------- MODULE MCSocketMessage --------------------------
(* A client, and a server with two threads that send.                      *)
EXTENDS SocketMessage, TLC

CONSTANTS client, server, c, s, n, ask, answer, note

MCEnds == {client, server}
MCThreads == {c, s, n}
MCEnd == (c :> client) @@ (s :> server) @@ (n :> server)
MCReaders == {c, s}
MCOutbox == (c :> {ask}) @@ (s :> {answer}) @@ (n :> {note})
MCSize == (ask :> 0) @@ (answer :> 2) @@ (note :> 2)

=============================================================================
