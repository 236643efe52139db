------------------------------ MODULE MCLogger ------------------------------
(* A thread that prints and one that changes the logger.  The file of      *)
(* INFO is that of DEBUG, or another one, or the only one.                 *)
EXTENDS Logger, TLC

CONSTANTS app, admin, a, b, h, n1, n2, n3, m

MCThreads == {app, admin}
MCPrios == {7, 8}
MCCalls == (app :> 2) @@ (admin :> 2)

MCSetups ==
  { [names |-> (7 :> a) @@ (8 :> b), generations |-> 2, handlers |-> <<n1>>],
    [names |-> (7 :> a) @@ (8 :> a), generations |-> 2, handlers |-> <<>>],
    [names |-> (7 :> a) @@ (8 :> NULL), generations |-> 1, handlers |-> <<n1>>] }

MCOffers ==
  (app :> { [op |-> "print", prio |-> 7, level |-> 0, place |-> NULL, lines |-> 1],
            [op |-> "print", prio |-> 8, level |-> 0, place |-> m, lines |-> 2] })
  @@
  (admin :>
    { [op |-> "print", prio |-> 7, level |-> 1, place |-> NULL, lines |-> 2],
      [op |-> "setFilter", place |-> m, level |-> 0],
      [op |-> "deleteFilter", place |-> m],
      [op |-> "setLogfile", prio |-> 8, name |-> b, level |-> NULL],
      [op |-> "setLogfile", prio |-> 7, name |-> b, level |-> 1],
      [op |-> "setLogfile", prio |-> 7, name |-> NULL, level |-> NULL],
      [op |-> "setLogLevel", prio |-> 7, level |-> 1],
      [op |-> "setLogRotate"],
      [op |-> "addLogHandler", handler |-> h],
      [op |-> "deleteLogHandler", handler |-> h],
      [op |-> "terminate"] })

=============================================================================
